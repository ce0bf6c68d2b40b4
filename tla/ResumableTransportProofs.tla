----------------------- MODULE ResumableTransportProofs -----------------------
(***************************************************************************)
(* Theorems about ResumableTransport, for every number of connections,     *)
(* events and envelopes and every size of the ring buffer and the outbox.  *)
(***************************************************************************)
EXTENDS ResumableTransport, SequenceTheorems, FiniteSetTheorems, TLAPS

-----------------------------------------------------------------------------
(* Types of the operators the actions are built from *)

\* The client, the network and the server start with well-typed, empty state.
LEMMA InitType == Init => TypeOK
<1> SUFFICES ASSUME Init PROVE TypeOK
  OBVIOUS
<1> USE ConstantsAssumption DEF ConstantsAssumption, Init, Conns, NoConn
<1>1. ClientTypeOK
  <2>1. outbox \in Seq(Queued) /\ Len(outbox) = 0
    BY EmptySeq
  <2>2. opened \in 0 .. MaxConn /\ ws \in 0 .. opened /\ lastSeq \in Nat
    OBVIOUS
  <2>3. readyState \in [Conns -> {"none", "connecting", "open", "closing", "closed"}]
    OBVIOUS
  <2>4. request \in [1 .. MaxSend -> Fates]
    BY DEF Fates
  <2>5. reconnectTimer \in BOOLEAN /\ explicitlyClosed \in BOOLEAN
    OBVIOUS
  <2>6. Len(outbox) <= OutboxLimit
    BY <2>1
  <2> HIDE DEF Init, Conns
  <2> QED
    BY <2>1, <2>2, <2>3, <2>4, <2>5, <2>6 DEF ClientTypeOK
<1>2. NetTypeOK
  BY DEF NetTypeOK
<1>3. ServerTypeOK
  BY DEF ServerTypeOK
<1>4. ResumeTypeOK
  BY DEF ResumeTypeOK
<1>5. HistoryTypeOK
  BY DEF HistoryTypeOK
<1> QED
  BY <1>1, <1>2, <1>3, <1>4, <1>5 DEF TypeOK

\* The envelopes of the application in a queue have numbers it gave out.
LEMMA IdsType ==
  ASSUME NEW s \in Seq(ClientEnvelope)
  PROVE  Ids(s) \subseteq 1 .. MaxSend
BY DEF Ids, ClientEnvelope, Queued

\* Opening a socket takes the next connection number, which the bound allows.
LEMMA OpenSocketType ==
  ASSUME TypeOK, OpenSocket, UNCHANGED <<lastSeq, outbox, request, explicitlyClosed>>
  PROVE  ClientTypeOK'
<1> USE ConstantsAssumption DEF ConstantsAssumption
<1>1. opened' \in 0 .. MaxConn /\ ws' \in 0 .. opened'
  BY DEF TypeOK, ClientTypeOK, OpenSocket
<1>2. readyState' \in [Conns -> {"none", "connecting", "open", "closing", "closed"}]
  BY DEF TypeOK, ClientTypeOK, OpenSocket
<1>3. reconnectTimer' \in BOOLEAN
  BY DEF OpenSocket
<1> QED
  BY <1>1, <1>2, <1>3 DEF TypeOK, ClientTypeOK

\* What is put on a connection, or lost on one that closes, is what the client sent.
LEMMA TransmitType ==
  ASSUME TypeOK, NEW c, NEW envs \in Seq(ClientEnvelope), Transmit(c, envs)
  PROVE  /\ toServer' \in [Conns -> Seq(ClientEnvelope)]
         /\ lost' \subseteq 1 .. MaxSend
<1>1. c \in Conns => toServer[c] \o envs \in Seq(ClientEnvelope)
  BY ConcatProperties DEF TypeOK, NetTypeOK
<1>2. toServer' \in [Conns -> Seq(ClientEnvelope)]
  BY <1>1 DEF Transmit, TypeOK, NetTypeOK
<1>3. lost' \subseteq 1 .. MaxSend
  BY IdsType DEF Transmit, TypeOK, HistoryTypeOK
<1> QED
  BY <1>2, <1>3

\* enqueue() makes room before it adds: the outbox never exceeds its limit.
LEMMA EnqueueType ==
  ASSUME TypeOK, NEW q \in Queued, Enqueue(q)
  PROVE  /\ outbox' \in Seq(Queued) /\ Len(outbox') <= OutboxLimit
         /\ dropped' \subseteq 1 .. MaxSend
<1> USE ConstantsAssumption DEF ConstantsAssumption
<1>0. outbox \in Seq(Queued) /\ Len(outbox) \in Nat /\ Len(outbox) <= OutboxLimit
  BY LenProperties DEF TypeOK, ClientTypeOK
<1>1. CASE Overflow
  <2>1. outbox # << >>
    BY <1>0, <1>1, EmptySeq DEF Overflow
  <2>2. Head(outbox) \in Queued /\ Tail(outbox) \in Seq(Queued)
        /\ Len(Tail(outbox)) = Len(outbox) - 1
    BY <1>0, <2>1, HeadTailProperties
  <2>3. outbox' \in Seq(Queued) /\ Len(outbox') = Len(outbox)
    BY <1>0, <1>1, <2>2, AppendProperties DEF Enqueue
  <2>4. dropped' \subseteq 1 .. MaxSend
    BY <1>1, <2>2 DEF Enqueue, Queued, TypeOK, HistoryTypeOK
  <2> QED
    BY <1>0, <2>3, <2>4
<1>2. CASE ~Overflow
  <2>1. outbox' \in Seq(Queued) /\ Len(outbox') = Len(outbox) + 1
    BY <1>0, <1>2, AppendProperties DEF Enqueue
  <2> QED
    BY <1>0, <1>2, <2>1 DEF Enqueue, Overflow, TypeOK, HistoryTypeOK
<1> QED
  BY <1>1, <1>2

\* What a ResumableSocket sends is well typed and as long as its events.
LEMMA WireType ==
  ASSUME TypeOK, NEW c \in Conns, NEW evs \in Seq(Event)
  PROVE  Wire(c, evs) \in Seq(ServerEnvelope) /\ Len(Wire(c, evs)) = Len(evs)
<1> DEFINE e(i) == [kind |-> "event", seq |-> connSeq[c] + i, ev |-> evs[i]]
<1>1. connSeq[c] \in Nat
  BY DEF TypeOK, ServerTypeOK
<1>2. Len(evs) \in Nat /\ \A i \in 1 .. Len(evs) : evs[i] \in Event
  BY LenProperties
<1>3. \A i \in 1 .. Len(evs) : e(i) \in ServerEnvelope
  BY <1>1, <1>2 DEF ServerEnvelope, Event
<1> HIDE DEF e
<1>4. [i \in 1 .. Len(evs) |-> e(i)] \in [1 .. Len(evs) -> ServerEnvelope]
  BY <1>3
<1>5. [i \in 1 .. Len(evs) |-> e(i)] \in Seq(ServerEnvelope)
      /\ Len([i \in 1 .. Len(evs) |-> e(i)]) = Len(evs)
  BY <1>2, <1>4, SeqDef, LenProperties
<1>6. Wire(c, evs) = [i \in 1 .. Len(evs) |-> e(i)]
  BY DEF Wire, e
<1> QED
  BY <1>5, <1>6

\* Events leave on a connection with consecutive numbers that are naturals.
LEMMA InnerEmitType ==
  ASSUME TypeOK, NEW c, NEW evs \in Seq(Event), InnerEmit(c, evs)
  PROVE  /\ connSeq' \in [Conns -> Nat]
         /\ toClient' \in [Conns -> Seq(ServerEnvelope)]
<1>1. Len(evs) \in Nat
  BY LenProperties
<1>2. connSeq' \in [Conns -> Nat]
  <2> DEFINE n == connSeq[c] + Len(evs)
  <2>1. connSeq' = connSeq \/ connSeq' = [connSeq EXCEPT ![c] = n]
    BY DEF InnerEmit
  <2>2. c \in Conns => n \in Nat
    BY <1>1 DEF TypeOK, ServerTypeOK
  <2> HIDE DEF n
  <2> QED
    BY <2>1, <2>2 DEF TypeOK, ServerTypeOK
<1>3. c \in Conns => toClient[c] \o Wire(c, evs) \in Seq(ServerEnvelope)
  BY WireType, ConcatProperties DEF TypeOK, NetTypeOK
<1>4. toClient' \in [Conns -> Seq(ServerEnvelope)]
  <2> DEFINE w == toClient[c] \o Wire(c, evs)
  <2>1. \/ toClient' = toClient
        \/ toClient' = [toClient EXCEPT ![c] = w]
    BY DEF InnerEmit
  <2>2. c \in Conns => w \in Seq(ServerEnvelope)
    BY <1>3
  <2> HIDE DEF w
  <2> QED
    BY <2>1, <2>2 DEF TypeOK, NetTypeOK
<1> QED
  BY <1>2, <1>4

\* emit() shifts the ring buffer when it is too long: it never exceeds its size.
LEMMA PushType ==
  ASSUME TypeOK, NEW r \in Conns, NEW ev \in Event
  PROVE  Push(r, ev) \in Seq(Buffered) /\ Len(Push(r, ev)) <= BufferSize
<1> USE ConstantsAssumption DEF ConstantsAssumption
<1> DEFINE x == [seq |-> nextSeq[r] + 1, ev |-> ev]
           b == Append(buffer[r], x)
<1>1. x \in Buffered
  BY DEF TypeOK, ResumeTypeOK, Buffered
<1>2. /\ buffer[r] \in Seq(Buffered)
      /\ Len(buffer[r]) \in Nat
      /\ Len(buffer[r]) <= BufferSize
  BY LenProperties DEF TypeOK, ResumeTypeOK
<1> HIDE DEF x
<1>3. b \in Seq(Buffered) /\ b # << >> /\ Len(b) = Len(buffer[r]) + 1
  BY <1>1, <1>2, AppendProperties
<1>4. Tail(b) \in Seq(Buffered) /\ Len(Tail(b)) = Len(b) - 1
  BY <1>3, HeadTailProperties
<1>5. Push(r, ev) = IF Len(b) > BufferSize THEN Tail(b) ELSE b
  BY DEF Push, x
<1> HIDE DEF b
<1> QED
  BY <1>2, <1>3, <1>4, <1>5

\* One emit of a ResumableSocket keeps its buffer, its numbers and the connection typed.
LEMMA RsEmitType ==
  ASSUME TypeOK, NEW r \in Conns, NEW ev \in Event, RsEmit(r, ev)
  PROVE  /\ connSeq' \in [Conns -> Nat]
         /\ toClient' \in [Conns -> Seq(ServerEnvelope)]
         /\ nextSeq' \in [Conns -> Nat]
         /\ buffer' \in [Conns -> Seq(Buffered)]
         /\ \A s \in Conns : Len(buffer'[s]) <= BufferSize
<1>1. <<ev>> \in Seq(Event)
  OBVIOUS
<1>2. InnerEmit(inner[r], <<ev>>)
  BY DEF RsEmit
<1>3. connSeq' \in [Conns -> Nat] /\ toClient' \in [Conns -> Seq(ServerEnvelope)]
  BY <1>1, <1>2, InnerEmitType
<1>4. nextSeq' \in [Conns -> Nat]
  BY DEF RsEmit, TypeOK, ResumeTypeOK
<1>5. /\ buffer' = [buffer EXCEPT ![r] = Push(r, ev)]
      /\ buffer \in [Conns -> Seq(Buffered)]
      /\ \A s \in Conns : Len(buffer[s]) <= BufferSize
  BY DEF RsEmit, TypeOK, ResumeTypeOK
<1>6. Push(r, ev) \in Seq(Buffered) /\ Len(Push(r, ev)) <= BufferSize
  BY PushType
<1> QED
  BY <1>3, <1>4, <1>5, <1>6

-----------------------------------------------------------------------------
(* The inductive invariant.  NewestIsBound keeps the sockets that HandleResume *)
(* and Emit reach inside Conns, BufferIsSuffix is what makes the replay well   *)
(* typed, and both rest on the order in which connections are opened: only the *)
(* newest one is ever connecting, so only the newest one is ever accepted.     *)

SocketOrder ==
  /\ ws \in {NoConn, opened}
  /\ \A c \in Conns : readyState[c] # "none" => c <= opened
  /\ \A c \in Conns : readyState[c] = "closing" => explicitlyClosed
  /\ explicitlyClosed => ws = NoConn

Accepted ==
  /\ \A c \in Conns : up[c] # "none" => readyState[c] # "none"
  /\ registry # NoConn => up[registry] # "none"

IInv ==
  /\ TypeOK /\ OneSocketOrTimer /\ SocketOrder
  /\ Accepted /\ NewestIsBound /\ BufferIsSuffix

-----------------------------------------------------------------------------
(* The ring buffer *)

\* Len(buffer[r]) and the numbers in it, as BufferIsSuffix states them for all r.
Suffix(b, n) ==
  /\ Len(b) = IF n < BufferSize THEN n ELSE BufferSize
  /\ \A i \in 1 .. Len(b) : b[i].seq = n - Len(b) + i

\* One more event, and perhaps one less at the front: the buffer stays the suffix that
\* ends with the newest event.
LEMMA PushSuffix ==
  ASSUME TypeOK, NEW r \in Conns, NEW ev \in Event, Suffix(buffer[r], nextSeq[r])
  PROVE  /\ Suffix(Push(r, ev), nextSeq[r] + 1)
         /\ Push(r, ev)[Len(Push(r, ev))].ev = ev
<1> USE ConstantsAssumption DEF ConstantsAssumption
<1> DEFINE n == nextSeq[r]
           x == [seq |-> n + 1, ev |-> ev]
           old == buffer[r]
           b == Append(old, x)
<1>1. n \in Nat /\ x \in Buffered /\ x.seq = n + 1 /\ x.ev = ev
  BY DEF TypeOK, ResumeTypeOK, Buffered
<1>2. old \in Seq(Buffered) /\ Len(old) \in Nat
  BY LenProperties DEF TypeOK, ResumeTypeOK
<1>3. /\ Len(old) = IF n < BufferSize THEN n ELSE BufferSize
      /\ \A i \in 1 .. Len(old) : old[i].seq = n - Len(old) + i
  BY DEF Suffix
<1>4. Push(r, ev) = IF Len(b) > BufferSize THEN Tail(b) ELSE b
  BY DEF Push
<1> HIDE DEF x, n, old
<1>5. /\ b \in Seq(Buffered) /\ b # << >> /\ Len(b) = Len(old) + 1
      /\ \A i \in 1 .. Len(old) : b[i] = old[i]
      /\ b[Len(old) + 1] = x
  BY <1>1, <1>2, AppendProperties
<1> HIDE DEF b
<1>6. \A i \in 1 .. Len(b) : b[i].seq = n + 1 - Len(b) + i
  <2> SUFFICES ASSUME NEW i \in 1 .. Len(b)
               PROVE  b[i].seq = n + 1 - Len(b) + i
    OBVIOUS
  <2>1. CASE i \in 1 .. Len(old)
    <3>1. b[i].seq = n - Len(old) + i
      BY <1>3, <1>5, <2>1
    <3> QED
      BY <1>1, <1>2, <1>5, <3>1
  <2>2. CASE i = Len(old) + 1
    BY <1>1, <1>2, <1>5, <2>2
  <2> QED
    BY <1>2, <1>5, <2>1, <2>2
<1>7. CASE Len(b) > BufferSize
  <2> DEFINE t == Tail(b)
  <2>1. Len(t) = Len(b) - 1 /\ \A i \in 1 .. Len(t) : t[i] = b[i + 1]
    BY <1>5, HeadTailProperties
  <2> HIDE DEF t
  <2>2. Len(t) = BufferSize /\ ~(n + 1 < BufferSize) /\ Len(b) = BufferSize + 1
    BY <1>1, <1>2, <1>3, <1>5, <1>7, <2>1
  <2>3. \A i \in 1 .. Len(t) : t[i].seq = n + 1 - Len(t) + i
    <3> SUFFICES ASSUME NEW i \in 1 .. BufferSize
                 PROVE  t[i].seq = n + 1 - BufferSize + i
      BY <2>2
    <3>1. i + 1 \in 1 .. Len(b) /\ t[i] = b[i + 1]
      BY <2>1, <2>2
    <3>2. b[i + 1].seq = n + 1 - Len(b) + (i + 1)
      BY <1>6, <3>1
    <3>3. n + 1 - Len(b) + (i + 1) = n + 1 - BufferSize + i
      BY <1>1, <2>2
    <3> QED
      BY <3>1, <3>2, <3>3
  <2>4. t[Len(t)].ev = ev
    BY <1>1, <1>2, <1>5, <2>1, <2>2
  <2>5. Suffix(t, n + 1)
    BY <1>1, <2>2, <2>3 DEF Suffix
  <2>6. Push(r, ev) = t
    BY <1>4, <1>7 DEF t
  <2> QED
    BY <2>4, <2>5, <2>6 DEF n
<1>8. CASE ~(Len(b) > BufferSize)
  <2>1. Len(b) = n + 1 /\ n + 1 <= BufferSize
    BY <1>1, <1>2, <1>3, <1>5, <1>8
  <2>2. Suffix(b, n + 1)
    BY <1>1, <1>6, <2>1 DEF Suffix
  <2> QED
    BY <1>1, <1>4, <1>5, <1>8, <2>2 DEF n
<1> QED
  BY <1>7, <1>8

-----------------------------------------------------------------------------
(* What a step leaves alone keeps its part of the invariant *)

\* A step that leaves a component's variables alone keeps what is said of them.
LEMMA Frame ==
  ASSUME IInv
  PROVE  /\ UNCHANGED clientVars => ClientTypeOK' /\ OneSocketOrTimer' /\ SocketOrder'
         /\ UNCHANGED netVars => NetTypeOK'
         /\ UNCHANGED serverVars => ServerTypeOK'
         /\ UNCHANGED resumeVars => ResumeTypeOK'
         /\ UNCHANGED historyVars => HistoryTypeOK'
         /\ UNCHANGED <<buffer, nextSeq>> => BufferIsSuffix'
<1>1. UNCHANGED clientVars => ClientTypeOK' /\ OneSocketOrTimer' /\ SocketOrder'
  BY DEF IInv, TypeOK, clientVars, ClientTypeOK, OneSocketOrTimer, SocketOrder
<1>2. UNCHANGED netVars => NetTypeOK'
  BY DEF IInv, TypeOK, netVars, NetTypeOK
<1>3. UNCHANGED serverVars => ServerTypeOK'
  BY DEF IInv, TypeOK, serverVars, ServerTypeOK
<1>4. UNCHANGED resumeVars => ResumeTypeOK'
  BY DEF IInv, TypeOK, resumeVars, ResumeTypeOK
<1>5. UNCHANGED historyVars => HistoryTypeOK'
  BY DEF IInv, TypeOK, historyVars, HistoryTypeOK
<1>6. UNCHANGED <<buffer, nextSeq>> => BufferIsSuffix'
  BY DEF IInv, BufferIsSuffix
<1> QED
  BY <1>1, <1>2, <1>3, <1>4, <1>5, <1>6

\* A step that binds, registers and accepts nothing keeps the bindings.
LEMMA BindingFrame ==
  ASSUME IInv, UNCHANGED <<rsOf, inner, registry>>,
         \A c \in Conns : up'[c] # "none" <=> up[c] # "none"
  PROVE  /\ NewestIsBound'
         /\ (\A c \in Conns : readyState[c] # "none" => readyState'[c] # "none")
              => Accepted'
<1> USE ConstantsAssumption DEF ConstantsAssumption, Conns
<1>1. NewestIsBound'
  BY DEF IInv, NewestIsBound
<1>2. ASSUME \A c \in Conns : readyState[c] # "none" => readyState'[c] # "none"
      PROVE  Accepted'
  BY <1>2 DEF IInv, Accepted, TypeOK, ResumeTypeOK, NoConn
<1> QED
  BY <1>1, <1>2

-----------------------------------------------------------------------------
(* One lemma per action of the client *)

\* A client without a live socket that opens one has one live socket, the newest.
LEMMA OpenSocketInv ==
  ASSUME IInv, OpenSocket, ~explicitlyClosed,
         ws # NoConn => readyState[ws] = "closed",
         UNCHANGED <<lastSeq, outbox, request, explicitlyClosed, netVars,
                     serverVars, resumeVars, historyVars>>
  PROVE  IInv'
<1> USE ConstantsAssumption DEF ConstantsAssumption, Conns, NoConn
<1>1. ClientTypeOK'
  BY OpenSocketType DEF IInv
<1>2. readyState' = [readyState EXCEPT ![opened + 1] = "connecting"]
      /\ ws' = opened + 1 /\ opened' = opened + 1 /\ ~reconnectTimer'
      /\ opened \in Nat /\ opened + 1 \in Conns
  BY DEF OpenSocket, IInv, TypeOK, ClientTypeOK
<1>3. \A c \in Conns : readyState'[c] \in {"connecting", "open"} => c = opened + 1
  BY <1>2 DEF IInv, OneSocketOrTimer, TypeOK, ClientTypeOK
<1>4. OneSocketOrTimer'
  BY <1>2, <1>3 DEF OneSocketOrTimer, IInv, TypeOK, ClientTypeOK
<1>5. SocketOrder'
  BY <1>2 DEF SocketOrder, IInv, TypeOK, ClientTypeOK
<1>6. NewestIsBound' /\ Accepted'
  BY <1>2, BindingFrame DEF serverVars, resumeVars, IInv, TypeOK, ClientTypeOK
<1> QED
  BY <1>1, <1>4, <1>5, <1>6, Frame DEF IInv, TypeOK, resumeVars

\* connect() opens a socket only when there is none.
LEMMA ConnectInv == ASSUME IInv, Connect PROVE IInv'
BY OpenSocketInv DEF Connect

\* The reconnect timer runs only while the last socket is closed.
LEMMA ReconnectInv == ASSUME IInv, Reconnect PROVE IInv'
<1>1. ws # NoConn /\ readyState[ws] = "closed" /\ ~explicitlyClosed
  BY DEF Reconnect, IInv, OneSocketOrTimer, SocketOrder
<1> QED
  BY <1>1, OpenSocketInv DEF Reconnect

\* disconnect() gives up the socket, the timer and the pending requests.
LEMMA DisconnectInv == ASSUME IInv, Disconnect PROVE IInv'
<1> USE ConstantsAssumption DEF ConstantsAssumption, Conns, NoConn
<1>1. readyState' = [c \in Conns |->
        IF c = ws /\ readyState[c] # "closed" THEN "closing" ELSE readyState[c]]
      /\ ws' = NoConn /\ ~reconnectTimer' /\ explicitlyClosed' /\ UNCHANGED <<opened, lastSeq, outbox>>
  BY DEF Disconnect
<1>2. request' \in [1 .. MaxSend -> Fates]
  BY DEF Disconnect, RejectPending, IInv, TypeOK, ClientTypeOK, Fates
<1>3. ClientTypeOK'
  <2>1. readyState' \in [Conns -> {"none", "connecting", "open", "closing", "closed"}]
    BY <1>1 DEF IInv, TypeOK, ClientTypeOK
  <2>2. explicitlyClosed' \in BOOLEAN /\ reconnectTimer' \in BOOLEAN
    BY DEF Disconnect
  <2> QED
    BY <1>1, <1>2, <2>1, <2>2 DEF IInv, TypeOK, ClientTypeOK
<1>4. OneSocketOrTimer'
  BY <1>1 DEF IInv, OneSocketOrTimer
<1>5. SocketOrder'
  BY <1>1 DEF IInv, SocketOrder, TypeOK, ClientTypeOK
<1>6. NewestIsBound' /\ Accepted'
  <2>1. \A c \in Conns : readyState[c] # "none" => readyState'[c] # "none"
    BY <1>1
  <2> QED
    BY <2>1, BindingFrame DEF Disconnect, serverVars, resumeVars
<1> QED
  BY <1>3, <1>4, <1>5, <1>6, Frame DEF IInv, TypeOK, Disconnect, resumeVars

\* emit() and request() transmit or enqueue one envelope.
LEMMA SendInv == ASSUME IInv, NEW kind \in {"event", "request"}, Send(kind) PROVE IInv'
<1> USE ConstantsAssumption DEF ConstantsAssumption
<1> DEFINE q == [kind |-> kind, id |-> sent + 1]
<1>1. q \in Queued /\ q \in ClientEnvelope /\ <<q>> \in Seq(ClientEnvelope)
      /\ sent' \in 0 .. MaxSend
  BY DEF Queued, ClientEnvelope, Send, IInv, TypeOK, HistoryTypeOK
<1>2. TypeOK
  BY DEF IInv
<1>3. request' \in [1 .. MaxSend -> Fates]
  BY DEF Send, RequestAfter, IInv, TypeOK, ClientTypeOK, Fates
<1>4. /\ outbox' \in Seq(Queued) /\ Len(outbox') <= OutboxLimit
      /\ toServer' \in [Conns -> Seq(ClientEnvelope)]
      /\ dropped' \subseteq 1 .. MaxSend /\ lost' \subseteq 1 .. MaxSend
  <2>1. CASE isOpen
    <3>1. Transmit(ws, <<q>>) /\ UNCHANGED <<outbox, dropped>>
      BY <2>1 DEF Send
    <3> QED
      BY <1>1, <1>2, <3>1, TransmitType DEF TypeOK, ClientTypeOK, HistoryTypeOK
  <2>2. CASE ~isOpen
    <3>1. Enqueue(q) /\ UNCHANGED <<toServer, lost>>
      BY <2>2 DEF Send
    <3> QED
      BY <1>1, <1>2, <3>1, EnqueueType DEF TypeOK, NetTypeOK, HistoryTypeOK
  <2> QED
    BY <2>1, <2>2
<1> HIDE DEF q
<1>5. ClientTypeOK'
  BY <1>2, <1>3, <1>4 DEF Send, TypeOK, ClientTypeOK
<1>6. NetTypeOK' /\ HistoryTypeOK'
  BY <1>1, <1>2, <1>4 DEF Send, TypeOK, NetTypeOK, HistoryTypeOK
<1>7. OneSocketOrTimer' /\ SocketOrder'
  BY DEF Send, IInv, OneSocketOrTimer, SocketOrder
<1>8. NewestIsBound' /\ Accepted'
  BY BindingFrame DEF Send, serverVars, resumeVars
<1> QED
  BY <1>5, <1>6, <1>7, <1>8, Frame DEF IInv, TypeOK, Send, resumeVars

\* On open the resume envelope leaves, then the outbox, which is empty afterwards.
LEMMA HandleOpenInv == ASSUME IInv, NEW c \in Conns, HandleOpen(c) PROVE IInv'
<1> USE ConstantsAssumption DEF ConstantsAssumption
<1>1. TypeOK
  BY DEF IInv
<1>2. <<ResumeEnvelope>> \o outbox \in Seq(ClientEnvelope)
  <2>1. <<ResumeEnvelope>> \in Seq(ClientEnvelope)
    BY <1>1 DEF ResumeEnvelope, ClientEnvelope, TypeOK, ClientTypeOK
  <2>2. outbox \in Seq(ClientEnvelope)
    BY <1>1, SeqMonotonic DEF ClientEnvelope, TypeOK, ClientTypeOK
  <2> QED
    BY <2>1, <2>2, ConcatProperties
<1>3. toServer' \in [Conns -> Seq(ClientEnvelope)] /\ lost' \subseteq 1 .. MaxSend
  BY <1>1, <1>2, TransmitType DEF HandleOpen, Flush
<1>4. outbox' = << >> /\ outbox' \in Seq(Queued) /\ Len(outbox') = 0
  BY EmptySeq DEF HandleOpen, Flush
<1>5. readyState[c] = "connecting" /\ readyState' = [readyState EXCEPT ![c] = "open"]
  BY DEF HandleOpen
<1>6. ClientTypeOK'
  BY <1>1, <1>4, <1>5 DEF HandleOpen, TypeOK, ClientTypeOK
<1>7. NetTypeOK' /\ HistoryTypeOK'
  BY <1>1, <1>3 DEF HandleOpen, TypeOK, NetTypeOK, HistoryTypeOK, ClientTypeOK
<1>8. OneSocketOrTimer' /\ SocketOrder'
  BY <1>1, <1>5 DEF HandleOpen, IInv, OneSocketOrTimer, SocketOrder, TypeOK, ClientTypeOK
<1>9. NewestIsBound' /\ Accepted'
  BY <1>1, <1>5, BindingFrame DEF HandleOpen, serverVars, resumeVars, TypeOK, ClientTypeOK
<1> QED
  BY <1>6, <1>7, <1>8, <1>9, Frame DEF IInv, TypeOK, HandleOpen, resumeVars

\* An event that arrives can only raise lastSeq.
LEMMA ReceiveEventInv == ASSUME IInv, NEW c \in Conns, ReceiveEvent(c) PROVE IInv'
<1> USE ConstantsAssumption DEF ConstantsAssumption
<1>1. TypeOK
  BY DEF IInv
<1>2. toClient[c] \in Seq(ServerEnvelope) /\ toClient[c] # << >>
  BY <1>1 DEF ReceiveEvent, TypeOK, NetTypeOK
<1>3. Head(toClient[c]) \in ServerEnvelope /\ Tail(toClient[c]) \in Seq(ServerEnvelope)
  BY <1>2, HeadTailProperties
<1>4. Head(toClient[c]).seq \in Nat /\ Head(toClient[c]).ev \in Event
  BY <1>3 DEF ReceiveEvent, ServerEnvelope, Event
<1>5. ClientTypeOK'
  BY <1>1, <1>4 DEF ReceiveEvent, TypeOK, ClientTypeOK
<1>6. NetTypeOK'
  BY <1>1, <1>3 DEF ReceiveEvent, TypeOK, NetTypeOK
<1>7. HistoryTypeOK'
  <2>1. delivered' \in Seq(Event)
    BY <1>1, <1>4, AppendProperties DEF ReceiveEvent, TypeOK, HistoryTypeOK
  <2> QED
    BY <1>1, <2>1 DEF ReceiveEvent, TypeOK, HistoryTypeOK
<1>8. OneSocketOrTimer' /\ SocketOrder'
  BY DEF ReceiveEvent, IInv, OneSocketOrTimer, SocketOrder
<1>9. NewestIsBound' /\ Accepted'
  BY BindingFrame DEF ReceiveEvent, serverVars, resumeVars
<1> QED
  BY <1>5, <1>6, <1>7, <1>8, <1>9, Frame DEF IInv, TypeOK, ReceiveEvent, resumeVars

\* A response that arrives settles at most the request it names.
LEMMA ReceiveResponseInv ==
  ASSUME IInv, NEW c \in Conns, ReceiveResponse(c) PROVE IInv'
<1> USE ConstantsAssumption DEF ConstantsAssumption
<1>1. TypeOK
  BY DEF IInv
<1>2. toClient[c] \in Seq(ServerEnvelope) /\ toClient[c] # << >>
  BY <1>1 DEF ReceiveResponse, TypeOK, NetTypeOK
<1>3. Tail(toClient[c]) \in Seq(ServerEnvelope)
  BY <1>2, HeadTailProperties
<1>4. request' \in [1 .. MaxSend -> Fates]
  BY <1>1 DEF ReceiveResponse, TypeOK, ClientTypeOK, Fates
<1>5. ClientTypeOK'
  BY <1>1, <1>4 DEF ReceiveResponse, TypeOK, ClientTypeOK
<1>6. NetTypeOK'
  BY <1>1, <1>3 DEF ReceiveResponse, TypeOK, NetTypeOK
<1>7. OneSocketOrTimer' /\ SocketOrder'
  BY DEF ReceiveResponse, IInv, OneSocketOrTimer, SocketOrder
<1>8. NewestIsBound' /\ Accepted'
  BY BindingFrame DEF ReceiveResponse, serverVars, resumeVars
<1> QED
  BY <1>5, <1>6, <1>7, <1>8, Frame DEF IInv, TypeOK, ReceiveResponse, resumeVars

\* A close turns the live socket into a closed one with a timer.
LEMMA HandleCloseInv == ASSUME IInv, NEW c \in Conns, HandleClose(c) PROVE IInv'
<1> USE ConstantsAssumption DEF ConstantsAssumption
<1>1. TypeOK
  BY DEF IInv
<1>2. PICK n \in 0 .. Len(toServer[c]) :
        /\ toServer' = [toServer EXCEPT ![c] = SubSeq(@, 1, n)]
        /\ lost' = lost \cup Ids(SubSeq(toServer[c], n + 1, Len(toServer[c])))
  BY DEF HandleClose
<1>3. /\ toServer[c] \in Seq(ClientEnvelope) /\ Len(toServer[c]) \in Nat
      /\ \A i \in 1 .. Len(toServer[c]) : toServer[c][i] \in ClientEnvelope
  BY <1>1, LenProperties, ElementOfSeq DEF TypeOK, NetTypeOK
<1>4. SubSeq(toServer[c], 1, n) \in Seq(ClientEnvelope)
  BY <1>3, SubSeqProperties
<1>5. SubSeq(toServer[c], n + 1, Len(toServer[c])) \in Seq(ClientEnvelope)
  BY <1>3, SubSeqProperties
<1>6. Ids(SubSeq(toServer[c], n + 1, Len(toServer[c]))) \subseteq 1 .. MaxSend
  BY <1>5, IdsType
<1>7. NetTypeOK'
  BY <1>1, <1>2, <1>4 DEF HandleClose, TypeOK, NetTypeOK
<1>8. HistoryTypeOK'
  BY <1>1, <1>2, <1>6 DEF HandleClose, TypeOK, HistoryTypeOK
<1>9. /\ readyState[c] \in {"connecting", "open", "closing"}
      /\ readyState' = [readyState EXCEPT ![c] = "closed"]
      /\ reconnectTimer' = (reconnectTimer \/ ~explicitlyClosed)
      /\ UNCHANGED <<opened, ws, lastSeq, outbox, request, explicitlyClosed>>
  BY DEF HandleClose, ScheduleReconnect
<1>10. ClientTypeOK'
  BY <1>1, <1>9 DEF TypeOK, ClientTypeOK
<1>11. SocketOrder'
  BY <1>1, <1>9 DEF IInv, SocketOrder, TypeOK, ClientTypeOK
<1>12. OneSocketOrTimer'
  <2>1. CASE readyState[c] = "closing"
    BY <1>1, <1>9, <2>1 DEF IInv, OneSocketOrTimer, SocketOrder, TypeOK, ClientTypeOK
  <2>2. CASE readyState[c] \in {"connecting", "open"}
    <3>1. c = ws /\ ~reconnectTimer /\ ~explicitlyClosed /\ ws # NoConn
      BY <2>2 DEF IInv, OneSocketOrTimer, Conns, NoConn
    <3> QED
      BY <1>1, <1>9, <3>1 DEF IInv, OneSocketOrTimer, TypeOK, ClientTypeOK
  <2> QED
    BY <1>9, <2>1, <2>2
<1>13. NewestIsBound' /\ Accepted'
  BY <1>1, <1>9, BindingFrame DEF HandleClose, serverVars, resumeVars, TypeOK, ClientTypeOK
<1> QED
  BY <1>7, <1>8, <1>10, <1>11, <1>12, <1>13, Frame DEF IInv, TypeOK, HandleClose, resumeVars

-----------------------------------------------------------------------------
(* One lemma per action of the server *)

\* The event of an accept keeps the ring buffer a suffix of what was emitted, and
\* brings no response.
LEMMA GreetInv ==
  ASSUME IInv, NEW c \in Conns, Greet(c)
  PROVE  /\ toClient' \in [Conns -> Seq(ServerEnvelope)] /\ connSeq' \in [Conns -> Nat]
         /\ nextSeq' \in [Conns -> Nat] /\ buffer' \in [Conns -> Seq(Buffered)]
         /\ \A s \in Conns : Len(buffer'[s]) <= BufferSize
         /\ emitted' \in Nat /\ BufferIsSuffix'
<1> USE ConstantsAssumption DEF ConstantsAssumption
<1> DEFINE r == SocketFor(c)
           ev == emitted + 1
           w == toClient[c] \o Wire(c, <<ev>>)
<1>1. TypeOK
  BY DEF IInv
<1>2. r \in Conns /\ ev \in Event /\ emitted' = ev /\ ev \in Nat
  BY <1>1 DEF Greet, SocketFor, Event, TypeOK, ResumeTypeOK, HistoryTypeOK
<1>3. /\ nextSeq' = [nextSeq EXCEPT ![r] = @ + 1]
      /\ buffer' = [buffer EXCEPT ![r] = Push(r, ev)]
      /\ connSeq' = [connSeq EXCEPT ![c] = @ + 1]
      /\ toClient' = [toClient EXCEPT ![c] = w]
  BY DEF Greet
<1>4. w \in Seq(ServerEnvelope)
  <2>1. <<ev>> \in Seq(Event)
    BY <1>2
  <2> QED
    BY <1>1, <2>1, WireType, ConcatProperties DEF TypeOK, NetTypeOK
<1> HIDE DEF r, ev, w
<1>5. Push(r, ev) \in Seq(Buffered) /\ Len(Push(r, ev)) <= BufferSize
  BY <1>1, <1>2, PushType
<1>6. /\ toClient' \in [Conns -> Seq(ServerEnvelope)] /\ connSeq' \in [Conns -> Nat]
      /\ nextSeq' \in [Conns -> Nat] /\ buffer' \in [Conns -> Seq(Buffered)]
      /\ \A s \in Conns : Len(buffer'[s]) <= BufferSize
  <2>1. toClient' \in [Conns -> Seq(ServerEnvelope)]
    BY <1>1, <1>3, <1>4 DEF TypeOK, NetTypeOK
  <2>2. connSeq' \in [Conns -> Nat] /\ nextSeq' \in [Conns -> Nat]
    <3>1. connSeq \in [Conns -> Nat] /\ nextSeq \in [Conns -> Nat]
      BY <1>1 DEF TypeOK, ServerTypeOK, ResumeTypeOK
    <3> QED
      BY <1>2, <1>3, <3>1
  <2>3. buffer \in [Conns -> Seq(Buffered)] /\ \A s \in Conns : Len(buffer[s]) <= BufferSize
    BY <1>1 DEF TypeOK, ResumeTypeOK
  <2> DEFINE p == Push(r, ev)
  <2> HIDE DEF p
  <2>4. p \in Seq(Buffered) /\ Len(p) <= BufferSize /\ buffer' = [buffer EXCEPT ![r] = p]
    BY <1>3, <1>5 DEF p
  <2>5. buffer' \in [Conns -> Seq(Buffered)] /\ \A s \in Conns : Len(buffer'[s]) <= BufferSize
    BY <2>3, <2>4
  <2> QED
    BY <2>1, <2>2, <2>5
<1>7. \A s \in Conns : Suffix(buffer[s], nextSeq[s])
  BY <1>1, LenProperties DEF IInv, BufferIsSuffix, Suffix, TypeOK, ResumeTypeOK
<1>8. Suffix(Push(r, ev), nextSeq[r] + 1)
  BY <1>1, <1>2, <1>7, PushSuffix
<1>9. \A s \in Conns : Suffix(buffer'[s], nextSeq'[s])
  <2>1. /\ buffer'[r] = Push(r, ev) /\ nextSeq'[r] = nextSeq[r] + 1
        /\ \A s \in Conns : s # r => buffer'[s] = buffer[s] /\ nextSeq'[s] = nextSeq[s]
    BY <1>1, <1>2, <1>3 DEF TypeOK, ResumeTypeOK
  <2> QED
    BY <1>7, <1>8, <2>1
<1>10. BufferIsSuffix'
  BY <1>6, <1>9, LenProperties DEF BufferIsSuffix, Suffix
<1> QED
  BY <1>2, <1>6, <1>10

\* An accepted connection is bound by the registered ResumableSocket, or by a new one
\* that nothing was bound to: nothing newer exists that it could take events away from.
LEMMA AcceptInv == ASSUME IInv, NEW c \in Conns, Accept(c) PROVE IInv'
<1> USE ConstantsAssumption DEF ConstantsAssumption, Conns, NoConn
<1>1. TypeOK
  BY DEF IInv
<1>2. /\ readyState[c] = "connecting" /\ up[c] = "none"
      /\ up' = [up EXCEPT ![c] = "open"] /\ up' \in [Conns -> {"none", "open", "closed"}]
      /\ \A d \in Conns : d # c => up'[d] = up[d]
      /\ up'[c] = "open" /\ UNCHANGED readyState
  BY <1>1 DEF Accept, clientVars, TypeOK, ServerTypeOK
<1>3. c = opened
  BY <1>1, <1>2 DEF IInv, OneSocketOrTimer, SocketOrder, TypeOK, ClientTypeOK
<1>4. \A d \in Conns : up[d] # "none" => d < c
  BY <1>1, <1>2, <1>3 DEF IInv, SocketOrder, Accepted, TypeOK, ClientTypeOK
<1>5. /\ ServerTypeOK' /\ ResumeTypeOK' /\ BufferIsSuffix'
      /\ toClient' \in [Conns -> Seq(ServerEnvelope)] /\ emitted' \in Nat
  <2>1. rsOf' \in [Conns -> Conns \cup {NoConn}] /\ inner' \in [Conns -> Conns \cup {NoConn}]
    <3>1. /\ rsOf \in [Conns -> Conns \cup {NoConn}]
          /\ inner \in [Conns -> Conns \cup {NoConn}]
          /\ registry \in Conns \cup {NoConn}
      BY <1>1 DEF TypeOK, ServerTypeOK, ResumeTypeOK
    <3>2. \/ /\ rsOf' = [rsOf EXCEPT ![c] = registry]
             /\ inner' = [inner EXCEPT ![registry] = c]
          \/ rsOf' = [rsOf EXCEPT ![c] = c] /\ inner' = [inner EXCEPT ![c] = c]
      BY DEF Accept, Rebind, Register
    <3> HIDE DEF Conns
    <3> QED
      BY <3>1, <3>2
  <2>2. /\ registry' \in Conns \cup {NoConn} /\ timers' \subseteq Conns
        /\ ttlTimer' \in Conns \cup {NoConn}
    BY <1>1 DEF Accept, Rebind, Register, TypeOK, ResumeTypeOK
  <2>3. /\ connSeq' \in [Conns -> Nat] /\ nextSeq' \in [Conns -> Nat]
        /\ buffer' \in [Conns -> Seq(Buffered)]
        /\ \A s \in Conns : Len(buffer'[s]) <= BufferSize
        /\ toClient' \in [Conns -> Seq(ServerEnvelope)]
        /\ emitted' \in Nat /\ BufferIsSuffix' /\ UNCHANGED answering
    <3>1. CASE Greets
      BY <3>1, GreetInv DEF Accept
    <3>2. CASE ~Greets
      <4>1. UNCHANGED <<emitted, nextSeq, buffer, connSeq, toClient, answering>>
        BY <3>2 DEF Accept
      <4> QED
        BY <1>1, <4>1, Frame
        DEF TypeOK, NetTypeOK, ServerTypeOK, ResumeTypeOK, HistoryTypeOK
    <3> QED
      BY <3>1, <3>2
  <2> HIDE DEF Conns, NoConn
  <2>4. ServerTypeOK'
    BY <1>1, <1>2, <2>1, <2>3 DEF TypeOK, ServerTypeOK
  <2> QED
    BY <1>1, <2>1, <2>2, <2>3, <2>4 DEF TypeOK, ResumeTypeOK
<1>6. rsOf \in [Conns -> Conns \cup {NoConn}] /\ inner \in [Conns -> Conns \cup {NoConn}]
      /\ registry \in Conns \cup {NoConn}
  BY <1>1 DEF TypeOK, ServerTypeOK, ResumeTypeOK
<1>7. Accepted'
  BY <1>2, <1>6 DEF IInv, Accepted, Accept, Rebind, Register
<1>8. NewestIsBound'
  <2>1. CASE registry # NoConn
    <3>1. rsOf' = [rsOf EXCEPT ![c] = registry] /\ inner' = [inner EXCEPT ![registry] = c]
      BY <2>1 DEF Accept, Rebind
    <3>2. registry \in Conns /\ registry < c
      BY <1>4, <1>6, <2>1 DEF IInv, Accepted
    <3>3. rsOf'[c] = registry /\ inner'[registry] = c
      BY <1>6, <3>1, <3>2
    <3>4. ASSUME NEW d \in Conns, up[d] # "none", d # c
          PROVE  /\ rsOf'[d] = rsOf[d] /\ rsOf[d] \in 1 .. d
                 /\ inner'[rsOf[d]] \in d .. MaxConn
                 /\ up'[inner'[rsOf[d]]] # "none" /\ rsOf'[inner'[rsOf[d]]] = rsOf[d]
      <4>1. /\ rsOf[d] \in 1 .. d /\ inner[rsOf[d]] \in d .. MaxConn
            /\ up[inner[rsOf[d]]] # "none" /\ rsOf[inner[rsOf[d]]] = rsOf[d]
        BY <3>4 DEF IInv, NewestIsBound
      <4>2. rsOf'[d] = rsOf[d] /\ d < c
        BY <1>4, <1>6, <3>1, <3>4
      <4>3. CASE rsOf[d] = registry
        BY <1>2, <3>3, <4>1, <4>2, <4>3
      <4>4. CASE rsOf[d] # registry
        <5>1. inner'[rsOf[d]] = inner[rsOf[d]]
          BY <1>6, <3>1, <4>1, <4>4
        <5>2. inner[rsOf[d]] # c /\ inner[rsOf[d]] \in Conns
          BY <1>2, <4>1
        <5> QED
          BY <1>2, <1>6, <3>1, <4>1, <4>2, <5>1, <5>2
      <4> QED
        BY <4>3, <4>4
    <3> QED
      BY <1>2, <3>2, <3>3, <3>4 DEF NewestIsBound
  <2>2. CASE registry = NoConn
    <3>1. rsOf' = [rsOf EXCEPT ![c] = c] /\ inner' = [inner EXCEPT ![c] = c]
      BY <2>2 DEF Accept, Register
    <3>2. ASSUME NEW d \in Conns, up[d] # "none", d # c
          PROVE  /\ rsOf'[d] = rsOf[d] /\ rsOf[d] \in 1 .. d
                 /\ inner'[rsOf[d]] \in d .. MaxConn
                 /\ up'[inner'[rsOf[d]]] # "none" /\ rsOf'[inner'[rsOf[d]]] = rsOf[d]
      <4>1. /\ rsOf[d] \in 1 .. d /\ inner[rsOf[d]] \in d .. MaxConn
            /\ up[inner[rsOf[d]]] # "none" /\ rsOf[inner[rsOf[d]]] = rsOf[d]
        BY <3>2 DEF IInv, NewestIsBound
      <4>2. rsOf'[d] = rsOf[d] /\ d < c
        BY <1>4, <1>6, <3>1, <3>2
      <4>3. inner[rsOf[d]] # c /\ inner[rsOf[d]] \in Conns /\ rsOf[d] # c
        BY <1>2, <4>1, <4>2
      <4> QED
        BY <1>2, <1>6, <3>1, <4>1, <4>2, <4>3
    <3> QED
      BY <1>2, <1>6, <3>1, <3>2 DEF NewestIsBound
  <2> QED
    BY <2>1, <2>2
<1>9. NetTypeOK' /\ HistoryTypeOK'
  BY <1>1, <1>5 DEF Accept, TypeOK, NetTypeOK, HistoryTypeOK
<1> QED
  BY <1>5, <1>7, <1>8, <1>9, Frame DEF IInv, TypeOK, Accept

\* An emit on a ResumableSocket that some connection was given keeps the
\* types, and the ring buffer a suffix of what was emitted.
LEMMA RsEmitInv ==
  ASSUME IInv, NEW r \in Conns, NEW ev \in Event, RsEmit(r, ev),
         UNCHANGED <<up, rsOf, answering, inner, registry, timers, ttlTimer>>
  PROVE  /\ toClient' \in [Conns -> Seq(ServerEnvelope)]
         /\ ServerTypeOK' /\ ResumeTypeOK' /\ BufferIsSuffix'
<1> USE ConstantsAssumption DEF ConstantsAssumption
<1>1. TypeOK
  BY DEF IInv
<1>2. /\ connSeq' \in [Conns -> Nat]
      /\ toClient' \in [Conns -> Seq(ServerEnvelope)]
      /\ nextSeq' \in [Conns -> Nat]
      /\ buffer' \in [Conns -> Seq(Buffered)]
      /\ \A s \in Conns : Len(buffer'[s]) <= BufferSize
  BY <1>1, RsEmitType
<1>3. ServerTypeOK' /\ ResumeTypeOK'
  BY <1>1, <1>2 DEF TypeOK, ServerTypeOK, ResumeTypeOK
<1>4. \A s \in Conns : Suffix(buffer[s], nextSeq[s])
  BY <1>1, LenProperties DEF IInv, BufferIsSuffix, Suffix, TypeOK, ResumeTypeOK
<1>5. Suffix(Push(r, ev), nextSeq[r] + 1)
  BY <1>1, <1>4, PushSuffix
<1>6. \A s \in Conns : Suffix(buffer'[s], nextSeq'[s])
  <2>1. /\ buffer'[r] = Push(r, ev) /\ nextSeq'[r] = nextSeq[r] + 1
        /\ \A s \in Conns : s # r => buffer'[s] = buffer[s] /\ nextSeq'[s] = nextSeq[s]
    BY <1>1 DEF RsEmit, TypeOK, ResumeTypeOK
  <2> QED
    BY <1>4, <1>5, <2>1
<1>7. BufferIsSuffix'
  BY <1>2, <1>6, LenProperties DEF BufferIsSuffix, Suffix
<1> QED
  BY <1>2, <1>3, <1>7

\* Replayed(r, k) is what the buffer holds after k: nothing when k is the last
\* number or higher, and otherwise, unless there is a gap, one event for each
\* number after k.
LEMMA ReplayedLength ==
  ASSUME IInv, NEW r \in Conns, NEW k \in Nat, ~Gap(r, k)
  PROVE  /\ Replayed(r, k) \in Seq(Event)
         /\ Len(Replayed(r, k)) = IF k < nextSeq[r] THEN nextSeq[r] - k ELSE 0
<1> USE ConstantsAssumption DEF ConstantsAssumption
<1> DEFINE b == buffer[r]
           n == nextSeq[r]
           after == {i \in DOMAIN b : b[i].seq > k}
           start == CHOOSE i \in after : \A j \in after : i <= j
           e(i) == b[start + i - 1].ev
<1>1. /\ b \in Seq(Buffered) /\ Len(b) \in Nat /\ DOMAIN b = 1 .. Len(b)
      /\ n \in Nat /\ \A i \in 1 .. Len(b) : b[i] \in Buffered
  BY LenProperties, ElementOfSeq DEF IInv, TypeOK, ResumeTypeOK
<1>2. /\ Len(b) = IF n < BufferSize THEN n ELSE BufferSize
      /\ \A i \in 1 .. Len(b) : b[i].seq = n - Len(b) + i
  BY <1>1 DEF IInv, BufferIsSuffix
<1>3. Replayed(r, k) = IF after = {} THEN << >>
                       ELSE [i \in 1 .. Len(b) + 1 - start |-> e(i)]
  BY DEF Replayed
<1>4. Gap(r, k) <=> b # << >> /\ k < b[1].seq - 1
  BY DEF Gap
<1> HIDE DEF b, n
<1>5. CASE ~(k < n)
  <2>1. after = {}
    BY <1>1, <1>2, <1>5
  <2> QED
    BY <1>3, <1>5, <2>1, EmptySeq DEF n
<1>6. CASE k < n
  <2>1. Len(b) > 0 /\ b # << >>
    BY <1>1, <1>2, <1>6, EmptySeq
  <2>2. b[1].seq = n - Len(b) + 1
    BY <1>1, <1>2, <2>1
  <2>3. k >= n - Len(b)
    BY <1>1, <1>4, <2>1, <2>2
  <2> DEFINE m == k - (n - Len(b)) + 1
  <2>4. m \in 1 .. Len(b) /\ Len(b) + 1 - m = n - k
    BY <1>1, <1>6, <2>3
  <2>5. after = m .. Len(b)
    <3> SUFFICES ASSUME NEW i \in 1 .. Len(b)
                 PROVE  b[i].seq > k <=> i >= m
      BY <1>1, <2>4
    <3> QED
      BY <1>1, <1>2
  <2> HIDE DEF m
  <2>6. start = m
    BY <1>1, <2>4, <2>5
  <2> HIDE DEF start, after
  <2>7. Len(b) + 1 - start = n - k /\ n - k \in Nat /\ after # {}
    BY <1>1, <1>6, <2>4, <2>5, <2>6
  <2>8. \A i \in 1 .. n - k : e(i) \in Event
    <3> SUFFICES ASSUME NEW i \in 1 .. n - k
                 PROVE  b[start + i - 1].ev \in Event
      OBVIOUS
    <3>1. start + i - 1 \in 1 .. Len(b)
      BY <1>1, <1>6, <2>4, <2>6
    <3>2. b[start + i - 1] \in Buffered
      BY <1>1, <3>1
    <3> QED
      BY <3>2 DEF Buffered
  <2> HIDE DEF e
  <2> DEFINE f == [i \in 1 .. n - k |-> e(i)]
  <2>9. f \in [1 .. n - k -> Event]
    BY <2>8
  <2>10. f \in Seq(Event)
    BY <2>7, <2>9, SeqDef
  <2>11. Len(f) = n - k
    <3>1. Len(f) \in Nat /\ DOMAIN f = 1 .. Len(f) /\ DOMAIN f = 1 .. n - k
      BY <2>9, <2>10, LenProperties
    <3> HIDE DEF f
    <3> QED
      BY <2>7, <3>1
  <2>12. Replayed(r, k) = f
    BY <1>3, <2>7
  <2> QED
    BY <1>6, <2>10, <2>11, <2>12 DEF n
<1> QED
  BY <1>5, <1>6

\* An emit of the application disturbs buffers and numbers only.
LEMMA EmitInv == ASSUME IInv, NEW r \in Conns, Emit(r) PROVE IInv'
<1> USE ConstantsAssumption DEF ConstantsAssumption
<1>1. emitted + 1 \in Event /\ RsEmit(r, emitted + 1) /\ emitted' \in Nat
  BY DEF Emit, Event, IInv, TypeOK, HistoryTypeOK
<1>2. toClient' \in [Conns -> Seq(ServerEnvelope)]
      /\ ServerTypeOK' /\ ResumeTypeOK' /\ BufferIsSuffix'
  BY <1>1, RsEmitInv DEF Emit
<1>3. NetTypeOK'
  BY <1>2 DEF Emit, IInv, TypeOK, NetTypeOK
<1>4. HistoryTypeOK'
  BY <1>1 DEF Emit, IInv, TypeOK, HistoryTypeOK
<1>5. NewestIsBound' /\ Accepted'
  BY BindingFrame DEF Emit, clientVars
<1> QED
  BY <1>2, <1>3, <1>4, <1>5, Frame DEF IInv, TypeOK, Emit

\* What Receives takes off a queue.
LEMMA ReceivesType ==
  ASSUME TypeOK, NEW c \in Conns, NEW kind, Receives(c, kind)
  PROVE  /\ toServer' \in [Conns -> Seq(ClientEnvelope)]
         /\ Head(toServer[c]) \in ClientEnvelope /\ Head(toServer[c]).kind = kind
<1>1. toServer[c] \in Seq(ClientEnvelope) /\ toServer[c] # << >>
  BY DEF Receives, TypeOK, NetTypeOK
<1>2. Head(toServer[c]) \in ClientEnvelope /\ Tail(toServer[c]) \in Seq(ClientEnvelope)
  BY <1>1, HeadTailProperties
<1> QED
  BY <1>2 DEF Receives, TypeOK, NetTypeOK

\* A resume replays from the buffer without changing it, or emits one refresh.
LEMMA HandleResumeInv == ASSUME IInv, NEW c \in Conns, HandleResume(c) PROVE IInv'
<1> USE ConstantsAssumption DEF ConstantsAssumption
<1> DEFINE r == rsOf[c]
           k == Head(toServer[c]).lastSeq
<1>1. TypeOK
  BY DEF IInv
<1>2. toServer' \in [Conns -> Seq(ClientEnvelope)] /\ k \in Nat
  BY <1>1, ReceivesType DEF HandleResume, ClientEnvelope, Queued
<1>3. r \in Conns
  BY DEF HandleResume, Receives, IInv, NewestIsBound, Conns
<1>4. /\ toClient' \in [Conns -> Seq(ServerEnvelope)]
      /\ ServerTypeOK' /\ ResumeTypeOK' /\ BufferIsSuffix'
  <2>1. CASE Gap(r, k)
    <3>1. RsEmit(r, Refresh) /\ Refresh \in Event
      BY <2>1 DEF HandleResume, Refresh, Event
    <3> HIDE DEF r, k
    <3> QED
      BY <1>3, <3>1, RsEmitInv DEF HandleResume
  <2>2. CASE ~Gap(r, k)
    <3>1. InnerEmit(inner[r], Replayed(r, k)) /\ UNCHANGED <<buffer, nextSeq>>
      BY <2>2 DEF HandleResume
    <3> HIDE DEF r, k
    <3>2. Replayed(r, k) \in Seq(Event)
      BY <1>2, <1>3, <2>2, ReplayedLength
    <3>3. connSeq' \in [Conns -> Nat] /\ toClient' \in [Conns -> Seq(ServerEnvelope)]
      BY <1>1, <3>1, <3>2, InnerEmitType
    <3>4. UNCHANGED <<up, rsOf, answering, inner, registry, timers, ttlTimer>>
      BY DEF HandleResume
    <3> QED
      BY <1>1, <3>1, <3>3, <3>4, Frame DEF TypeOK, ServerTypeOK, ResumeTypeOK
  <2> QED
    BY <2>1, <2>2
<1>5. NetTypeOK'
  BY <1>2, <1>4 DEF NetTypeOK
<1>6. NewestIsBound' /\ Accepted'
  BY BindingFrame DEF HandleResume, clientVars
<1> QED
  BY <1>4, <1>5, <1>6, Frame DEF IInv, TypeOK, HandleResume

\* The envelope a handler reads has a number the application gave out.
LEMMA HandledType ==
  ASSUME TypeOK, NEW c \in Conns, NEW kind \in {"event", "request"}, Receives(c, kind)
  PROVE  /\ Head(toServer[c]).id \in 1 .. MaxSend
         /\ Append(handled, Head(toServer[c]).id) \in Seq(1 .. MaxSend)
<1>1. Head(toServer[c]).id \in 1 .. MaxSend
  BY ReceivesType DEF ClientEnvelope, Queued
<1> QED
  BY <1>1, AppendProperties DEF TypeOK, HistoryTypeOK

\* Handling an event moves it from the connection to the history.
LEMMA HandleEventInv == ASSUME IInv, NEW c \in Conns, HandleEvent(c) PROVE IInv'
<1>1. Receives(c, "event") /\ TypeOK
  BY DEF HandleEvent, IInv
<1>2. NetTypeOK'
  BY <1>1, ReceivesType DEF HandleEvent, TypeOK, NetTypeOK
<1>3. HistoryTypeOK'
  BY <1>1, HandledType DEF HandleEvent, TypeOK, HistoryTypeOK
<1>4. NewestIsBound' /\ Accepted'
  BY BindingFrame DEF HandleEvent, clientVars, serverVars, resumeVars
<1> QED
  BY <1>2, <1>3, <1>4, Frame DEF IInv, TypeOK, HandleEvent, resumeVars

\* Handling a request records it, and perhaps who will answer it.
LEMMA HandleRequestInv == ASSUME IInv, NEW c \in Conns, HandleRequest(c) PROVE IInv'
<1>1. Receives(c, "request") /\ TypeOK
  BY DEF HandleRequest, IInv
<1>2. NetTypeOK'
  BY <1>1, ReceivesType DEF HandleRequest, TypeOK, NetTypeOK
<1>3. HistoryTypeOK'
  BY <1>1, HandledType DEF HandleRequest, TypeOK, HistoryTypeOK
<1>4. answering' \subseteq Conns \X (1 .. MaxSend)
  BY <1>1, HandledType DEF HandleRequest, TypeOK, ServerTypeOK
<1>5. ServerTypeOK'
  BY <1>1, <1>4 DEF HandleRequest, TypeOK, ServerTypeOK
<1>6. NewestIsBound' /\ Accepted'
  BY BindingFrame DEF HandleRequest, clientVars, resumeVars
<1> QED
  BY <1>2, <1>3, <1>5, <1>6, Frame DEF IInv, TypeOK, HandleRequest, resumeVars

\* An answer leaves on the connection the request came from.
LEMMA RespondInv ==
  ASSUME IInv, NEW c \in Conns, NEW id \in 1 .. MaxSend, Respond(c, id)
  PROVE  IInv'
<1>1. TypeOK
  BY DEF IInv
<1>2. [kind |-> "response", id |-> id] \in ServerEnvelope
  BY DEF ServerEnvelope
<1>3. Append(toClient[c], [kind |-> "response", id |-> id]) \in Seq(ServerEnvelope)
  BY <1>1, <1>2, AppendProperties DEF TypeOK, NetTypeOK
<1>4. NetTypeOK'
  BY <1>1, <1>3 DEF Respond, TypeOK, NetTypeOK
<1>5. ServerTypeOK'
  BY <1>1 DEF Respond, TypeOK, ServerTypeOK
<1>6. NewestIsBound' /\ Accepted'
  BY BindingFrame DEF Respond, clientVars, resumeVars
<1> QED
  BY <1>4, <1>5, <1>6, Frame DEF IInv, TypeOK, Respond, resumeVars

\* A close on the server arms a timer and leaves the bindings alone.
LEMMA ServerCloseInv == ASSUME IInv, NEW c \in Conns, ServerClose(c) PROVE IInv'
<1>1. TypeOK
  BY DEF IInv
<1>2. NetTypeOK'
  <2>1. toServer' \in [Conns -> Seq(ClientEnvelope)]
    BY <1>1, EmptySeq DEF ServerClose, TypeOK, NetTypeOK
  <2> QED
    BY <1>1, <2>1 DEF ServerClose, TypeOK, NetTypeOK
<1>3. HistoryTypeOK'
  <2>1. Ids(toServer[c]) \subseteq 1 .. MaxSend
    BY <1>1, IdsType DEF TypeOK, NetTypeOK
  <2> QED
    BY <1>1, <2>1 DEF ServerClose, TypeOK, HistoryTypeOK
<1>4. ServerTypeOK' /\ ResumeTypeOK'
  BY <1>1 DEF ServerClose, TypeOK, ServerTypeOK, ResumeTypeOK
<1>5. NewestIsBound' /\ Accepted'
  BY <1>1, BindingFrame DEF ServerClose, clientVars, TypeOK, ServerTypeOK
<1> QED
  BY <1>2, <1>3, <1>4, <1>5, Frame DEF IInv, TypeOK, ServerClose

\* An expiry forgets the registration and leaves the bindings alone.
LEMMA ExpireInv == ASSUME IInv, NEW c \in Conns, Expire(c) PROVE IInv'
<1>1. TypeOK
  BY DEF IInv
<1>2. ResumeTypeOK'
  BY <1>1 DEF Expire, TypeOK, ResumeTypeOK
<1>3. NewestIsBound'
  BY DEF Expire, serverVars, IInv, NewestIsBound
<1>4. Accepted'
  BY DEF Expire, serverVars, clientVars, IInv, Accepted
<1> QED
  BY <1>2, <1>3, <1>4, Frame DEF IInv, TypeOK, Expire

-----------------------------------------------------------------------------
(* The theorems *)

\* The initial state satisfies the invariant: no socket, no binding, empty buffers.
LEMMA InitInv == Init => IInv
<1> SUFFICES ASSUME Init PROVE IInv
  OBVIOUS
<1>1. TypeOK
  BY InitType
<1>2. OneSocketOrTimer /\ SocketOrder /\ Accepted
  BY DEF Init, OneSocketOrTimer, SocketOrder, Accepted
<1>3. NewestIsBound
  BY DEF Init, NewestIsBound
<1>4. BufferIsSuffix
  <2>1. Len(<< >>) = 0 /\ DOMAIN << >> = {}
    BY EmptySeq
  <2> QED
    BY <2>1, ConstantsAssumption DEF ConstantsAssumption, Init, BufferIsSuffix
<1> QED
  BY <1>1, <1>2, <1>3, <1>4 DEF IInv

\* Every action keeps the invariant: one lemma per action.
LEMMA NextInv == IInv /\ [Next]_vars => IInv'
<1> SUFFICES ASSUME IInv, [Next]_vars PROVE IInv'
  OBVIOUS
<1>1. ASSUME Client PROVE IInv'
  BY <1>1, ConnectInv, ReconnectInv, DisconnectInv, SendInv, HandleOpenInv,
     ReceiveEventInv, ReceiveResponseInv, HandleCloseInv DEF Client
<1>2. ASSUME Server PROVE IInv'
  BY <1>2, AcceptInv, EmitInv, ServerCloseInv, ExpireInv, HandleResumeInv,
     HandleEventInv, HandleRequestInv, RespondInv DEF Server
<1>3. CASE UNCHANGED vars
  <2>1. UNCHANGED clientVars /\ UNCHANGED netVars /\ UNCHANGED serverVars
        /\ UNCHANGED resumeVars /\ UNCHANGED historyVars
    BY <1>3 DEF vars
  <2>2. NewestIsBound' /\ Accepted'
    BY <2>1, BindingFrame DEF clientVars, serverVars, resumeVars
  <2> QED
    BY <2>1, <2>2, Frame DEF IInv, TypeOK, resumeVars
<1> QED
  BY <1>1, <1>2, <1>3 DEF Next

\* IInv is an inductive invariant of the transport: it holds initially and every
\* handler of the client and of the server preserves it.
THEOREM Invariance == Spec => []IInv
<1>1. Init => IInv
  BY InitInv
<1>2. IInv /\ [Next]_vars => IInv'
  BY NextInv
<1> QED
  BY <1>1, <1>2, PTL DEF Spec

\* The outbox never outgrows outboxLimit and no ring buffer outgrows bufferSize,
\* whatever is sent, lost, replayed or expired; every counter and queue is typed.
THEOREM TypeCorrect == Spec => []TypeOK
BY Invariance, PTL DEF IInv

\* The ring buffer of every ResumableSocket is, in every reachable state, the
\* tail of what that socket emitted, consecutively numbered.
THEOREM BufferSuffix == Spec => []BufferIsSuffix
BY Invariance, PTL DEF IInv

\* WsClient has at most one live socket, which is the field ws, and a reconnect
\* is scheduled exactly when it needs one.
THEOREM SocketOrTimer == Spec => []OneSocketOrTimer
BY Invariance, PTL DEF IInv

\* Each ResumableSocket is bound to the newest connection it was given to,
\* whatever closes late or expires.
THEOREM EmitsReachNewest == Spec => []NewestIsBound
BY Invariance, PTL DEF IInv

-----------------------------------------------------------------------------
(* resume(): a gap is announced exactly when there is one *)

\* There is a gap exactly when more is missing than the buffer retains.
LEMMA GapMeansTooOld ==
  ASSUME IInv, NEW r \in Conns, NEW k \in Nat
  PROVE  Gap(r, k) <=> k < nextSeq[r] /\ nextSeq[r] - k > BufferSize
<1> USE ConstantsAssumption DEF ConstantsAssumption
<1> DEFINE b == buffer[r]
           n == nextSeq[r]
<1>1. /\ b \in Seq(Buffered) /\ Len(b) \in Nat /\ n \in Nat
      /\ Len(b) = IF n < BufferSize THEN n ELSE BufferSize
      /\ \A i \in 1 .. Len(b) : b[i].seq = n - Len(b) + i
  BY LenProperties DEF IInv, BufferIsSuffix, TypeOK, ResumeTypeOK
<1>2. Gap(r, k) <=> b # << >> /\ k < b[1].seq - 1
  BY DEF Gap
<1> HIDE DEF b
<1>3. CASE b = << >>
  BY <1>1, <1>2, <1>3, EmptySeq
<1>4. CASE b # << >>
  <2>1. 1 \in 1 .. Len(b)
    BY <1>1, <1>4, EmptySeq
  <2>2. b[1].seq = n - Len(b) + 1
    BY <1>1, <2>1
  <2> QED
    BY <1>1, <1>2, <1>4, <2>2
<1> QED
  BY <1>3, <1>4

\* The step of GapOrComplete.
ResumeServed(c) ==
  LET r      == rsOf[c]
      k      == Head(toServer[c]).lastSeq
      missed == IF k < nextSeq[r] THEN nextSeq[r] - k ELSE 0
  IN  IF missed > BufferSize
      THEN nextSeq'[r] = nextSeq[r] + 1 /\ buffer'[r][BufferSize].ev = Refresh
      ELSE /\ nextSeq' = nextSeq
           /\ up[inner[r]] = "open" =>
                connSeq'[inner[r]] = connSeq[inner[r]] + missed

\* What HandleResume does with the buffer is what GapOrComplete asks for: the events
\* after k are exactly those the suffix still holds, or there is a gap.
LEMMA HandleResumeServes ==
  ASSUME IInv, NEW c \in Conns, HandleResume(c)
  PROVE  ResumeServed(c)
<1> USE ConstantsAssumption DEF ConstantsAssumption
<1> DEFINE r == rsOf[c]
           k == Head(toServer[c]).lastSeq
           missed == IF k < nextSeq[r] THEN nextSeq[r] - k ELSE 0
<1>1. TypeOK
  BY DEF IInv
<1>2. k \in Nat
  BY <1>1, ReceivesType DEF HandleResume, ClientEnvelope, Queued
<1>3. r \in Conns /\ inner[r] \in Conns
  BY DEF HandleResume, Receives, IInv, NewestIsBound, Conns
<1>4. nextSeq[r] \in Nat
  BY <1>1, <1>3 DEF TypeOK, ResumeTypeOK
<1>5. IF Gap(r, k) THEN RsEmit(r, Refresh)
      ELSE InnerEmit(inner[r], Replayed(r, k)) /\ UNCHANGED <<buffer, nextSeq>>
  BY DEF HandleResume
<1>6. ResumeServed(c) <=>
        IF missed > BufferSize
        THEN nextSeq'[r] = nextSeq[r] + 1 /\ buffer'[r][BufferSize].ev = Refresh
        ELSE /\ nextSeq' = nextSeq
             /\ up[inner[r]] = "open" => connSeq'[inner[r]] = connSeq[inner[r]] + missed
  BY DEF ResumeServed
<1> HIDE DEF r, k
<1>7. Gap(r, k) <=> missed > BufferSize
  BY <1>2, <1>3, <1>4, GapMeansTooOld
<1>8. CASE Gap(r, k)
  <2>1. RsEmit(r, Refresh) /\ Refresh \in Event
    BY <1>5, <1>8 DEF Refresh, Event
  <2>2. nextSeq'[r] = nextSeq[r] + 1 /\ buffer'[r] = Push(r, Refresh)
    BY <1>1, <1>3, <2>1 DEF RsEmit, TypeOK, ResumeTypeOK
  <2>3. Suffix(buffer[r], nextSeq[r])
    BY <1>1, <1>3, LenProperties DEF IInv, BufferIsSuffix, Suffix, TypeOK, ResumeTypeOK
  <2>4. /\ Suffix(Push(r, Refresh), nextSeq[r] + 1)
        /\ Push(r, Refresh)[Len(Push(r, Refresh))].ev = Refresh
    BY <1>1, <1>3, <2>1, <2>3, PushSuffix
  <2>5. Len(Push(r, Refresh)) = BufferSize
    BY <1>2, <1>4, <1>7, <1>8, <2>4 DEF Suffix
  <2> QED
    BY <1>6, <1>7, <1>8, <2>2, <2>4, <2>5
<1>9. CASE ~Gap(r, k)
  <2>1. InnerEmit(inner[r], Replayed(r, k)) /\ nextSeq' = nextSeq
    BY <1>5, <1>9
  <2>2. Len(Replayed(r, k)) = missed
    BY <1>2, <1>3, <1>9, ReplayedLength
  <2>3. up[inner[r]] = "open" => connSeq'[inner[r]] = connSeq[inner[r]] + missed
    BY <1>1, <1>3, <2>1, <2>2 DEF InnerEmit, TypeOK, ServerTypeOK
  <2> QED
    BY <1>6, <1>7, <1>9, <2>1, <2>3
<1> QED
  BY <1>8, <1>9

\* In the numbering of the ResumableSocket a resume is either answered by every
\* event it missed, or refused with state:refresh_required because more is
\* missing than the buffer retains; there is no third case and no false alarm.
THEOREM ResumeMissesNothing == Spec => GapOrComplete
<1>1. IInv /\ [Next]_vars => [\A c \in Conns : HandleResume(c) => ResumeServed(c)]_vars
  BY HandleResumeServes
<1>2. [][\A c \in Conns : HandleResume(c) => ResumeServed(c)]_vars => GapOrComplete
  BY PTL DEF GapOrComplete, ResumeServed
<1> QED
  BY <1>1, <1>2, Invariance, PTL DEF Spec

-----------------------------------------------------------------------------
(***************************************************************************)
(* What passes through the transport: what becomes of what the client      *)
(* sends, of the registration of its session, and what its listeners see   *)
(* of what the application emits.                                          *)
(***************************************************************************)

-----------------------------------------------------------------------------
(* Queues of envelopes *)

\* The envelopes of the application are in the order of their numbers.
InOrder(s) ==
  \A i, j \in DOMAIN s :
    i < j /\ s[i].kind # "resume" /\ s[j].kind # "resume" => s[i].id < s[j].id

\* Only the first envelope may be resume.
ResumeFirst(s) == \A i \in DOMAIN s : s[i].kind = "resume" => i = 1
NoResume(s) == \A i \in DOMAIN s : s[i].kind # "resume"

LEMMA IdsOf ==
  ASSUME NEW s, NEW x
  PROVE  x \in Ids(s) <=> \E i \in DOMAIN s : s[i].kind # "resume" /\ s[i].id = x
BY DEF Ids

LEMMA EmptyQueue ==
  /\ Ids(<< >>) = {} /\ InOrder(<< >>) /\ ResumeFirst(<< >>) /\ NoResume(<< >>)
  /\ << >> \in Seq(ClientEnvelope) /\ << >> \in Seq(Queued) /\ Elements(<< >>) = {}
<1>1. DOMAIN << >> = {} /\ << >> \in Seq(ClientEnvelope) /\ << >> \in Seq(Queued)
  BY EmptySeq
<1> QED
  BY <1>1 DEF Ids, InOrder, ResumeFirst, NoResume, Elements

LEMMA OneEnvelope ==
  ASSUME NEW q \in ClientEnvelope
  PROVE  /\ <<q>> \in Seq(ClientEnvelope) /\ <<q>> # << >>
         /\ InOrder(<<q>>) /\ ResumeFirst(<<q>>)
         /\ q.kind = "resume" => Ids(<<q>>) = {}
         /\ q.kind # "resume" => Ids(<<q>>) = {q.id} /\ NoResume(<<q>>)
<1>1. DOMAIN <<q>> = {1} /\ <<q>>[1] = q /\ <<q>> \in Seq(ClientEnvelope) /\ <<q>> # << >>
  OBVIOUS
<1> QED
  BY <1>1 DEF Ids, InOrder, ResumeFirst, NoResume

LEMMA QueuedAreEnvelopes ==
  ASSUME NEW s \in Seq(Queued)
  PROVE  s \in Seq(ClientEnvelope) /\ NoResume(s) /\ Ids(s) = {s[i].id : i \in DOMAIN s}
<1>1. s \in Seq(ClientEnvelope)
  BY SeqMonotonic DEF ClientEnvelope
<1>2. \A i \in DOMAIN s : s[i].kind # "resume"
  <2>1. \A i \in DOMAIN s : s[i] \in Queued
    BY LenProperties, ElementOfSeq
  <2> QED
    BY <2>1 DEF Queued
<1> QED
  BY <1>1, <1>2 DEF NoResume, Ids

\* One queue behind another.
LEMMA Behind ==
  ASSUME NEW s \in Seq(ClientEnvelope), NEW t \in Seq(ClientEnvelope)
  PROVE  /\ s \o t \in Seq(ClientEnvelope)
         /\ Ids(s \o t) = Ids(s) \cup Ids(t)
         /\ InOrder(s \o t) <=> /\ InOrder(s) /\ InOrder(t)
                                /\ \A x \in Ids(s), y \in Ids(t) : x < y
         /\ ResumeFirst(s) /\ NoResume(t) => ResumeFirst(s \o t)
         /\ ResumeFirst(s \o t) => ResumeFirst(s) /\ (s # << >> => NoResume(t))
<1> DEFINE u == s \o t
<1>1. PICK m \in Nat : m = Len(s)
  BY LenProperties
<1>2. PICK n \in Nat : n = Len(t)
  BY LenProperties
<1>3. /\ DOMAIN s = 1 .. m /\ DOMAIN t = 1 .. n
      /\ u \in Seq(ClientEnvelope) /\ DOMAIN u = 1 .. (m + n)
      /\ \A i \in 1 .. (m + n) : u[i] = IF i <= m THEN s[i] ELSE t[i - m]
      /\ s # << >> => m > 0
  BY <1>1, <1>2, LenProperties, ConcatProperties, EmptySeq
<1> HIDE DEF u
<1>4. ASSUME NEW i \in 1 .. m PROVE i \in 1 .. (m + n) /\ u[i] = s[i]
  BY <1>3
<1>5. ASSUME NEW j \in 1 .. n
      PROVE  \E k \in 1 .. (m + n) : k = m + j /\ u[k] = t[j]
  <2>1. m + j \in 1 .. (m + n) /\ ~(m + j <= m) /\ (m + j) - m = j
    OBVIOUS
  <2> QED
    BY <1>3, <2>1
<1>6. ASSUME NEW k \in 1 .. (m + n)
      PROVE  \/ k \in 1 .. m /\ u[k] = s[k]
             \/ \E j \in 1 .. n : k = m + j /\ u[k] = t[j]
  <2>1. CASE k <= m
    BY <1>3, <2>1
  <2>2. CASE ~(k <= m)
    <3>1. k - m \in 1 .. n /\ k = m + (k - m)
      BY <2>2
    <3> QED
      BY <1>3, <2>2, <3>1
  <2> QED
    BY <2>1, <2>2
<1>7. Ids(u) = Ids(s) \cup Ids(t)
  <2>1. ASSUME NEW x \in Ids(u) PROVE x \in Ids(s) \cup Ids(t)
    <3>1. PICK k \in 1 .. (m + n) : u[k].kind # "resume" /\ u[k].id = x
      BY <1>3, IdsOf
    <3> QED
      BY <1>3, <1>6, <3>1, IdsOf
  <2>2. ASSUME NEW x \in Ids(s) PROVE x \in Ids(u)
    BY <1>3, <1>4, IdsOf
  <2>3. ASSUME NEW x \in Ids(t) PROVE x \in Ids(u)
    <3>1. PICK j \in 1 .. n : t[j].kind # "resume" /\ t[j].id = x
      BY <1>3, IdsOf
    <3>2. PICK k \in 1 .. (m + n) : u[k] = t[j]
      BY <1>5
    <3> QED
      BY <1>3, <3>1, <3>2, IdsOf
  <2> QED
    BY <2>1, <2>2, <2>3
<1>8. ASSUME InOrder(u)
      PROVE  InOrder(s) /\ InOrder(t) /\ \A x \in Ids(s), y \in Ids(t) : x < y
  <2>1. InOrder(s)
    BY <1>3, <1>4, <1>8 DEF InOrder
  <2>2. InOrder(t)
    <3> SUFFICES ASSUME NEW i \in 1 .. n, NEW j \in 1 .. n, i < j,
                        t[i].kind # "resume", t[j].kind # "resume"
                 PROVE  t[i].id < t[j].id
      BY <1>3 DEF InOrder
    <3>1. PICK k \in 1 .. (m + n) : k = m + i /\ u[k] = t[i]
      BY <1>5
    <3>2. PICK h \in 1 .. (m + n) : h = m + j /\ u[h] = t[j]
      BY <1>5
    <3>3. k < h
      BY <3>1, <3>2
    <3> QED
      BY <1>3, <1>8, <3>1, <3>2, <3>3 DEF InOrder
  <2>3. ASSUME NEW x \in Ids(s), NEW y \in Ids(t) PROVE x < y
    <3>1. PICK i \in 1 .. m : s[i].kind # "resume" /\ s[i].id = x
      BY <1>3, IdsOf
    <3>2. PICK j \in 1 .. n : t[j].kind # "resume" /\ t[j].id = y
      BY <1>3, IdsOf
    <3>3. PICK h \in 1 .. (m + n) : h = m + j /\ u[h] = t[j]
      BY <1>5
    <3>4. i < h /\ i \in 1 .. (m + n) /\ u[i] = s[i]
      BY <1>4, <3>3
    <3> QED
      BY <1>3, <1>8, <3>1, <3>2, <3>3, <3>4 DEF InOrder
  <2> QED
    BY <2>1, <2>2, <2>3
<1>9. ASSUME InOrder(s), InOrder(t), \A x \in Ids(s), y \in Ids(t) : x < y
      PROVE  InOrder(u)
  <2> SUFFICES ASSUME NEW i \in 1 .. (m + n), NEW j \in 1 .. (m + n), i < j,
                      u[i].kind # "resume", u[j].kind # "resume"
               PROVE  u[i].id < u[j].id
    BY <1>3 DEF InOrder
  <2>1. CASE j \in 1 .. m
    <3>1. i \in 1 .. m
      BY <2>1
    <3> QED
      BY <1>3, <1>4, <1>9, <2>1, <3>1 DEF InOrder
  <2>2. ASSUME NEW k \in 1 .. n, j = m + k, u[j] = t[k] PROVE u[i].id < u[j].id
    <3>1. CASE i \in 1 .. m
      <4>1. u[i].id \in Ids(s) /\ u[j].id \in Ids(t)
        BY <1>3, <1>4, <2>2, <3>1, IdsOf
      <4> QED
        BY <1>9, <4>1
    <3>2. ASSUME NEW h \in 1 .. n, i = m + h, u[i] = t[h] PROVE u[i].id < u[j].id
      <4>1. h < k
        BY <2>2, <3>2
      <4> QED
        BY <1>3, <1>9, <2>2, <3>2, <4>1 DEF InOrder
    <3> QED
      BY <1>6, <3>1, <3>2
  <2> QED
    BY <1>6, <2>1, <2>2
<1>10. ASSUME ResumeFirst(s), NoResume(t) PROVE ResumeFirst(u)
  <2> SUFFICES ASSUME NEW k \in 1 .. (m + n), u[k].kind = "resume" PROVE k = 1
    BY <1>3 DEF ResumeFirst
  <2>1. ~ \E j \in 1 .. n : k = m + j /\ u[k] = t[j]
    BY <1>3, <1>10 DEF NoResume
  <2> QED
    BY <1>3, <1>6, <1>10, <2>1 DEF ResumeFirst
<1>11. ASSUME ResumeFirst(u) PROVE ResumeFirst(s) /\ (s # << >> => NoResume(t))
  <2>1. ResumeFirst(s)
    BY <1>3, <1>4, <1>11 DEF ResumeFirst
  <2>2. ASSUME s # << >>, NEW j \in 1 .. n, t[j].kind = "resume" PROVE FALSE
    <3>1. PICK k \in 1 .. (m + n) : k = m + j /\ u[k] = t[j]
      BY <1>5
    <3>2. k # 1
      BY <1>3, <2>2, <3>1
    <3> QED
      BY <1>3, <1>11, <2>2, <3>1, <3>2 DEF ResumeFirst
  <2> QED
    BY <1>3, <2>1, <2>2 DEF NoResume
<1> QED
  BY <1>3, <1>7, <1>8, <1>9, <1>10, <1>11 DEF u

\* What is read off a queue, and what is left.
LEMMA FirstOff ==
  ASSUME NEW s \in Seq(ClientEnvelope), s # << >>
  PROVE  /\ Head(s) \in ClientEnvelope /\ Tail(s) \in Seq(ClientEnvelope)
         /\ Ids(s) = Ids(<<Head(s)>>) \cup Ids(Tail(s))
         /\ InOrder(s) => /\ InOrder(Tail(s))
                          /\ \A x \in Ids(<<Head(s)>>), y \in Ids(Tail(s)) : x < y
         /\ ResumeFirst(s) => NoResume(Tail(s))
<1>1. /\ Head(s) \in ClientEnvelope /\ Tail(s) \in Seq(ClientEnvelope)
      /\ <<Head(s)>> \in Seq(ClientEnvelope) /\ <<Head(s)>> # << >>
  BY HeadTailProperties, OneEnvelope
<1>2. s = <<Head(s)>> \o Tail(s)
  <2>1. Len(s) \in Nat \ {0}
    BY EmptySeq
  <2>2. SubSeq(s, 1, 1) \o SubSeq(s, 2, Len(s)) = SubSeq(s, 1, Len(s))
    <3>1. /\ 1 \in 1 .. Len(s) + 1 /\ 1 \in 1 - 1 .. Len(s)
          /\ Len(s) \in 1 .. Len(s) /\ 1 + 1 = 2
      BY <2>1
    <3> QED
      BY <3>1, ConcatAdjacentSubSeq
  <2>3. SubSeq(s, 1, Len(s)) = s /\ Tail(s) = SubSeq(s, 2, Len(s))
    BY SubSeqFull, TailIsSubSeq
  <2>4. SubSeq(s, 1, 1) = <<Head(s)>>
    <3>1. \A i \in 1 .. 1 : s[i] \in ClientEnvelope
      BY <2>1, ElementOfSeq
    <3>2. /\ SubSeq(s, 1, 1) \in Seq(ClientEnvelope) /\ Len(SubSeq(s, 1, 1)) = 1
          /\ \A i \in 1 .. 1 : SubSeq(s, 1, 1)[i] = s[1 + i - 1]
      BY <3>1, SubSeqProperties
    <3>3. SubSeq(s, 1, 1)[1] = Head(s)
      BY <2>1, <3>2
    <3>4. <<Head(s)>>[1] = Head(s) /\ Len(<<Head(s)>>) = 1
      OBVIOUS
    <3>5. /\ Len(SubSeq(s, 1, 1)) = Len(<<Head(s)>>)
          /\ \A i \in 1 .. Len(SubSeq(s, 1, 1)) : SubSeq(s, 1, 1)[i] = <<Head(s)>>[i]
      BY <3>2, <3>3, <3>4
    <3> QED
      BY <1>1, <3>2, <3>5, SeqEqual
  <2> QED
    BY <2>2, <2>3, <2>4
<1> DEFINE h == <<Head(s)>>
           t == Tail(s)
<1> HIDE DEF h, t
<1>3. s = h \o t /\ h \in Seq(ClientEnvelope) /\ t \in Seq(ClientEnvelope) /\ h # << >>
  BY <1>1, <1>2 DEF h, t
<1>4. /\ Ids(h \o t) = Ids(h) \cup Ids(t)
      /\ InOrder(h \o t) => InOrder(t) /\ \A x \in Ids(h), y \in Ids(t) : x < y
      /\ ResumeFirst(h \o t) => NoResume(t)
  BY <1>3, Behind
<1> QED
  BY <1>1, <1>3, <1>4 DEF h, t

\* A queue that is cut in two.
LEMMA CutOff ==
  ASSUME NEW s \in Seq(ClientEnvelope), NEW n \in 0 .. Len(s)
  PROVE  LET a == SubSeq(s, 1, n)
             b == SubSeq(s, n + 1, Len(s))
         IN  /\ a \in Seq(ClientEnvelope)
             /\ Ids(s) = Ids(a) \cup Ids(b)
             /\ InOrder(s) => InOrder(a) /\ \A x \in Ids(a), y \in Ids(b) : x < y
             /\ ResumeFirst(s) => ResumeFirst(a)
<1> DEFINE a == SubSeq(s, 1, n)
           b == SubSeq(s, n + 1, Len(s))
<1>1. Len(s) \in Nat /\ \A i \in 1 .. Len(s) : s[i] \in ClientEnvelope
  BY LenProperties, ElementOfSeq
<1>2. a \in Seq(ClientEnvelope)
  BY <1>1, SubSeqProperties
<1>3. b \in Seq(ClientEnvelope)
  BY <1>1, SubSeqProperties
<1>4. a \o b = s
  <2>1. SubSeq(s, 1, n) \o SubSeq(s, n + 1, Len(s)) = SubSeq(s, 1, Len(s))
    <3>1. /\ 1 \in 1 .. Len(s) + 1 /\ n \in 1 - 1 .. Len(s) /\ Len(s) \in n .. Len(s)
      BY <1>1
    <3> QED
      BY <3>1, ConcatAdjacentSubSeq
  <2> QED
    BY <2>1, SubSeqFull
<1> HIDE DEF a, b
<1>5. /\ Ids(s) = Ids(a) \cup Ids(b)
      /\ InOrder(s) => InOrder(a) /\ \A x \in Ids(a), y \in Ids(b) : x < y
      /\ ResumeFirst(s) => ResumeFirst(a)
  BY <1>2, <1>3, <1>4, Behind
<1> QED
  BY <1>2, <1>5 DEF a, b

\* The queue of one connection changes.
LEMMA FlightOf ==
  ASSUME TypeOK, NEW c \in Conns, NEW s, toServer' = [toServer EXCEPT ![c] = s],
         \A a, b \in Conns : a # b => Ids(toServer[a]) \cap Ids(toServer[b]) = {}
  PROVE  /\ InFlight' = (InFlight \ Ids(toServer[c])) \cup Ids(s)
         /\ Ids(toServer[c]) \subseteq InFlight
         /\ Ids(s) \cap (InFlight \ Ids(toServer[c])) = {} =>
              \A a, b \in Conns : a # b => Ids(toServer'[a]) \cap Ids(toServer'[b]) = {}
<1>1. \A a \in Conns : toServer'[a] = IF a = c THEN s ELSE toServer[a]
  BY DEF TypeOK, NetTypeOK
<1>2. \A x : x \in InFlight <=> \E a \in Conns : x \in Ids(toServer[a])
  BY DEF InFlight
<1>3. \A x : x \in InFlight' <=> \E a \in Conns : x \in Ids(toServer'[a])
  BY DEF InFlight, Ids
<1>4. \A x : x \in InFlight' <=> (x \in InFlight /\ x \notin Ids(toServer[c])) \/ x \in Ids(s)
  BY <1>1, <1>2, <1>3
<1>5. Ids(toServer[c]) \subseteq InFlight
  BY <1>2
<1>6. ASSUME Ids(s) \cap (InFlight \ Ids(toServer[c])) = {},
             NEW a \in Conns, NEW b \in Conns, a # b
      PROVE  Ids(toServer'[a]) \cap Ids(toServer'[b]) = {}
  BY <1>1, <1>2, <1>6
<1> QED
  BY <1>4, <1>5, <1>6
-----------------------------------------------------------------------------
(* The inductive invariant *)

\* Every queue is in the order of sending, and no envelope is on two connections.
Queues ==
  /\ InOrder(outbox)
  /\ \A c \in Conns : InOrder(toServer[c]) /\ ResumeFirst(toServer[c])
  /\ \A a, b \in Conns : a # b => Ids(toServer[a]) \cap Ids(toServer[b]) = {}

\* The places an envelope may be in.
Apart(Q, F, H, D, L) ==
  /\ Q \cap (F \cup H \cup D \cup L) = {}
  /\ F \cap (H \cup D \cup L) = {}
  /\ H \cap (D \cup L) = {}
  /\ D \cap L = {}

Places ==
  /\ Ids(outbox) \cup InFlight \cup Elements(handled) \cup dropped \cup lost = 1 .. sent
  /\ Apart(Ids(outbox), InFlight, Elements(handled), dropped, lost)
  /\ Distinct(handled)

\* What waits comes after what has left, and what is under way after what was handled.
Sequel ==
  /\ \A q \in Ids(outbox), x \in InFlight \cup Elements(handled) : x < q
  /\ ~HalfOpen => /\ \A x \in InFlight, h \in Elements(handled) : h < x
                  /\ \A i, j \in DOMAIN handled : i < j => handled[i] < handled[j]

\* A client sends nothing before its socket is open, and all that waits when it opens; a
\* server that has closed receives nothing.
Ends ==
  /\ \A c \in Conns : readyState[c] \in {"none", "connecting"} => toServer[c] = << >>
  /\ \A c \in Conns : toServer[c] # << >> => up[c] = "open"
  /\ \A c \in Conns : readyState[c] = "open" => up[c] # "none"
  /\ isOpen => outbox = << >>

\* The requests that responses on a connection answer.
Responses(s) == {s[i].id : i \in {j \in DOMAIN s : s[j].kind = "response"}}

\* What is answered, or is to be, was handled.
Answers ==
  /\ \A c \in Conns : Responses(toClient[c]) \subseteq Elements(handled)
  /\ \A p \in answering : p[2] \in Elements(handled)

\* A request that was dropped is over, or was none.
Fated ==
  \A i \in 1 .. MaxSend :
    /\ request[i] = "resolved" => i \in Elements(handled)
    /\ i \in dropped => request[i] \in {"none", "rejected"}

\* With closes noticed in time there is one connection, and a TTL timer only without it,
\* the one that the map knows.
Ttl ==
  /\ registry # NoConn => rsOf[registry] = registry
  /\ ~HalfOpen =>
       /\ \A c, d \in Conns : up[c] = "open" /\ up[d] = "open" => c = d
       /\ timers \subseteq {ttlTimer}
       /\ registry = NoConn => timers = {}
       /\ \A c \in Conns : up[c] = "open" => timers = {} /\ registry # NoConn

Flow == Queues /\ Places /\ Sequel
UInv == Flow /\ Ends /\ Answers /\ Fated /\ Ttl

-----------------------------------------------------------------------------
(* What a step leaves alone *)

LEMMA Counted ==
  ASSUME TypeOK, Places
  PROVE  /\ sent \in Nat /\ sent <= MaxSend
         /\ Ids(outbox) \subseteq 1 .. sent /\ InFlight \subseteq 1 .. sent
         /\ Elements(handled) \subseteq 1 .. sent
         /\ dropped \subseteq 1 .. sent /\ lost \subseteq 1 .. sent
BY ConstantsAssumption DEF ConstantsAssumption, TypeOK, HistoryTypeOK, Places

LEMMA FlowFrame ==
  ASSUME Flow, UNCHANGED <<outbox, toServer, handled, dropped, lost, sent>>
  PROVE  Flow'
<1>1. InFlight' = InFlight
  BY DEF InFlight, Ids
<1>3. Queues'
  <2>1. outbox' = outbox /\ toServer' = toServer
    OBVIOUS
  <2>2. InOrder(outbox')
    BY <2>1 DEF Flow, Queues
  <2>3. \A c \in Conns : InOrder(toServer'[c]) /\ ResumeFirst(toServer'[c])
    BY <2>1 DEF Flow, Queues
  <2>4. \A a, b \in Conns : a # b => Ids(toServer'[a]) \cap Ids(toServer'[b]) = {}
    BY <2>1 DEF Flow, Queues
  <2> QED
    BY <2>2, <2>3, <2>4 DEF Queues, InOrder, ResumeFirst, Ids
<1>2. Ids(outbox)' = Ids(outbox) /\ Elements(handled)' = Elements(handled)
  BY DEF Ids, Elements
<1> QED
  BY <1>1, <1>2, <1>3 DEF Flow, Places, Sequel, Distinct

\* Nothing becomes of a request or of an envelope that was dropped, and nothing is
\* answered that was not handled.
LEMMA AnswersFrame ==
  ASSUME Answers, Elements(handled) \subseteq Elements(handled'),
         \A c \in Conns : Responses(toClient'[c]) \subseteq Responses(toClient[c]),
         answering' \subseteq answering
  PROVE  Answers'
BY DEF Answers, Responses, Elements

LEMMA FatedFrame ==
  ASSUME Fated, Elements(handled) \subseteq Elements(handled'), UNCHANGED <<request, dropped>>
  PROVE  Fated'
BY DEF Fated, Elements

LEMMA SameResponses ==
  ASSUME UNCHANGED toClient
  PROVE  \A c \in Conns : Responses(toClient'[c]) \subseteq Responses(toClient[c])
BY DEF Responses

LEMMA TtlFrame ==
  ASSUME Ttl, UNCHANGED <<up, rsOf, registry, timers, ttlTimer>>
  PROVE  Ttl'
BY DEF Ttl

LEMMA EndsFrame ==
  ASSUME Ends, UNCHANGED <<readyState, toServer, up, ws, outbox>>
  PROVE  Ends'
BY DEF Ends, isOpen

\* One more envelope is handled.
LEMMA HandledMore ==
  ASSUME TypeOK, NEW h \in 1 .. MaxSend, handled' = Append(handled, h), h \notin Elements(handled),
         Distinct(handled)
  PROVE  /\ Elements(handled') = Elements(handled) \cup {h}
         /\ Distinct(handled')
         /\ (\A x \in Elements(handled) : x < h)
              /\ (\A i, j \in DOMAIN handled : i < j => handled[i] < handled[j])
              => \A i, j \in DOMAIN handled' : i < j => handled'[i] < handled'[j]
<1>1. PICK n \in Nat : n = Len(handled) /\ handled \in Seq(1 .. MaxSend)
  BY LenProperties DEF TypeOK, HistoryTypeOK
<1>2. /\ DOMAIN handled = 1 .. n /\ DOMAIN handled' = 1 .. (n + 1)
      /\ \A i \in 1 .. n : handled'[i] = handled[i]
      /\ handled'[n + 1] = h
  BY <1>1, AppendProperties, LenProperties
<1>3. \A i \in 1 .. (n + 1) : i \in 1 .. n \/ i = n + 1
  OBVIOUS
<1>4. /\ \A i \in 1 .. n : i \in 1 .. (n + 1) /\ handled[i] \in Elements(handled)
      /\ n + 1 \in 1 .. (n + 1)
  BY <1>2 DEF Elements
<1>5. Elements(handled') = Elements(handled) \cup {h}
  BY <1>2, <1>3, <1>4 DEF Elements
<1>6. Distinct(handled')
  BY <1>2, <1>3, <1>4 DEF Distinct
<1>7. ASSUME \A x \in Elements(handled) : x < h,
             \A i, j \in DOMAIN handled : i < j => handled[i] < handled[j],
             NEW i \in 1 .. (n + 1), NEW j \in 1 .. (n + 1), i < j
      PROVE  handled'[i] < handled'[j]
  <2>1. i \in 1 .. n
    BY <1>7
  <2>2. CASE j \in 1 .. n
    BY <1>2, <1>7, <2>1, <2>2
  <2>3. CASE j = n + 1
    BY <1>2, <1>4, <1>7, <2>1, <2>3
  <2> QED
    BY <1>3, <2>2, <2>3
<1> QED
  BY <1>2, <1>5, <1>6, <1>7

\* What leaves a connection's queue, and is handled, is lost, or was resume.
LEMMA Taken ==
  ASSUME TypeOK, Queues, NEW c \in Conns, NEW s \in Seq(ClientEnvelope),
         toServer' = [toServer EXCEPT ![c] = s], outbox' = outbox,
         Ids(s) \subseteq Ids(toServer[c]), InOrder(s), ResumeFirst(s)
  PROVE  /\ Queues' /\ Ids(outbox)' = Ids(outbox)
         /\ InFlight' = InFlight \ (Ids(toServer[c]) \ Ids(s))
         /\ Ids(toServer[c]) \subseteq InFlight
<1>1. \A a, b \in Conns : a # b => Ids(toServer[a]) \cap Ids(toServer[b]) = {}
  BY DEF Queues
<1>2. /\ InFlight' = (InFlight \ Ids(toServer[c])) \cup Ids(s)
      /\ Ids(toServer[c]) \subseteq InFlight
      /\ \A a, b \in Conns : a # b => Ids(toServer'[a]) \cap Ids(toServer'[b]) = {}
  <2>1. Ids(s) \cap (InFlight \ Ids(toServer[c])) = {}
    OBVIOUS
  <2> QED
    BY <1>1, <2>1, FlightOf
<1>3. \A a \in Conns : toServer'[a] = IF a = c THEN s ELSE toServer[a]
  BY DEF TypeOK, NetTypeOK
<1>4. \A a \in Conns : InOrder(toServer'[a]) /\ ResumeFirst(toServer'[a])
  BY <1>3 DEF Queues
<1>5. InOrder(outbox') /\ Ids(outbox') = Ids(outbox)
  BY DEF Queues
<1>6. InFlight' = InFlight \ (Ids(toServer[c]) \ Ids(s))
  BY <1>2
<1>7. Queues'
  BY <1>2, <1>4, <1>5 DEF Queues, InOrder, ResumeFirst, Ids
<1>8. Ids(outbox)' = Ids(outbox)
  BY DEF Ids
<1> QED
  BY <1>2, <1>6, <1>7, <1>8
LEMMA QueuesKept ==
  ASSUME Queues, toServer' = toServer, InOrder(outbox')
  PROVE  Queues'
<1>1. \A c \in Conns : InOrder(toServer'[c]) /\ ResumeFirst(toServer'[c])
  BY DEF Queues
<1>2. \A a, b \in Conns : a # b => Ids(toServer'[a]) \cap Ids(toServer'[b]) = {}
  BY DEF Queues
<1> QED
  BY <1>1, <1>2 DEF Queues, InOrder, ResumeFirst, Ids

-----------------------------------------------------------------------------
(* The way of an envelope *)

\* The next number is free.
LEMMA NextEnvelope ==
  ASSUME TypeOK, NEW kind \in {"event", "request"}, Send(kind)
  PROVE  \E q \in Queued : /\ q = [kind |-> kind, id |-> sent + 1]
                           /\ q \in ClientEnvelope /\ q.kind # "resume" /\ q.id = sent + 1
<1>1. sent + 1 \in 1 .. MaxSend
  BY ConstantsAssumption DEF ConstantsAssumption, Send, TypeOK, HistoryTypeOK
<1> DEFINE q == [kind |-> kind, id |-> sent + 1]
<1>2. q.kind = kind /\ q.id = sent + 1 /\ q \in Queued
  BY <1>1 DEF Queued
<1>3. q \in ClientEnvelope
  BY <1>2 DEF ClientEnvelope
<1>4. kind # "resume"
  OBVIOUS
<1> QED
  BY <1>2, <1>3, <1>4

\* An envelope that is sent at once goes behind what is under way, or is lost.
LEMMA SendFlow ==
  ASSUME TypeOK, UInv, NEW kind \in {"event", "request"}, Send(kind), isOpen
  PROVE  Flow'
<1>1. PICK q \in Queued : /\ q = [kind |-> kind, id |-> sent + 1]
                          /\ q \in ClientEnvelope /\ q.kind # "resume" /\ q.id = sent + 1
  BY NextEnvelope
<1>2. /\ sent' = sent + 1 /\ Transmit(ws, <<q>>)
      /\ UNCHANGED <<outbox, dropped, handled>>
  BY <1>1 DEF Send
<1>3. /\ q \in ClientEnvelope /\ q.kind # "resume" /\ q.id = sent + 1
      /\ ws \in Conns /\ toServer[ws] \in Seq(ClientEnvelope)
  <2>1. ws \in Conns
    BY ConstantsAssumption DEF ConstantsAssumption, isOpen, TypeOK, ClientTypeOK, NoConn, Conns
  <2> QED
    BY <1>1, <2>1 DEF TypeOK, NetTypeOK
<1>4. /\ <<q>> \in Seq(ClientEnvelope) /\ Ids(<<q>>) = {sent + 1}
      /\ InOrder(<<q>>) /\ NoResume(<<q>>)
  BY <1>3, OneEnvelope
<1>5. /\ sent \in Nat /\ InFlight \subseteq 1 .. sent /\ Elements(handled) \subseteq 1 .. sent
      /\ dropped \subseteq 1 .. sent /\ lost \subseteq 1 .. sent
      /\ Ids(outbox) = {} /\ outbox = << >>
  BY Counted, EmptyQueue DEF UInv, Flow, Ends
<1>6. 1 .. (sent + 1) = (1 .. sent) \cup {sent + 1} /\ \A x \in 1 .. sent : x < sent + 1
  BY <1>5
<1>7. Ids(outbox)' = {} /\ Elements(handled)' = Elements(handled) /\ Distinct(handled)'
  BY <1>2, <1>5 DEF Ids, Elements, UInv, Flow, Places, Distinct
<1>8. InFlight \cup Elements(handled) \cup dropped \cup lost = 1 .. sent
  BY <1>5 DEF UInv, Flow, Places
<1>9. CASE up[ws] = "closed"
  <2>1. toServer' = toServer /\ lost' = lost \cup {sent + 1}
    BY <1>2, <1>4, <1>9 DEF Transmit
  <2>2. InFlight' = InFlight
    BY <2>1 DEF InFlight, Ids
  <2>3. Queues'
    <3>1. Queues /\ InOrder(outbox')
      BY <1>2 DEF UInv, Flow, Queues
    <3> QED
      BY <2>1, <3>1, QueuesKept
  <2>4. Places'
    <3>1. Apart({}, InFlight, Elements(handled), dropped, lost)
      BY <1>5 DEF UInv, Flow, Places
    <3>2. Apart({}, InFlight, Elements(handled), dropped, lost \cup {sent + 1})
      BY <1>5, <1>6, <3>1 DEF Apart
    <3> QED
      BY <1>2, <1>6, <1>7, <1>8, <2>1, <2>2, <3>2 DEF Places
  <2>5. Sequel'
    BY <1>2, <1>7, <2>2 DEF Sequel, UInv, Flow
  <2> QED
    BY <2>3, <2>4, <2>5 DEF Flow
<1>10. CASE up[ws] # "closed"
  <2> DEFINE t == toServer[ws] \o <<q>>
  <2>1. toServer' = [toServer EXCEPT ![ws] = t] /\ lost' = lost
    BY <1>2, <1>10 DEF Transmit
  <2>2. Ids(toServer[ws]) \subseteq InFlight
    BY <1>3 DEF InFlight
  <2>3. Ids(t) = Ids(toServer[ws]) \cup {sent + 1} /\ InOrder(t) /\ ResumeFirst(t)
    <3>1. InOrder(toServer[ws]) /\ ResumeFirst(toServer[ws])
      BY <1>3 DEF UInv, Flow, Queues
    <3>2. \A x \in Ids(toServer[ws]), y \in Ids(<<q>>) : x < y
      BY <1>4, <1>5, <1>6, <2>2
    <3> QED
      BY <1>3, <1>4, <3>1, <3>2, Behind
  <2> HIDE DEF t
  <2>4. /\ InFlight' = InFlight \cup {sent + 1}
        /\ \A a, b \in Conns : a # b => Ids(toServer'[a]) \cap Ids(toServer'[b]) = {}
    <3>1. Ids(t) \cap (InFlight \ Ids(toServer[ws])) = {}
      BY <1>5, <1>6, <2>3
    <3>2. \A a, b \in Conns : a # b => Ids(toServer[a]) \cap Ids(toServer[b]) = {}
      BY DEF UInv, Flow, Queues
    <3>3. /\ InFlight' = (InFlight \ Ids(toServer[ws])) \cup Ids(t)
          /\ \A a, b \in Conns : a # b => Ids(toServer'[a]) \cap Ids(toServer'[b]) = {}
      BY <1>3, <2>1, <3>1, <3>2, FlightOf
    <3> QED
      BY <2>2, <2>3, <3>3
  <2>5. Queues'
    <3>1. \A a \in Conns : toServer'[a] = IF a = ws THEN t ELSE toServer[a]
      BY <2>1 DEF TypeOK, NetTypeOK
    <3>2. \A a \in Conns : InOrder(toServer'[a]) /\ ResumeFirst(toServer'[a])
      BY <2>3, <3>1 DEF UInv, Flow, Queues
    <3>3. InOrder(outbox')
      BY <1>2 DEF UInv, Flow, Queues
    <3> QED
      BY <2>4, <3>2, <3>3 DEF Queues, InOrder, ResumeFirst, Ids
  <2>6. Places'
    <3>1. Apart({}, InFlight, Elements(handled), dropped, lost)
      BY <1>5 DEF UInv, Flow, Places
    <3>2. Apart({}, InFlight \cup {sent + 1}, Elements(handled), dropped, lost)
      BY <1>5, <1>6, <3>1 DEF Apart
    <3> QED
      BY <1>2, <1>6, <1>7, <1>8, <2>1, <2>4, <3>2 DEF Places
  <2>7. Sequel'
    <3>1. ~HalfOpen => \A x \in InFlight', h \in Elements(handled) : h < x
      BY <1>5, <1>6, <2>4 DEF Sequel, UInv, Flow
    <3> QED
      BY <1>2, <1>7, <3>1 DEF Sequel, UInv, Flow
  <2> QED
    BY <2>5, <2>6, <2>7 DEF Flow
<1> QED
  BY <1>9, <1>10

\* An envelope that waits goes behind those that wait; the oldest may be dropped for it.
LEMMA EnqueueFlow ==
  ASSUME TypeOK, UInv, NEW kind \in {"event", "request"}, Send(kind), ~isOpen
  PROVE  Flow'
<1>1. PICK q \in Queued : /\ q = [kind |-> kind, id |-> sent + 1]
                          /\ q \in ClientEnvelope /\ q.kind # "resume" /\ q.id = sent + 1
  BY NextEnvelope
<1>2. /\ sent' = sent + 1 /\ Enqueue(q)
      /\ UNCHANGED <<toServer, lost, handled>>
  BY <1>1 DEF Send
<1>3. q \in ClientEnvelope /\ q.kind # "resume" /\ q.id = sent + 1 /\ outbox \in Seq(Queued)
  BY <1>1 DEF TypeOK, ClientTypeOK
<1>4. /\ <<q>> \in Seq(ClientEnvelope) /\ Ids(<<q>>) = {sent + 1} /\ InOrder(<<q>>)
  BY <1>3, OneEnvelope
<1>5. /\ sent \in Nat /\ Ids(outbox) \subseteq 1 .. sent /\ InFlight \subseteq 1 .. sent
      /\ Elements(handled) \subseteq 1 .. sent
      /\ dropped \subseteq 1 .. sent /\ lost \subseteq 1 .. sent
  BY Counted DEF UInv, Flow
<1>6. 1 .. (sent + 1) = (1 .. sent) \cup {sent + 1} /\ \A x \in 1 .. sent : x < sent + 1
  BY <1>5
<1>7. PICK s \in Seq(Queued) : s = IF Overflow THEN Tail(outbox) ELSE outbox
  <2>1. Overflow => outbox # << >>
    BY ConstantsAssumption, EmptySeq DEF ConstantsAssumption, Overflow
  <2> QED
    BY <1>3, <2>1, HeadTailProperties
<1>8. /\ InOrder(s) /\ Ids(s) \subseteq Ids(outbox)
      /\ dropped' = dropped \cup (Ids(outbox) \ Ids(s))
  <2>1. CASE ~Overflow
    BY <1>2, <1>7, <2>1 DEF UInv, Flow, Queues, Enqueue
  <2>2. CASE Overflow
    <3>1. outbox # << >> /\ outbox \in Seq(ClientEnvelope)
      BY <1>3, <2>2, ConstantsAssumption, EmptySeq, QueuedAreEnvelopes DEF ConstantsAssumption, Overflow
    <3>2. Head(outbox) \in Queued /\ Head(outbox) \in ClientEnvelope /\ Head(outbox).kind # "resume"
      BY <1>3, <3>1, HeadTailProperties DEF Queued, ClientEnvelope
    <3>3. Ids(<<Head(outbox)>>) = {Head(outbox).id}
      BY <3>2, OneEnvelope
    <3>4. /\ InOrder(s) /\ Ids(outbox) = {Head(outbox).id} \cup Ids(s)
          /\ \A y \in Ids(s) : Head(outbox).id < y
      <4>1. InOrder(outbox)
        BY DEF UInv, Flow, Queues
      <4> QED
        BY <1>7, <2>2, <3>1, <3>3, <4>1, FirstOff
    <3>5. Head(outbox).id \notin Ids(s)
      <4>1. Head(outbox).id \in Nat
        BY <3>2 DEF Queued
      <4>2. ~(Head(outbox).id < Head(outbox).id)
        BY <4>1
      <4> QED
        BY <3>4, <4>2
    <3>6. dropped' = dropped \cup {Head(outbox).id}
      BY <1>2, <2>2 DEF Enqueue
    <3> QED
      BY <3>4, <3>5, <3>6
  <2> QED
    BY <2>1, <2>2
<1>9. /\ Ids(outbox') = Ids(s) \cup {sent + 1} /\ InOrder(outbox')
  <2>1. s \in Seq(ClientEnvelope)
    BY QueuedAreEnvelopes
  <2>2. outbox' = s \o <<q>>
    <3>1. outbox' = Append(s, q)
      BY <1>2, <1>7 DEF Enqueue
    <3> QED
      BY <1>1, <3>1, AppendIsConcat
  <2>3. \A x \in Ids(s), y \in Ids(<<q>>) : x < y
    BY <1>4, <1>5, <1>6, <1>8
  <2> QED
    BY <1>4, <1>8, <2>1, <2>2, <2>3, Behind
<1>10. InFlight' = InFlight /\ Elements(handled)' = Elements(handled) /\ Distinct(handled)'
  BY <1>2 DEF InFlight, Ids, Elements, UInv, Flow, Places, Distinct
<1>11. Ids(outbox)' = Ids(outbox')
  BY DEF Ids
<1>12. Queues'
  BY <1>2, <1>9, QueuesKept DEF UInv, Flow
<1>13. Places'
  <2>1. /\ Ids(outbox) \cup InFlight \cup Elements(handled) \cup dropped \cup lost = 1 .. sent
        /\ Apart(Ids(outbox), InFlight, Elements(handled), dropped, lost)
    BY DEF UInv, Flow, Places
  <2>2. Apart(Ids(s) \cup {sent + 1}, InFlight, Elements(handled), dropped', lost)
    BY <1>5, <1>6, <1>8, <2>1 DEF Apart
  <2>3. (Ids(s) \cup {sent + 1}) \cup InFlight \cup Elements(handled) \cup dropped' \cup lost = 1 .. (sent + 1)
    BY <1>6, <1>8, <2>1
  <2> QED
    BY <1>2, <1>9, <1>10, <1>11, <2>2, <2>3 DEF Places
<1>14. Sequel'
  <2>1. \A y \in Ids(outbox'), x \in InFlight \cup Elements(handled) : x < y
    BY <1>5, <1>6, <1>8, <1>9 DEF UInv, Flow, Sequel
  <2> QED
    BY <1>2, <1>10, <1>11, <2>1 DEF UInv, Flow, Sequel
<1> QED
  BY <1>12, <1>13, <1>14 DEF Flow

\* On open all that waited is under way, or lost, behind resume.
LEMMA OpenFlow ==
  ASSUME TypeOK, UInv, NEW c \in Conns, HandleOpen(c)
  PROVE  Flow'
<1>1. /\ readyState[c] = "connecting" /\ Transmit(c, <<ResumeEnvelope>> \o outbox)
      /\ outbox' = << >> /\ UNCHANGED <<dropped, handled, sent>>
  BY DEF HandleOpen, Flush
<1> DEFINE s == <<ResumeEnvelope>> \o outbox
<1>2. outbox \in Seq(ClientEnvelope) /\ NoResume(outbox)
  BY QueuedAreEnvelopes DEF TypeOK, ClientTypeOK
<1>3. s \in Seq(ClientEnvelope) /\ Ids(s) = Ids(outbox) /\ InOrder(s) /\ ResumeFirst(s)
  <2>1. ResumeEnvelope \in ClientEnvelope /\ ResumeEnvelope.kind = "resume"
    BY DEF ResumeEnvelope, ClientEnvelope, TypeOK, ClientTypeOK
  <2>2. /\ <<ResumeEnvelope>> \in Seq(ClientEnvelope) /\ Ids(<<ResumeEnvelope>>) = {}
        /\ InOrder(<<ResumeEnvelope>>) /\ ResumeFirst(<<ResumeEnvelope>>)
    BY <2>1, OneEnvelope
  <2>3. InOrder(outbox)
    BY DEF UInv, Flow, Queues
  <2>4. PICK r \in Seq(ClientEnvelope) : r = <<ResumeEnvelope>>
    BY <2>2
  <2>5. Ids(r) = {} /\ InOrder(r) /\ ResumeFirst(r) /\ s = r \o outbox
    BY <2>2, <2>4
  <2> HIDE DEF s
  <2>6. s \in Seq(ClientEnvelope) /\ Ids(s) = Ids(r) \cup Ids(outbox)
    BY <1>2, <2>5, Behind
  <2>7. InOrder(s) /\ ResumeFirst(s)
    BY <1>2, <2>3, <2>5, Behind
  <2> QED
    BY <2>5, <2>6, <2>7
<1> HIDE DEF s
<1>4. /\ toServer[c] = << >> /\ Ids(toServer[c]) = {}
      /\ toServer[c] \o s = s
  <2>1. toServer[c] = << >>
    BY <1>1 DEF UInv, Ends
  <2> QED
    BY <1>3, <2>1, EmptyQueue, ConcatEmptySeq
<1>5. Ids(outbox)' = {} /\ Elements(handled)' = Elements(handled) /\ Distinct(handled)'
  BY <1>1, EmptyQueue DEF Ids, Elements, UInv, Flow, Places, Distinct
<1>6. InOrder(outbox')
  BY <1>1, EmptyQueue
<1>7. /\ Ids(outbox) \cup InFlight \cup Elements(handled) \cup dropped \cup lost = 1 .. sent
      /\ Apart(Ids(outbox), InFlight, Elements(handled), dropped, lost)
      /\ Queues /\ Sequel
  BY DEF UInv, Flow, Places
<1>8. CASE up[c] = "closed"
  <2>1. toServer' = toServer /\ lost' = lost \cup Ids(outbox)
    BY <1>1, <1>3, <1>8 DEF Transmit, s
  <2>2. InFlight' = InFlight
    BY <2>1 DEF InFlight, Ids
  <2>3. Queues'
    BY <1>6, <1>7, <2>1, QueuesKept
  <2>4. Places'
    <3>1. Apart({}, InFlight, Elements(handled), dropped, lost \cup Ids(outbox))
      BY <1>7 DEF Apart
    <3> QED
      BY <1>1, <1>5, <1>7, <2>1, <2>2, <3>1 DEF Places
  <2>5. Sequel'
    BY <1>1, <1>5, <1>7, <2>2 DEF Sequel
  <2> QED
    BY <2>3, <2>4, <2>5 DEF Flow
<1>9. CASE up[c] # "closed"
  <2>1. toServer' = [toServer EXCEPT ![c] = s] /\ lost' = lost
    BY <1>1, <1>4, <1>9 DEF Transmit, s
  <2>2. /\ InFlight' = InFlight \cup Ids(outbox)
        /\ \A a, b \in Conns : a # b => Ids(toServer'[a]) \cap Ids(toServer'[b]) = {}
    <3>1. Ids(s) \cap (InFlight \ Ids(toServer[c])) = {}
      BY <1>3, <1>7 DEF Apart
    <3>2. \A a, b \in Conns : a # b => Ids(toServer[a]) \cap Ids(toServer[b]) = {}
      BY <1>7 DEF Queues
    <3>3. /\ InFlight' = (InFlight \ Ids(toServer[c])) \cup Ids(s)
          /\ \A a, b \in Conns : a # b => Ids(toServer'[a]) \cap Ids(toServer'[b]) = {}
      BY <2>1, <3>1, <3>2, FlightOf
    <3> QED
      BY <1>3, <1>4, <3>3
  <2>3. Queues'
    <3>1. \A a \in Conns : toServer'[a] = IF a = c THEN s ELSE toServer[a]
      BY <2>1 DEF TypeOK, NetTypeOK
    <3>2. \A a \in Conns : InOrder(toServer'[a]) /\ ResumeFirst(toServer'[a])
      BY <1>3, <1>7, <3>1 DEF Queues
    <3> QED
      BY <1>6, <2>2, <3>2 DEF Queues, InOrder, ResumeFirst, Ids
  <2>4. Places'
    <3>1. Apart({}, InFlight \cup Ids(outbox), Elements(handled), dropped, lost)
      BY <1>7 DEF Apart
    <3> QED
      BY <1>1, <1>5, <1>7, <2>1, <2>2, <3>1 DEF Places
  <2>5. Sequel'
    BY <1>1, <1>5, <1>7, <2>2 DEF Sequel
  <2> QED
    BY <2>3, <2>4, <2>5 DEF Flow
<1> QED
  BY <1>8, <1>9

\* What one side has not read when it closes is lost.
LEMMA LossFlow ==
  ASSUME TypeOK, UInv, NEW c \in Conns, NEW s \in Seq(ClientEnvelope),
         toServer' = [toServer EXCEPT ![c] = s], InOrder(s), ResumeFirst(s),
         Ids(s) \subseteq Ids(toServer[c]), lost' = lost \cup (Ids(toServer[c]) \ Ids(s)),
         UNCHANGED <<outbox, handled, dropped, sent>>
  PROVE  Flow'
<1>1. /\ Ids(outbox) \cup InFlight \cup Elements(handled) \cup dropped \cup lost = 1 .. sent
      /\ Apart(Ids(outbox), InFlight, Elements(handled), dropped, lost)
      /\ Queues /\ Sequel
  BY DEF UInv, Flow, Places
<1>2. /\ Queues' /\ Ids(outbox)' = Ids(outbox)
      /\ InFlight' = InFlight \ (Ids(toServer[c]) \ Ids(s))
      /\ Ids(toServer[c]) \subseteq InFlight
  BY <1>1, Taken
<1>3. Elements(handled)' = Elements(handled) /\ Distinct(handled)'
  BY DEF Elements, UInv, Flow, Places, Distinct
<1>4. Places'
  <2>1. Apart(Ids(outbox), InFlight', Elements(handled), dropped, lost')
    BY <1>1, <1>2 DEF Apart
  <2>2. Ids(outbox) \cup InFlight' \cup Elements(handled) \cup dropped \cup lost' = 1 .. sent
    BY <1>1, <1>2
  <2> QED
    BY <1>2, <1>3, <2>1, <2>2 DEF Places
<1>5. Sequel'
  BY <1>1, <1>2, <1>3 DEF Sequel
<1> QED
  BY <1>2, <1>4, <1>5 DEF Flow

\* An envelope that is read is handled once, and not before those that were sent before it.
LEMMA ReadFlow ==
  ASSUME TypeOK, UInv, NEW c \in Conns, NEW kind \in {"event", "request"}, Receives(c, kind),
         handled' = Append(handled, Head(toServer[c]).id),
         UNCHANGED <<outbox, dropped, lost, sent>>
  PROVE  Flow' /\ Elements(handled') = Elements(handled) \cup {Head(toServer[c]).id}
<1> DEFINE h == Head(toServer[c]).id
<1>1. toServer[c] \in Seq(ClientEnvelope) /\ toServer[c] # << >>
      /\ toServer' = [toServer EXCEPT ![c] = Tail(toServer[c])] /\ up[c] = "open"
  BY DEF Receives, TypeOK, NetTypeOK
<1>2. h \in 1 .. MaxSend /\ Head(toServer[c]).kind # "resume"
  BY HandledType DEF Receives
<1>3. /\ Ids(outbox) \cup InFlight \cup Elements(handled) \cup dropped \cup lost = 1 .. sent
      /\ Apart(Ids(outbox), InFlight, Elements(handled), dropped, lost)
      /\ Queues /\ Sequel /\ Distinct(handled) /\ InOrder(toServer[c]) /\ ResumeFirst(toServer[c])
  BY DEF UInv, Flow, Places, Queues
<1> DEFINE t == Tail(toServer[c])
<1>4. /\ t \in Seq(ClientEnvelope) /\ Ids(toServer[c]) = {h} \cup Ids(t)
      /\ InOrder(t) /\ ResumeFirst(t) /\ \A y \in Ids(t) : h < y
  <2>1. Head(toServer[c]) \in ClientEnvelope
    BY <1>1, FirstOff
  <2>2. Ids(<<Head(toServer[c])>>) = {h}
    BY <1>2, <2>1, OneEnvelope
  <2>3. NoResume(t) => ResumeFirst(t)
    BY DEF NoResume, ResumeFirst
  <2> QED
    BY <1>1, <1>3, <2>2, <2>3, FirstOff
<1> HIDE DEF t, h
<1>5. h \notin Ids(t) /\ h \in Ids(toServer[c]) /\ Ids(t) \subseteq Ids(toServer[c])
  <2>1. ~(h < h)
    BY <1>2
  <2> QED
    BY <1>4, <2>1
<1>6. /\ Queues' /\ Ids(outbox)' = Ids(outbox)
      /\ InFlight' = InFlight \ {h} /\ h \in InFlight
  <2>1. /\ Queues' /\ Ids(outbox)' = Ids(outbox)
        /\ InFlight' = InFlight \ (Ids(toServer[c]) \ Ids(t))
        /\ Ids(toServer[c]) \subseteq InFlight
    BY <1>1, <1>3, <1>4, <1>5, Taken DEF t
  <2> QED
    BY <1>4, <1>5, <2>1
<1>7. h \notin Elements(handled)
  BY <1>3, <1>6 DEF Apart
<1>8. /\ Elements(handled') = Elements(handled) \cup {h} /\ Distinct(handled')
      /\ (\A x \in Elements(handled) : x < h)
           /\ (\A i, j \in DOMAIN handled : i < j => handled[i] < handled[j])
           => \A i, j \in DOMAIN handled' : i < j => handled'[i] < handled'[j]
  BY <1>2, <1>3, <1>7, HandledMore DEF h
<1>9. Elements(handled)' = Elements(handled') /\ Distinct(handled)'
  BY <1>8 DEF Elements, Distinct
<1>10. Places'
  <2>1. Apart(Ids(outbox), InFlight \ {h}, Elements(handled) \cup {h}, dropped, lost)
    BY <1>3, <1>6, <1>7 DEF Apart
  <2>2. Ids(outbox) \cup (InFlight \ {h}) \cup (Elements(handled) \cup {h}) \cup dropped \cup lost = 1 .. sent
    BY <1>3, <1>6
  <2> QED
    BY <1>6, <1>8, <1>9, <2>1, <2>2 DEF Places
<1>11. Sequel'
  <2>1. \A q \in Ids(outbox), x \in InFlight' \cup Elements(handled') : x < q
    BY <1>3, <1>6, <1>8 DEF Sequel
  <2>2. ASSUME ~HalfOpen
        PROVE  /\ \A x \in InFlight', e \in Elements(handled') : e < x
               /\ \A i, j \in DOMAIN handled' : i < j => handled'[i] < handled'[j]
    <3>1. InFlight \subseteq Ids(toServer[c])
      <4>1. \A a \in Conns : a # c => Ids(toServer[a]) = {}
        <5>1. \A a \in Conns : a # c => up[a] # "open"
          BY <1>1, <2>2 DEF UInv, Ttl
        <5> QED
          BY <5>1, EmptyQueue DEF UInv, Ends
      <4> QED
        BY <4>1 DEF InFlight
    <3>2. \A x \in InFlight' : h < x
      BY <1>4, <1>6, <3>1
    <3>3. /\ \A x \in InFlight, e \in Elements(handled) : e < x
          /\ \A i, j \in DOMAIN handled : i < j => handled[i] < handled[j]
      BY <1>3, <2>2 DEF Sequel
    <3> QED
      BY <1>6, <1>8, <3>2, <3>3
  <2> QED
    BY <1>6, <1>9, <2>1, <2>2 DEF Sequel
<1> QED
  BY <1>6, <1>8, <1>10, <1>11 DEF Flow, h
-----------------------------------------------------------------------------
(* The way of a response *)

LEMMA ResponseOf ==
  ASSUME NEW s, NEW x
  PROVE  x \in Responses(s) <=> \E i \in DOMAIN s : s[i].kind = "response" /\ s[i].id = x
BY DEF Responses

LEMMA NoResponses == Responses(<< >>) = {}
<1>1. DOMAIN << >> = {}
  BY EmptySeq
<1> QED
  BY <1>1 DEF Responses

LEMMA ResponsesBehind ==
  ASSUME NEW s \in Seq(ServerEnvelope), NEW t \in Seq(ServerEnvelope)
  PROVE  Responses(s \o t) \subseteq Responses(s) \cup Responses(t)
<1>1. PICK m \in Nat : m = Len(s)
  BY LenProperties
<1>2. PICK n \in Nat : n = Len(t)
  BY LenProperties
<1>3. PICK u \in Seq(ServerEnvelope) :
        /\ u = s \o t
        /\ DOMAIN u = 1 .. (m + n)
        /\ \A i \in 1 .. (m + n) : u[i] = IF i <= m THEN s[i] ELSE t[i - m]
  <2> DEFINE w == s \o t
  <2>1. /\ w \in Seq(ServerEnvelope) /\ DOMAIN w = 1 .. (m + n)
        /\ \A i \in 1 .. (m + n) : w[i] = IF i <= m THEN s[i] ELSE t[i - m]
    BY <1>1, <1>2, LenProperties, ConcatProperties
  <2> HIDE DEF w
  <2>2. w = s \o t
    BY DEF w
  <2> QED
    BY <2>1, <2>2
<1>4. DOMAIN s = 1 .. m /\ DOMAIN t = 1 .. n
  BY <1>1, <1>2, LenProperties
<1>5. ASSUME NEW x \in Responses(u) PROVE x \in Responses(s) \cup Responses(t)
  <2>1. PICK k \in DOMAIN u : u[k].kind = "response" /\ u[k].id = x
    BY <1>5, ResponseOf
  <2>2. CASE k <= m
    BY <1>3, <1>4, <2>1, <2>2, ResponseOf
  <2>3. CASE ~(k <= m)
    <3>1. PICK j \in 1 .. n : j = k - m /\ u[k] = t[j]
      BY <1>3, <2>1, <2>3
    <3> QED
      BY <1>4, <2>1, <3>1, ResponseOf
  <2> QED
    BY <2>2, <2>3
<1> QED
  BY <1>3, <1>5

LEMMA ResponseRead ==
  ASSUME NEW s \in Seq(ServerEnvelope), s # << >>
  PROVE  /\ Responses(Tail(s)) \subseteq Responses(s)
         /\ Head(s).kind = "response" => Head(s).id \in Responses(s)
<1>1. PICK n \in Nat : n = Len(s) /\ n # 0
  BY EmptySeq, LenProperties
<1>2. PICK t \in Seq(ServerEnvelope) :
        /\ t = Tail(s) /\ DOMAIN t = 1 .. (n - 1)
        /\ \A i \in 1 .. (n - 1) : t[i] = s[i + 1]
  <2> DEFINE w == Tail(s)
  <2>1. /\ w \in Seq(ServerEnvelope) /\ Len(w) = n - 1
        /\ \A i \in 1 .. Len(w) : w[i] = s[i + 1]
    BY <1>1, HeadTailProperties
  <2> HIDE DEF w
  <2>2. DOMAIN w = 1 .. (n - 1)
    BY <2>1, LenProperties
  <2>3. w = Tail(s)
    BY DEF w
  <2> QED
    BY <2>1, <2>2, <2>3
<1>3. DOMAIN s = 1 .. n /\ Head(s) = s[1] /\ 1 \in 1 .. n
  BY <1>1, LenProperties, HeadTailProperties
<1>4. ASSUME NEW x \in Responses(t) PROVE x \in Responses(s)
  <2>1. PICK k \in DOMAIN t : t[k].kind = "response" /\ t[k].id = x
    BY <1>4, ResponseOf
  <2>2. PICK j \in 1 .. n : j = k + 1 /\ t[k] = s[j]
    <3>1. k \in 1 .. (n - 1) /\ k + 1 \in 1 .. n
      BY <1>1, <1>2
    <3> QED
      BY <1>2, <3>1
  <2> QED
    BY <1>3, <2>1, <2>2, ResponseOf
<1>5. Head(s).kind = "response" => Head(s).id \in Responses(s)
  BY <1>3, ResponseOf
<1> QED
  BY <1>2, <1>4, <1>5

\* Events bring no response.
LEMMA EmitResponses ==
  ASSUME TypeOK, NEW c, NEW evs \in Seq(Event), InnerEmit(c, evs), NEW d \in Conns
  PROVE  Responses(toClient'[d]) \subseteq Responses(toClient[d])
<1>1. CASE d = c /\ toClient' # toClient
  <2>1. toClient'[d] = toClient[d] \o Wire(d, evs)
    BY <1>1 DEF InnerEmit, TypeOK, NetTypeOK
  <2>2. Wire(d, evs) \in Seq(ServerEnvelope) /\ toClient[d] \in Seq(ServerEnvelope)
    BY WireType DEF TypeOK, NetTypeOK
  <2>3. Responses(Wire(d, evs)) = {}
    <3>1. DOMAIN Wire(d, evs) = 1 .. Len(evs) /\ \A i \in 1 .. Len(evs) : Wire(d, evs)[i].kind = "event"
      BY DEF Wire
    <3> QED
      BY <3>1 DEF Responses
  <2> QED
    BY <2>1, <2>2, <2>3, ResponsesBehind
<1>2. CASE ~(d = c /\ toClient' # toClient)
  <2>1. toClient'[d] = toClient[d]
    BY <1>2 DEF InnerEmit, TypeOK, NetTypeOK
  <2> QED
    BY <2>1
<1> QED
  BY <1>1, <1>2

LEMMA GreetResponses ==
  ASSUME TypeOK, NEW c \in Conns, Greet(c), NEW d \in Conns
  PROVE  Responses(toClient'[d]) \subseteq Responses(toClient[d])
<1> DEFINE evs == <<emitted + 1>>
<1>1. evs \in Seq(Event)
  BY DEF TypeOK, HistoryTypeOK, Event
<1>2. CASE d = c
  <2>1. toClient'[d] = toClient[d] \o Wire(d, evs)
    BY <1>2 DEF Greet, TypeOK, NetTypeOK
  <2>2. Wire(d, evs) \in Seq(ServerEnvelope) /\ toClient[d] \in Seq(ServerEnvelope)
    BY <1>1, WireType DEF TypeOK, NetTypeOK
  <2> HIDE DEF evs
  <2>3. Responses(Wire(d, evs)) = {}
    <3>1. DOMAIN Wire(d, evs) = 1 .. Len(evs) /\ \A i \in 1 .. Len(evs) : Wire(d, evs)[i].kind = "event"
      BY DEF Wire
    <3> QED
      BY <3>1 DEF Responses
  <2> QED
    BY <2>1, <2>2, <2>3, ResponsesBehind
<1>3. CASE d # c
  <2>1. toClient'[d] = toClient[d]
    BY <1>3 DEF Greet, TypeOK, NetTypeOK
  <2> QED
    BY <2>1
<1> QED
  BY <1>2, <1>3

\* The callback of a request that was handled answers it.
LEMMA RespondAnswers ==
  ASSUME TypeOK, Answers, NEW c \in Conns, NEW id \in 1 .. MaxSend, Respond(c, id)
  PROVE  Answers'
<1> DEFINE e == [kind |-> "response", id |-> id]
<1>1. /\ <<c, id>> \in answering /\ answering' \subseteq answering /\ handled' = handled
      /\ toClient' = IF up[c] = "open" /\ readyState[c] # "closed"
                     THEN [toClient EXCEPT ![c] = Append(@, e)] ELSE toClient
  BY DEF Respond, historyVars
<1>2. id \in Elements(handled)
  BY <1>1 DEF Answers
<1>3. e \in ServerEnvelope /\ <<e>> \in Seq(ServerEnvelope) /\ Responses(<<e>>) \subseteq {id}
  <2>1. e \in ServerEnvelope /\ e.id = id
    BY DEF ServerEnvelope
  <2>2. <<e>> \in Seq(ServerEnvelope) /\ DOMAIN <<e>> = {1} /\ <<e>>[1] = e
    BY <2>1
  <2> QED
    BY <2>1, <2>2 DEF Responses
<1> HIDE DEF e
<1>4. ASSUME NEW d \in Conns PROVE Responses(toClient'[d]) \subseteq Elements(handled)
  <2>1. PICK s \in Seq(ServerEnvelope) : s = toClient[d] /\ Responses(s) \subseteq Elements(handled)
    BY DEF TypeOK, NetTypeOK, Answers
  <2>2. toClient'[d] = s \/ toClient'[d] = Append(s, e)
    BY <1>1, <2>1 DEF TypeOK, NetTypeOK
  <2>3. PICK t \in Seq(ServerEnvelope) : t = <<e>> /\ Responses(t) \subseteq {id}
    BY <1>3
  <2>4. Append(s, e) = s \o t
    BY <1>3, <2>3, AppendIsConcat
  <2>5. Responses(s \o t) \subseteq Elements(handled)
    <3>1. Responses(s \o t) \subseteq Responses(s) \cup Responses(t)
      BY ResponsesBehind
    <3> QED
      BY <1>2, <2>1, <2>3, <3>1
  <2> QED
    BY <2>1, <2>2, <2>4, <2>5
<1>5. \A p \in answering' : p[2] \in Elements(handled)
  BY <1>1 DEF Answers
<1>6. (\A d \in Conns : Responses(toClient'[d]) \subseteq Elements(handled))
        /\ (\A p \in answering' : p[2] \in Elements(handled')) /\ handled' = handled
        => Answers'
  BY DEF Answers, Responses, Elements
<1> QED
  BY <1>1, <1>4, <1>5, <1>6

\* What a request comes to when it is sent, or another one is dropped for it.
LEMMA SendFated ==
  ASSUME TypeOK, UInv, NEW kind \in {"event", "request"}, Send(kind)
  PROVE  Fated'
<1>1. PICK q \in Queued : /\ q = [kind |-> kind, id |-> sent + 1]
                          /\ q \in ClientEnvelope /\ q.kind # "resume" /\ q.id = sent + 1
  BY NextEnvelope
<1>2. /\ request' = RequestAfter(q) /\ handled' = handled
      /\ isOpen => dropped' = dropped
      /\ ~isOpen => Enqueue(q)
  BY <1>1 DEF Send
<1>3. /\ sent \in Nat /\ Ids(outbox) \subseteq 1 .. sent /\ dropped \subseteq 1 .. sent
      /\ Ids(outbox) \cap Elements(handled) = {}
  BY Counted DEF UInv, Flow, Places, Apart
<1>4. Elements(handled)' = Elements(handled)
  BY <1>2 DEF Elements
<1>5. ASSUME ~isOpen, Overflow PROVE Head(outbox).id \in Ids(outbox)
  <2>1. outbox \in Seq(Queued) /\ outbox # << >>
    BY <1>5, ConstantsAssumption, EmptySeq DEF ConstantsAssumption, Overflow, TypeOK, ClientTypeOK
  <2>2. 1 \in DOMAIN outbox /\ Head(outbox) = outbox[1]
    BY <2>1, EmptySeq, LenProperties, HeadTailProperties
  <2> QED
    BY <2>1, <2>2, QueuedAreEnvelopes
<1>6. \A i \in 1 .. MaxSend :
        /\ request'[i] = "resolved" => request[i] = "resolved"
        /\ i # sent + 1 /\ request[i] # "pending" => request'[i] = request[i]
        /\ i # sent + 1 /\ ~isOpen /\ Overflow /\ i = Head(outbox).id /\ request[i] = "pending"
             => request'[i] = "rejected"
  BY <1>1, <1>2 DEF RequestAfter
<1>7. \A i \in dropped' : i \in dropped \/ (~isOpen /\ Overflow /\ i = Head(outbox).id)
  BY <1>2 DEF Enqueue
<1> SUFFICES ASSUME NEW i \in 1 .. MaxSend
             PROVE  /\ request'[i] = "resolved" => i \in Elements(handled)
                    /\ i \in dropped' => request'[i] \in {"none", "rejected"}
  BY <1>4 DEF Fated
<1>8. /\ request[i] = "resolved" => i \in Elements(handled)
      /\ i \in dropped => request[i] \in {"none", "rejected"}
      /\ request[i] \in Fates
  BY DEF UInv, Fated, TypeOK, ClientTypeOK
<1>9. ASSUME i \in dropped' PROVE request'[i] \in {"none", "rejected"}
  <2>1. CASE i \in dropped
    <3>1. i # sent + 1
      BY <1>3, <2>1
    <3> QED
      BY <1>6, <1>8, <2>1, <3>1
  <2>2. CASE ~isOpen /\ Overflow /\ i = Head(outbox).id
    <3>1. i \in Ids(outbox)
      BY <1>5, <2>2
    <3>2. i # sent + 1 /\ i \notin Elements(handled)
      BY <1>3, <3>1
    <3> QED
      BY <1>6, <1>8, <2>2, <3>2 DEF Fates
  <2> QED
    BY <1>7, <1>9, <2>1, <2>2
<1> QED
  BY <1>6, <1>8, <1>9

-----------------------------------------------------------------------------
(* Every step keeps the invariant *)

\* A fresh socket has nothing under way.
LEMMA OpenSocketUplink ==
  ASSUME IInv, UInv, OpenSocket,
         UNCHANGED <<outbox, request, netVars, serverVars, resumeVars, historyVars>>
  PROVE  UInv'
<1>1. Flow'
  BY FlowFrame DEF UInv, netVars, historyVars
<1>2. Answers' /\ Fated' /\ Ttl'
  BY SameResponses, AnswersFrame, FatedFrame, TtlFrame
     DEF UInv, netVars, serverVars, resumeVars, historyVars
<1>3. Ends'
  <2>1. PICK n \in Conns : n = opened + 1
    BY ConstantsAssumption DEF ConstantsAssumption, OpenSocket, IInv, TypeOK, ClientTypeOK, Conns
  <2>2. /\ ws' = n /\ readyState' = [readyState EXCEPT ![n] = "connecting"]
        /\ readyState[n] = "none"
    <3>1. ~(n <= opened)
      BY <2>1 DEF IInv, TypeOK, ClientTypeOK
    <3> QED
      BY <2>1, <3>1 DEF OpenSocket, IInv, SocketOrder
  <2>3. \A c \in Conns : readyState'[c] = IF c = n THEN "connecting" ELSE readyState[c]
    BY <2>2 DEF IInv, TypeOK, ClientTypeOK
  <2>4. /\ toServer' = toServer /\ up' = up /\ toServer[n] = << >>
    BY <2>2 DEF netVars, serverVars, UInv, Ends
  <2>5. ~isOpen'
    BY <2>2, <2>3 DEF isOpen
  <2> QED
    BY <2>3, <2>4, <2>5 DEF UInv, Ends
<1> QED
  BY <1>1, <1>2, <1>3 DEF UInv

\* disconnect() gives up what is pending; what was sent takes its course.
LEMMA DisconnectUplink == ASSUME IInv, UInv, Disconnect PROVE UInv'
<1>1. Flow'
  BY FlowFrame DEF UInv, Disconnect, netVars, historyVars
<1>2. Answers' /\ Ttl'
  BY SameResponses, AnswersFrame, TtlFrame
     DEF UInv, Disconnect, netVars, serverVars, resumeVars, historyVars
<1>3. Fated'
  <2>1. \A i \in 1 .. MaxSend : /\ request'[i] = "resolved" => request[i] = "resolved"
                                /\ request[i] # "pending" => request'[i] = request[i]
    BY DEF Disconnect, RejectPending
  <2>2. handled' = handled /\ dropped' = dropped
    BY DEF Disconnect, historyVars
  <2>3. Elements(handled)' = Elements(handled)
    BY <2>2 DEF Elements
  <2> QED
    BY <2>1, <2>2, <2>3 DEF UInv, Fated
<1>4. Ends'
  <2>1. \A c \in Conns : readyState'[c] = readyState[c] \/ readyState'[c] = "closing"
    BY DEF Disconnect
  <2>2. ws' = NoConn /\ toServer' = toServer /\ up' = up
    BY DEF Disconnect, netVars, serverVars
  <2>3. ~isOpen'
    BY <2>2 DEF isOpen
  <2> QED
    BY <2>1, <2>2, <2>3 DEF UInv, Ends
<1> QED
  BY <1>1, <1>2, <1>3, <1>4 DEF UInv

\* emit() and request().
LEMMA SendUplink ==
  ASSUME IInv, UInv, NEW kind \in {"event", "request"}, Send(kind)
  PROVE  UInv'
<1>1. TypeOK
  BY DEF IInv
<1>2. Flow'
  BY <1>1, SendFlow, EnqueueFlow
<1>3. Answers' /\ Ttl'
  BY SameResponses, AnswersFrame, TtlFrame DEF UInv, Send, serverVars, resumeVars
<1>4. Fated'
  BY <1>1, SendFated
<1>5. Ends'
  <2>1. UNCHANGED <<ws, readyState, up>>
    BY DEF Send, serverVars
  <2>2. isOpen' <=> isOpen
    BY <2>1 DEF isOpen
  <2>3. CASE isOpen
    <3>1. ws \in Conns /\ readyState[ws] = "open" /\ up[ws] \in {"open", "closed"}
      BY <1>1, <2>3, ConstantsAssumption
         DEF ConstantsAssumption, isOpen, TypeOK, ClientTypeOK, ServerTypeOK, NoConn, Conns, UInv, Ends
    <3>2. \A c \in Conns : toServer'[c] = toServer[c] \/ (c = ws /\ up[c] = "open")
      BY <1>1, <2>3, <3>1 DEF Send, Transmit, TypeOK, NetTypeOK
    <3>3. outbox' = outbox
      BY <2>3 DEF Send
    <3> QED
      BY <2>1, <2>2, <3>1, <3>2, <3>3 DEF UInv, Ends
  <2>4. CASE ~isOpen
    <3>1. toServer' = toServer
      BY <2>4 DEF Send
    <3> QED
      BY <2>1, <2>2, <2>4, <3>1 DEF UInv, Ends
  <2> QED
    BY <2>3, <2>4
<1> QED
  BY <1>2, <1>3, <1>4, <1>5 DEF UInv

\* The handshake ends.
LEMMA HandleOpenUplink == ASSUME IInv, UInv, NEW c \in Conns, HandleOpen(c) PROVE UInv'
<1>1. TypeOK
  BY DEF IInv
<1>2. Flow'
  BY <1>1, OpenFlow
<1>3. Answers' /\ Fated' /\ Ttl'
  BY SameResponses, AnswersFrame, FatedFrame, TtlFrame DEF UInv, HandleOpen, serverVars, resumeVars
<1>4. Ends'
  <2>1. /\ UNCHANGED <<ws, up>> /\ outbox' = << >> /\ up[c] \in {"open", "closed"}
        /\ \A d \in Conns : readyState'[d] = IF d = c THEN "open" ELSE readyState[d]
    BY <1>1 DEF HandleOpen, Flush, serverVars, TypeOK, ClientTypeOK, ServerTypeOK
  <2>2. \A d \in Conns : toServer'[d] = toServer[d] \/ (d = c /\ up[c] = "open")
    BY <1>1, <2>1 DEF HandleOpen, Flush, Transmit, TypeOK, NetTypeOK
  <2> QED
    BY <2>1, <2>2 DEF UInv, Ends
<1> QED
  BY <1>2, <1>3, <1>4 DEF UInv

\* The listeners of the client run.
LEMMA ReceiveEventUplink == ASSUME IInv, UInv, NEW c \in Conns, ReceiveEvent(c) PROVE UInv'
<1>1. Flow' /\ Ends' /\ Fated' /\ Ttl'
  BY FlowFrame, EndsFrame, FatedFrame, TtlFrame DEF UInv, ReceiveEvent, serverVars, resumeVars
<1>2. \A d \in Conns : Responses(toClient'[d]) \subseteq Responses(toClient[d])
  BY ResponseRead DEF ReceiveEvent, IInv, TypeOK, NetTypeOK
<1>3. Answers'
  BY <1>2, AnswersFrame DEF UInv, ReceiveEvent, serverVars
<1> QED
  BY <1>1, <1>3 DEF UInv

\* A response resolves a request that was handled.
LEMMA ReceiveResponseUplink ==
  ASSUME IInv, UInv, NEW c \in Conns, ReceiveResponse(c)
  PROVE  UInv'
<1>1. Flow' /\ Ends' /\ Ttl'
  BY FlowFrame, EndsFrame, TtlFrame DEF UInv, ReceiveResponse, serverVars, resumeVars, historyVars
<1>2. toClient[c] \in Seq(ServerEnvelope) /\ toClient[c] # << >> /\ Head(toClient[c]).kind = "response"
  BY DEF ReceiveResponse, IInv, TypeOK, NetTypeOK
<1>3. \A d \in Conns : Responses(toClient'[d]) \subseteq Responses(toClient[d])
  BY <1>2, ResponseRead DEF ReceiveResponse, IInv, TypeOK, NetTypeOK
<1>4. Answers'
  BY <1>3, AnswersFrame DEF UInv, ReceiveResponse, serverVars, historyVars
<1>5. PICK e : e = Head(toClient[c]).id /\ e \in Elements(handled)
  BY <1>2, ResponseRead DEF UInv, Answers
<1>6. Fated'
  <2>1. \A i \in 1 .. MaxSend : \/ request'[i] = request[i]
                                \/ i = e /\ request[i] = "pending" /\ request'[i] = "resolved"
    BY <1>5 DEF ReceiveResponse, IInv, TypeOK, ClientTypeOK
  <2>2. handled' = handled /\ dropped' = dropped
    BY DEF ReceiveResponse, historyVars
  <2>3. Elements(handled)' = Elements(handled)
    BY <2>2 DEF Elements
  <2> QED
    BY <1>5, <2>1, <2>2, <2>3 DEF UInv, Fated
<1> QED
  BY <1>1, <1>4, <1>6 DEF UInv

\* The client's end closes: the server may still read a prefix of what is under way.
LEMMA HandleCloseUplink == ASSUME IInv, UInv, NEW c \in Conns, HandleClose(c) PROVE UInv'
<1>1. TypeOK
  BY DEF IInv
<1>2. PICK n \in 0 .. Len(toServer[c]) :
        /\ toServer' = [toServer EXCEPT ![c] = SubSeq(@, 1, n)]
        /\ lost' = lost \cup Ids(SubSeq(toServer[c], n + 1, Len(toServer[c])))
  BY DEF HandleClose
<1>3. PICK q \in Seq(ClientEnvelope) : q = toServer[c]
  BY <1>1 DEF TypeOK, NetTypeOK
<1>4. InOrder(q) /\ ResumeFirst(q)
  BY <1>3 DEF UInv, Flow, Queues
<1>5. PICK s, t : s = SubSeq(q, 1, n) /\ t = SubSeq(q, n + 1, Len(q))
  OBVIOUS
<1>6. /\ s \in Seq(ClientEnvelope) /\ Ids(q) = Ids(s) \cup Ids(t)
      /\ InOrder(s) /\ ResumeFirst(s)
      /\ \A x \in Ids(s), y \in Ids(t) : x < y
  BY <1>2, <1>3, <1>4, <1>5, CutOff
<1>7. Ids(t) = Ids(q) \ Ids(s)
  <2>1. \A x \in Ids(s) : x \in Nat /\ ~(x < x)
    BY <1>6, IdsType
  <2> QED
    BY <1>6, <2>1
<1>8. toServer' = [toServer EXCEPT ![c] = s] /\ lost' = lost \cup (Ids(toServer[c]) \ Ids(s))
  BY <1>2, <1>3, <1>5, <1>7
<1>9. Flow'
  BY <1>1, <1>3, <1>6, <1>8, LossFlow DEF HandleClose
<1>10. Fated' /\ Ttl'
  BY FatedFrame, TtlFrame DEF UInv, HandleClose, serverVars, resumeVars
<1>11. Answers'
  <2>1. \A d \in Conns : Responses(toClient'[d]) \subseteq Responses(toClient[d])
    BY <1>1, NoResponses DEF HandleClose, TypeOK, NetTypeOK
  <2> QED
    BY <2>1, AnswersFrame DEF UInv, HandleClose, serverVars
<1>12. Ends'
  <2>1. q = << >> => s = << >>
    <3>1. ASSUME q = << >> PROVE s = << >>
      <4>1. Len(q) = 0 /\ n = 0
        BY <1>2, <1>3, <3>1, EmptySeq
      <4>2. Len(s) = 0
        BY <1>5, <4>1, SubSeqProperties
      <4> QED
        BY <1>6, <4>2, EmptySeq
    <3> QED
      BY <3>1
  <2>2. /\ \A d \in Conns : toServer'[d] = IF d = c THEN s ELSE toServer[d]
        /\ \A d \in Conns : readyState'[d] = IF d = c THEN "closed" ELSE readyState[d]
        /\ UNCHANGED <<ws, up, outbox>>
    BY <1>1, <1>8 DEF HandleClose, serverVars, TypeOK, NetTypeOK, ClientTypeOK
  <2>3. isOpen' => isOpen
    <3>1. ws # NoConn => ws \in Conns
      BY <1>1, ConstantsAssumption DEF ConstantsAssumption, TypeOK, ClientTypeOK, NoConn, Conns
    <3> QED
      BY <2>2, <3>1 DEF isOpen
  <2> QED
    BY <1>3, <2>1, <2>2, <2>3 DEF UInv, Ends
<1> QED
  BY <1>9, <1>10, <1>11, <1>12 DEF UInv

\* A connection is accepted: with closes noticed in time it is the only one, and cancels
\* the TTL timer.
LEMMA AcceptUplink == ASSUME IInv, UInv, NEW c \in Conns, Accept(c) PROVE UInv'
<1>1. TypeOK
  BY DEF IInv
<1>2. UNCHANGED <<clientVars, toServer, answering, sent, handled, dropped, lost>>
  BY DEF Accept
<1>3. Flow' /\ Answers' /\ Fated'
  <2>1. \A d \in Conns : Responses(toClient'[d]) \subseteq Responses(toClient[d])
    <3>1. CASE Greets
      BY <1>1, <3>1, GreetResponses DEF Accept
    <3>2. CASE ~Greets
      BY <3>2, SameResponses DEF Accept
    <3> QED
      BY <3>1, <3>2
  <2> QED
    BY <1>2, <2>1, FlowFrame, AnswersFrame, FatedFrame DEF UInv, clientVars
<1>4. /\ up[c] = "none" /\ \A d \in Conns : up'[d] = IF d = c THEN "open" ELSE up[d]
      /\ ~HalfOpen => \A d \in Conns : up[d] # "open"
  BY <1>1 DEF Accept, TypeOK, ServerTypeOK
<1>5. Ends'
  <2>1. UNCHANGED <<readyState, ws, outbox, toServer>>
    BY <1>2 DEF clientVars
  <2>2. isOpen' <=> isOpen
    BY <2>1 DEF isOpen
  <2> QED
    BY <1>4, <2>1, <2>2 DEF UInv, Ends
<1>6. Ttl'
  <2>1. CASE registry # NoConn
    <3>1. Rebind(c)
      BY <2>1 DEF Accept
    <3>2. registry # c /\ registry \in Conns
      BY <1>1, <1>4, <2>1 DEF IInv, Accepted, TypeOK, ResumeTypeOK
    <3>3. registry' = registry /\ rsOf'[registry] = registry
      BY <1>1, <2>1, <3>1, <3>2 DEF Rebind, UInv, Ttl, TypeOK, ServerTypeOK
    <3>4. ~HalfOpen => timers' = {}
      BY <3>1 DEF Rebind, UInv, Ttl
    <3> QED
      BY <1>4, <2>1, <3>3, <3>4 DEF Ttl
  <2>2. CASE registry = NoConn
    <3>1. Register(c)
      BY <2>2 DEF Accept
    <3>2. registry' = c /\ rsOf'[c] = c /\ registry' # NoConn
      BY <1>1, <3>1 DEF Register, TypeOK, ServerTypeOK, NoConn, Conns
    <3>3. ~HalfOpen => timers' = {}
      BY <2>2, <3>1 DEF Register, UInv, Ttl
    <3> QED
      BY <1>4, <3>2, <3>3 DEF Ttl
  <2> QED
    BY <2>1, <2>2
<1> QED
  BY <1>3, <1>5, <1>6 DEF UInv

\* Events bring no response, and leave the uplink alone.
LEMMA EmitUplink == ASSUME IInv, UInv, NEW r \in Conns, Emit(r) PROVE UInv'
<1>1. TypeOK
  BY DEF IInv
<1>2. Flow' /\ Ends' /\ Fated' /\ Ttl'
  BY FlowFrame, EndsFrame, FatedFrame, TtlFrame DEF UInv, Emit, clientVars
<1>3. PICK evs \in Seq(Event) : InnerEmit(inner[r], evs)
  <2>1. emitted + 1 \in Event
    BY <1>1 DEF Event, TypeOK, HistoryTypeOK
  <2>2. <<emitted + 1>> \in Seq(Event)
    BY <2>1
  <2>3. InnerEmit(inner[r], <<emitted + 1>>)
    BY DEF Emit, RsEmit
  <2> QED
    BY <2>2, <2>3
<1>4. \A d \in Conns : Responses(toClient'[d]) \subseteq Responses(toClient[d])
  BY <1>1, <1>3, EmitResponses
<1>5. Answers'
  BY <1>4, AnswersFrame DEF UInv, Emit
<1> QED
  BY <1>2, <1>5 DEF UInv

\* What the server reads is gone from the connection.
LEMMA ReceivesEnds ==
  ASSUME TypeOK, Ends, NEW c \in Conns, NEW kind, Receives(c, kind),
         UNCHANGED <<readyState, up, ws, outbox>>
  PROVE  Ends'
<1>1. /\ toServer[c] # << >> /\ up[c] = "open"
      /\ \A d \in Conns : d # c => toServer'[d] = toServer[d]
  BY DEF Receives, TypeOK, NetTypeOK
<1>2. isOpen' <=> isOpen
  BY DEF isOpen
<1> QED
  BY <1>1, <1>2 DEF Ends

\* resume brings events only.
LEMMA HandleResumeUplink == ASSUME IInv, UInv, NEW c \in Conns, HandleResume(c) PROVE UInv'
<1>1. TypeOK
  BY DEF IInv
<1>2. /\ Receives(c, "resume")
      /\ UNCHANGED <<clientVars, up, rsOf, answering, registry, timers, ttlTimer, historyVars>>
  BY DEF HandleResume
<1>3. PICK q \in Seq(ClientEnvelope) : q = toServer[c] /\ q # << >>
  BY <1>1, <1>2 DEF Receives, TypeOK, NetTypeOK
<1>4. PICK s \in Seq(ClientEnvelope) :
        /\ s = Tail(q) /\ Ids(q) = Ids(<<Head(q)>>) \cup Ids(s)
        /\ InOrder(q) => InOrder(s)
        /\ ResumeFirst(q) => NoResume(s)
  BY <1>3, FirstOff
<1>5. /\ Ids(s) = Ids(q) /\ InOrder(s) /\ ResumeFirst(s)
  <2>1. Head(q) \in ClientEnvelope /\ Head(q).kind = "resume"
    BY <1>2, <1>3, FirstOff DEF Receives
  <2>2. Ids(<<Head(q)>>) = {}
    BY <2>1, OneEnvelope
  <2>3. InOrder(q) /\ ResumeFirst(q)
    BY <1>3 DEF UInv, Flow, Queues
  <2>4. Ids(s) = Ids(q) /\ InOrder(s) /\ NoResume(s)
    BY <1>4, <2>2, <2>3
  <2> QED
    BY <2>4 DEF NoResume, ResumeFirst
<1>6. Flow'
  <2>1. toServer' = [toServer EXCEPT ![c] = s] /\ lost' = lost \cup (Ids(toServer[c]) \ Ids(s))
    BY <1>2, <1>3, <1>4, <1>5 DEF Receives, historyVars
  <2> QED
    BY <1>1, <1>2, <1>3, <1>5, <2>1, LossFlow DEF clientVars, historyVars
<1>7. Ends' /\ Fated' /\ Ttl'
  BY <1>1, <1>2, ReceivesEnds, FatedFrame, TtlFrame DEF UInv, clientVars, historyVars
<1>8. PICK evs \in Seq(Event) : InnerEmit(inner[rsOf[c]], evs)
  <2>1. rsOf[c] \in Conns
    <3>1. up[c] # "none"
      BY <1>2 DEF Receives
    <3>2. rsOf[c] \in 1 .. c
      BY <3>1 DEF IInv, NewestIsBound
    <3> QED
      BY <3>2, ConstantsAssumption DEF ConstantsAssumption, Conns
  <2>2. Head(toServer[c]).lastSeq \in Nat
    <3>1. Head(toServer[c]) \in ClientEnvelope /\ Head(toServer[c]).kind = "resume"
      BY <1>1, <1>2, ReceivesType
    <3> QED
      BY <3>1 DEF ClientEnvelope, Queued
  <2>3. CASE Gap(rsOf[c], Head(toServer[c]).lastSeq)
    <3>1. InnerEmit(inner[rsOf[c]], <<Refresh>>)
      BY <2>3 DEF HandleResume, RsEmit
    <3>2. <<Refresh>> \in Seq(Event)
      BY DEF Refresh, Event
    <3> QED
      BY <3>1, <3>2
  <2>4. CASE ~Gap(rsOf[c], Head(toServer[c]).lastSeq)
    <3>1. InnerEmit(inner[rsOf[c]], Replayed(rsOf[c], Head(toServer[c]).lastSeq))
      BY <2>4 DEF HandleResume
    <3> QED
      BY <2>1, <2>2, <2>4, <3>1, ReplayedLength
  <2> QED
    BY <2>3, <2>4
<1>9. Answers'
  <2>1. \A d \in Conns : Responses(toClient'[d]) \subseteq Responses(toClient[d])
    BY <1>1, <1>8, EmitResponses
  <2> QED
    BY <1>2, <2>1, AnswersFrame DEF UInv, historyVars
<1> QED
  BY <1>6, <1>7, <1>9 DEF UInv

\* A listener takes an envelope.
LEMMA HandleEventUplink == ASSUME IInv, UInv, NEW c \in Conns, HandleEvent(c) PROVE UInv'
<1>1. TypeOK
  BY DEF IInv
<1>2. /\ Receives(c, "event") /\ handled' = Append(handled, Head(toServer[c]).id)
      /\ UNCHANGED <<clientVars, toClient, serverVars, resumeVars, sent, dropped, lost>>
  BY DEF HandleEvent
<1>3. Flow' /\ Elements(handled) \subseteq Elements(handled')
  BY <1>1, <1>2, ReadFlow DEF clientVars
<1>4. Ends' /\ Fated' /\ Ttl' /\ Answers'
  BY <1>1, <1>2, <1>3, ReceivesEnds, FatedFrame, TtlFrame, SameResponses, AnswersFrame
     DEF UInv, clientVars, serverVars, resumeVars
<1> QED
  BY <1>3, <1>4 DEF UInv

LEMMA HandleRequestUplink == ASSUME IInv, UInv, NEW c \in Conns, HandleRequest(c) PROVE UInv'
<1>1. TypeOK
  BY DEF IInv
<1>2. /\ Receives(c, "request") /\ handled' = Append(handled, Head(toServer[c]).id)
      /\ UNCHANGED <<clientVars, toClient, up, rsOf, resumeVars, sent, dropped, lost>>
      /\ answering' \in {answering, answering \cup {<<c, Head(toServer[c]).id>>}}
  BY DEF HandleRequest
<1>3. Flow' /\ Elements(handled') = Elements(handled) \cup {Head(toServer[c]).id}
  BY <1>1, <1>2, ReadFlow DEF clientVars
<1>4. Ends' /\ Fated' /\ Ttl'
  BY <1>1, <1>2, <1>3, ReceivesEnds, FatedFrame, TtlFrame DEF UInv, clientVars, resumeVars
<1>5. Answers'
  <2>1. \A d \in Conns : Responses(toClient'[d]) \subseteq Elements(handled')
    BY <1>2, <1>3, SameResponses DEF UInv, Answers
  <2>2. \A p \in answering' : p[2] \in Elements(handled')
    BY <1>2, <1>3 DEF UInv, Answers
  <2> QED
    BY <2>1, <2>2 DEF Answers, Responses, Elements
<1> QED
  BY <1>3, <1>4, <1>5 DEF UInv

\* An answer leaves on the connection of its request.
LEMMA RespondUplink ==
  ASSUME IInv, UInv, NEW c \in Conns, NEW id \in 1 .. MaxSend, Respond(c, id)
  PROVE  UInv'
<1>1. Flow' /\ Ends' /\ Fated' /\ Ttl'
  BY FlowFrame, EndsFrame, FatedFrame, TtlFrame DEF UInv, Respond, clientVars, resumeVars, historyVars
<1>2. Answers'
  BY RespondAnswers DEF IInv, UInv
<1> QED
  BY <1>1, <1>2 DEF UInv

\* The server's end closes: what it has not read is lost, and its TTL timer starts.
LEMMA ServerCloseUplink == ASSUME IInv, UInv, NEW c \in Conns, ServerClose(c) PROVE UInv'
<1>1. TypeOK
  BY DEF IInv
<1>2. /\ up[c] = "open" /\ toServer' = [toServer EXCEPT ![c] = << >>]
      /\ lost' = lost \cup Ids(toServer[c])
      /\ UNCHANGED <<clientVars, toClient, answering, rsOf, registry, sent, handled, dropped>>
      /\ timers' = timers \cup {c} /\ ttlTimer' = c
  BY DEF ServerClose
<1>3. Flow'
  <2>1. PICK s \in Seq(ClientEnvelope) : s = << >> /\ Ids(s) = {} /\ InOrder(s) /\ ResumeFirst(s)
    BY EmptyQueue
  <2>2. toServer' = [toServer EXCEPT ![c] = s] /\ lost' = lost \cup (Ids(toServer[c]) \ Ids(s))
    BY <1>2, <2>1
  <2> QED
    BY <1>1, <1>2, <2>1, <2>2, LossFlow DEF clientVars
<1>4. Answers' /\ Fated'
  BY <1>2, SameResponses, AnswersFrame, FatedFrame DEF UInv, clientVars
<1>5. \A d \in Conns : up'[d] = IF d = c THEN "closed" ELSE up[d]
  BY <1>1 DEF ServerClose, TypeOK, ServerTypeOK
<1>6. Ends'
  <2>1. /\ UNCHANGED <<readyState, ws, outbox>>
        /\ \A d \in Conns : toServer'[d] = IF d = c THEN << >> ELSE toServer[d]
    BY <1>1, <1>2 DEF clientVars, TypeOK, NetTypeOK
  <2>2. isOpen' <=> isOpen
    BY <2>1 DEF isOpen
  <2> QED
    BY <1>5, <2>1, <2>2 DEF UInv, Ends
<1>7. Ttl'
  <2>1. ~HalfOpen => /\ timers = {} /\ registry # NoConn
                     /\ \A d \in Conns : up[d] = "open" => d = c
    BY <1>2 DEF UInv, Ttl
  <2> QED
    BY <1>2, <1>5, <2>1 DEF UInv, Ttl
<1> QED
  BY <1>3, <1>4, <1>6, <1>7 DEF UInv

\* With closes noticed in time a TTL timer fires only when nobody is connected.
LEMMA ExpireUplink == ASSUME IInv, UInv, NEW c \in Conns, Expire(c) PROVE UInv'
<1>1. Flow' /\ Ends' /\ Fated' /\ Answers'
  BY FlowFrame, EndsFrame, FatedFrame, SameResponses, AnswersFrame
     DEF UInv, Expire, clientVars, netVars, serverVars, historyVars
<1>2. Ttl'
  <2>1. /\ c \in timers /\ timers' = timers \ {c} /\ ttlTimer' = NoConn /\ registry' = NoConn
        /\ UNCHANGED <<up, rsOf>>
    BY DEF Expire, serverVars
  <2>2. ~HalfOpen => timers' = {} /\ \A d \in Conns : up[d] # "open"
    BY <2>1 DEF UInv, Ttl
  <2> QED
    BY <2>1, <2>2 DEF UInv, Ttl
<1> QED
  BY <1>1, <1>2 DEF UInv

-----------------------------------------------------------------------------
LEMMA InitUplink == Init => UInv
<1> SUFFICES ASSUME Init PROVE UInv
  OBVIOUS
<1>1. /\ outbox = << >> /\ handled = << >> /\ dropped = {} /\ lost = {} /\ sent = 0
      /\ request = [i \in 1 .. MaxSend |-> "none"]
      /\ answering = {} /\ registry = NoConn /\ timers = {}
      /\ \A c \in Conns : /\ toServer[c] = << >> /\ toClient[c] = << >>
                          /\ readyState[c] = "none" /\ up[c] = "none"
  BY DEF Init
<1>2. InFlight = {} /\ Ids(outbox) = {} /\ Elements(handled) = {}
  BY <1>1, EmptyQueue DEF InFlight
<1>3. DOMAIN handled = {}
  BY <1>1, EmptySeq
<1>4. Queues
  BY <1>1, EmptyQueue DEF Queues
<1>5. Places
  <2>1. 1 .. 0 = {}
    OBVIOUS
  <2> QED
    BY <1>1, <1>2, <1>3, <2>1 DEF Places, Apart, Distinct
<1>6. Sequel
  BY <1>2, <1>3 DEF Sequel
<1>7. Ends
  BY <1>1 DEF Ends
<1>8. Answers
  BY <1>1, NoResponses DEF Answers
<1>9. Fated
  BY <1>1 DEF Fated
<1>10. Ttl
  BY <1>1 DEF Ttl
<1> QED
  BY <1>4, <1>5, <1>6, <1>7, <1>8, <1>9, <1>10 DEF UInv, Flow

LEMMA NextUplink == IInv /\ UInv /\ [Next]_vars => UInv'
<1> SUFFICES ASSUME IInv, UInv, [Next]_vars PROVE UInv'
  OBVIOUS
<1>1. ASSUME Connect \/ Reconnect PROVE UInv'
  BY <1>1, OpenSocketUplink DEF Connect, Reconnect
<1>2. ASSUME Client PROVE UInv'
  BY <1>1, <1>2, DisconnectUplink, SendUplink, HandleOpenUplink, ReceiveEventUplink,
     ReceiveResponseUplink, HandleCloseUplink DEF Client
<1>3. ASSUME Server PROVE UInv'
  BY <1>3, AcceptUplink, EmitUplink, ServerCloseUplink, ExpireUplink, HandleResumeUplink,
     HandleEventUplink, HandleRequestUplink, RespondUplink DEF Server
<1>4. ASSUME UNCHANGED vars PROVE UInv'
  BY <1>4, FlowFrame, EndsFrame, FatedFrame, TtlFrame, SameResponses, AnswersFrame
     DEF UInv, vars, clientVars, netVars, serverVars, resumeVars, historyVars
<1> QED
  BY <1>2, <1>3, <1>4 DEF Next

\* The invariant of the uplink holds of every reachable state.
THEOREM UplinkInvariance == Spec => []UInv
<1>1. Init => UInv
  BY InitUplink
<1>2. IInv /\ UInv /\ [Next]_vars => UInv'
  BY NextUplink
<1> QED
  BY <1>1, <1>2, Invariance, PTL DEF Spec

\* Among the envelopes of a queue none is there twice.
LEMMA OrderedAreDistinct ==
  ASSUME NEW s \in Seq(ClientEnvelope), InOrder(s), ResumeFirst(s)
  PROVE  Distinct(s)
<1>1. PICK n \in Nat : n = Len(s) /\ DOMAIN s = 1 .. n
  BY LenProperties
<1>2. ASSUME NEW i \in 1 .. n, NEW j \in 1 .. n, i < j, s[i] = s[j] PROVE FALSE
  <2>1. j # 1
    BY <1>2
  <2>2. s[i].kind # "resume" /\ s[j].kind # "resume"
    BY <1>1, <1>2, <2>1 DEF ResumeFirst
  <2>3. s[i].id < s[j].id
    BY <1>1, <1>2, <2>2 DEF InOrder
  <2>4. s[i] \in ClientEnvelope
    BY <1>1, ElementOfSeq
  <2>5. s[i].id \in Nat
    BY <2>2, <2>4 DEF ClientEnvelope, Queued
  <2> QED
    BY <1>2, <2>3, <2>5
<1>3. \A i, j \in 1 .. n : i # j => i < j \/ j < i
  OBVIOUS
<1> QED
  BY <1>1, <1>2, <1>3 DEF Distinct

\* What the invariant says of the places is what EnvelopesOnceInOrder says of them.
LEMMA OnceInOrder == IInv /\ UInv => EnvelopesOnceInOrder
<1> SUFFICES ASSUME IInv, UInv PROVE EnvelopesOnceInOrder
  OBVIOUS
<1>1. TypeOK
  BY DEF IInv
<1>2. outbox \in Seq(ClientEnvelope) /\ NoResume(outbox) /\ Ids(outbox) = {outbox[i].id : i \in DOMAIN outbox}
  BY <1>1, QueuedAreEnvelopes DEF TypeOK, ClientTypeOK
<1> DEFINE Q == {outbox[i].id : i \in DOMAIN outbox}
           H == Elements(handled)
           places == <<Q, InFlight, H, dropped, lost>>
<1>3. /\ Q \cup InFlight \cup H \cup dropped \cup lost = 1 .. sent
      /\ Apart(Q, InFlight, H, dropped, lost)
  BY <1>2 DEF UInv, Flow, Places
<1> HIDE DEF Q, H
<1>4. UNION Elements(places) = 1 .. sent
  <2>1. /\ DOMAIN places = 1 .. 5
        /\ places[1] = Q /\ places[2] = InFlight /\ places[3] = H
        /\ places[4] = dropped /\ places[5] = lost
    OBVIOUS
  <2> HIDE DEF places
  <2>2. \A i \in 1 .. 5 : i = 1 \/ i = 2 \/ i = 3 \/ i = 4 \/ i = 5
    OBVIOUS
  <2>3. Elements(places) = {Q, InFlight, H, dropped, lost}
    BY <2>1, <2>2 DEF Elements
  <2>4. UNION {Q, InFlight, H, dropped, lost} = Q \cup InFlight \cup H \cup dropped \cup lost
    OBVIOUS
  <2> QED
    BY <1>3, <2>3, <2>4
<1>5. \A i, j \in DOMAIN places : i # j => places[i] \cap places[j] = {}
  <2>1. /\ DOMAIN places = 1 .. 5
        /\ places[1] = Q /\ places[2] = InFlight /\ places[3] = H
        /\ places[4] = dropped /\ places[5] = lost
    OBVIOUS
  <2> HIDE DEF places
  <2>2. \A i \in 1 .. 5 : i = 1 \/ i = 2 \/ i = 3 \/ i = 4 \/ i = 5
    OBVIOUS
  <2>3. ASSUME NEW i \in 1 .. 5, NEW j \in 1 .. 5, i < j PROVE places[i] \cap places[j] = {}
    BY <1>3, <2>1, <2>2, <2>3 DEF Apart
  <2>4. \A i, j \in 1 .. 5 : i # j => i < j \/ j < i
    OBVIOUS
  <2> QED
    BY <2>1, <2>3, <2>4
<1>6. Distinct(handled) /\ Distinct(outbox)
  <2>1. InOrder(outbox) /\ ResumeFirst(outbox)
    BY <1>2 DEF UInv, Flow, Queues, NoResume, ResumeFirst
  <2> QED
    BY <1>2, <2>1, OrderedAreDistinct DEF UInv, Flow, Places
<1>7. \A c, d \in Conns : /\ Distinct(toServer[c])
                          /\ c # d => Ids(toServer[c]) \cap Ids(toServer[d]) = {}
  BY <1>1, OrderedAreDistinct DEF UInv, Flow, Queues, TypeOK, NetTypeOK
<1>8. EveryEnvelopeOnce
  BY <1>4, <1>5, <1>6, <1>7 DEF EveryEnvelopeOnce, Q, H
<1>9. HandledInOrder
  BY DEF UInv, Flow, Sequel, HandledInOrder
<1> QED
  BY <1>8, <1>9 DEF EnvelopesOnceInOrder

\* Whatever connections come and go, an envelope the application sent is in exactly one
\* place and is handled at most once; when the server notices each close before it
\* accepts the next connection, in the order of sending.
THEOREM Uplink == Spec => []EnvelopesOnceInOrder
BY Invariance, UplinkInvariance, OnceInOrder, PTL

\* A resolved request was handled, and one that was dropped never is: the outbox does not
\* report as failed what the server performs.
THEOREM Outcomes == Spec => []OutcomeMatchesExecution
<1>1. UInv => OutcomeMatchesExecution
  BY DEF UInv, Fated, Flow, Places, Apart, OutcomeMatchesExecution
<1> QED
  BY <1>1, UplinkInvariance, PTL

-----------------------------------------------------------------------------
(* The registration of a session *)

\* The step of ExpiresOnlyWhenGone.
LEMMA ExpiresWhenGone ==
  ASSUME IInv, UInv, Next, ~HalfOpen, registry # NoConn, registry' = NoConn
  PROVE  up[inner[registry]] # "open"
<1>1. PICK c \in Conns : Expire(c)
  <2>1. \A c \in Conns : ~Accept(c)
    BY DEF Accept, Rebind
  <2>2. Client => registry' = registry
    BY DEF Client, Connect, Reconnect, Disconnect, Send, HandleOpen, ReceiveEvent,
           ReceiveResponse, HandleClose, resumeVars
  <2>3. ASSUME NEW c \in Conns,
               Emit(c) \/ ServerClose(c) \/ HandleResume(c) \/ HandleEvent(c) \/ HandleRequest(c)
                 \/ \E id \in 1 .. MaxSend : Respond(c, id)
        PROVE  registry' = registry
    BY <2>3 DEF Emit, ServerClose, HandleResume, HandleEvent, HandleRequest, Respond, resumeVars
  <2> QED
    BY <2>1, <2>2, <2>3 DEF Next, Server
<1>2. c \in timers
  BY <1>1 DEF Expire
<1>3. \A d \in Conns : up[d] # "open"
  BY <1>2 DEF UInv, Ttl
<1>4. inner[registry] \in Conns
  <2>1. registry \in Conns /\ up[registry] # "none" /\ rsOf[registry] = registry
    BY DEF IInv, TypeOK, ResumeTypeOK, Accepted, UInv, Ttl
  <2>2. inner[registry] \in registry .. MaxConn
    BY <2>1 DEF IInv, NewestIsBound
  <2> QED
    BY <2>1, <2>2, ConstantsAssumption DEF ConstantsAssumption, Conns
<1> QED
  BY <1>3, <1>4

\* The TTL never takes the registration of a client that is connected, when the server
\* notices each close before it accepts the next connection.
THEOREM TtlSparesTheConnected == Spec => ExpiresOnlyWhenGone
<1>1. IInv /\ UInv /\ [Next]_vars =>
        [~HalfOpen /\ registry # NoConn /\ registry' = NoConn => up[inner[registry]] # "open"]_vars
  BY ExpiresWhenGone
<1> QED
  BY <1>1, Invariance, UplinkInvariance, PTL DEF Spec, ExpiresOnlyWhenGone
-----------------------------------------------------------------------------
(* What a client that returns has missed *)

\* The events among the envelopes of a queue.
EventsOf(q) == {q[i].ev : i \in {j \in DOMAIN q : q[j].kind = "event"}}

\* They are numbered m + 1 .. n, in this order.
Runs(q, m, n) ==
  /\ \A i \in DOMAIN q : q[i].kind = "event" => q[i].seq \in m + 1 .. n
  /\ \A k \in m + 1 .. n : \E i \in DOMAIN q : q[i].kind = "event" /\ q[i].seq = k
  /\ \A i, j \in DOMAIN q : i < j /\ q[i].kind = "event" /\ q[j].kind = "event" => q[i].seq < q[j].seq

\* The resume of c was handled, and no refresh came or is coming.
Served(c) ==
  /\ readyState[c] = "open" /\ up[c] = "open" /\ NoResume(toServer[c])
  /\ Refresh \notin Elements(delivered) \cup EventsOf(toClient[c])

\* Of the events of connection c the client has read m, and with those under way it will
\* have been told as many as the ResumableSocket of c has emitted.
Reading(c, m) ==
  /\ m <= connSeq[c] /\ m <= Len(delivered)
  /\ Runs(toClient[c], m, connSeq[c])
  /\ Served(c) => Len(delivered) + (connSeq[c] - m) >= nextSeq[rsOf[c]]

\* Of e events emitted, n by a ResumableSocket with ring buffer b: an event has no higher
\* number than its place in the buffer, and what is not in the buffer came before its first
\* place.
Holding(b, n, e) ==
  /\ e <= n
  /\ \A i \in DOMAIN b : b[i].ev <= b[i].seq
  /\ \A x \in 1 .. e : \/ \E i \in DOMAIN b : b[i].ev = x
                       \/ b # << >> /\ x < b[1].seq

Holds(r) == Holding(buffer[r], nextSeq[r], emitted)

\* The client reports what it has counted.
Reports ==
  /\ reported <= lastSeq /\ lastSeq <= Len(delivered)
  /\ \A c \in Conns : \A i \in DOMAIN toServer[c] :
       toServer[c][i].kind = "resume" => toServer[c][i].lastSeq <= reported

\* Whatever is stored, under way or delivered was emitted, and on an accepted connection.
Sources ==
  /\ (\A c \in Conns : up[c] = "none") => emitted = 0
  /\ \A c \in Conns : /\ up[c] = "none" => nextSeq[c] = 0
                      /\ up[c] # "none" => up[rsOf[c]] # "none"
                      /\ EventsOf(toClient[c]) \subseteq 0 .. emitted
                      /\ \A i \in DOMAIN buffer[c] : buffer[c][i].ev <= emitted
  /\ Elements(delivered) \subseteq 0 .. emitted

\* Above what was reported nothing is missing, once the resume was handled.
Complete(c) ==
  Served(c) => \A e \in 1 .. emitted :
    e <= reported \/ e \in Elements(delivered) \cup EventsOf(toClient[c])

\* The inductive invariant, with IInv and UInv.
DInv ==
  /\ Reports /\ Sources
  /\ \A c \in Conns : readyState[c] # "closed" => \E m \in Nat : Reading(c, m)
  /\ SameSession => \A c \in Conns : Complete(c) /\ (up[c] # "none" => Holds(rsOf[c]))

\* What is an event of a queue.
LEMMA EventOf ==
  ASSUME NEW q, NEW x
  PROVE  x \in EventsOf(q) <=> \E i \in DOMAIN q : q[i].kind = "event" /\ q[i].ev = x
BY DEF EventsOf

\* Where there is no event.
LEMMA NoEvents ==
  ASSUME NEW q, \A i \in DOMAIN q : q[i].kind # "event", NEW n \in Nat
  PROVE  EventsOf(q) = {} /\ Runs(q, n, n)
<1>1. n + 1 .. n = {}
  OBVIOUS
<1> QED
  BY <1>1 DEF EventsOf, Runs

\* The empty queue.
LEMMA NoneWaits == EventsOf(<< >>) = {} /\ \A n \in Nat : Runs(<< >>, n, n)
<1>1. DOMAIN << >> = {}
  BY EmptySeq
<1> QED
  BY <1>1, NoEvents

\* One queue behind another.
LEMMA EventsBehind ==
  ASSUME NEW s \in Seq(ServerEnvelope), NEW t \in Seq(ServerEnvelope),
         NEW k \in Nat, NEW l \in Nat, NEW p \in Nat
  PROVE  /\ EventsOf(s \o t) = EventsOf(s) \cup EventsOf(t)
         /\ k <= l /\ l <= p /\ Runs(s, k, l) /\ Runs(t, l, p) => Runs(s \o t, k, p)
<1> DEFINE u == s \o t
<1>1. PICK m \in Nat : m = Len(s)
  BY LenProperties
<1>2. PICK n \in Nat : n = Len(t)
  BY LenProperties
<1>3. /\ DOMAIN s = 1 .. m /\ DOMAIN t = 1 .. n
      /\ u \in Seq(ServerEnvelope) /\ DOMAIN u = 1 .. (m + n)
      /\ \A i \in 1 .. (m + n) : u[i] = IF i <= m THEN s[i] ELSE t[i - m]
  BY <1>1, <1>2, LenProperties, ConcatProperties
<1> HIDE DEF u
<1>4. ASSUME NEW i \in 1 .. m PROVE i \in 1 .. (m + n) /\ u[i] = s[i]
  BY <1>3
<1>5. ASSUME NEW j \in 1 .. n
      PROVE  \E h \in 1 .. (m + n) : h = m + j /\ u[h] = t[j]
  <2>1. m + j \in 1 .. (m + n) /\ ~(m + j <= m) /\ (m + j) - m = j
    OBVIOUS
  <2> QED
    BY <1>3, <2>1
<1>6. ASSUME NEW h \in 1 .. (m + n)
      PROVE  \/ h \in 1 .. m /\ u[h] = s[h]
             \/ \E j \in 1 .. n : h = m + j /\ u[h] = t[j]
  <2>1. CASE h <= m
    BY <1>3, <2>1
  <2>2. CASE ~(h <= m)
    <3>1. h - m \in 1 .. n /\ h = m + (h - m)
      BY <2>2
    <3> QED
      BY <1>3, <2>2, <3>1
  <2> QED
    BY <2>1, <2>2
<1>7. EventsOf(u) = EventsOf(s) \cup EventsOf(t)
  <2>1. ASSUME NEW x \in EventsOf(u) PROVE x \in EventsOf(s) \cup EventsOf(t)
    <3>1. PICK h \in 1 .. (m + n) : u[h].kind = "event" /\ u[h].ev = x
      BY <1>3, EventOf
    <3> QED
      BY <1>3, <1>6, <3>1, EventOf
  <2>2. ASSUME NEW x \in EventsOf(s) PROVE x \in EventsOf(u)
    <3>1. PICK h \in 1 .. m : s[h].kind = "event" /\ s[h].ev = x
      BY <1>3, EventOf
    <3> QED
      BY <1>3, <1>4, <3>1, EventOf
  <2>3. ASSUME NEW x \in EventsOf(t) PROVE x \in EventsOf(u)
    <3>1. PICK j \in 1 .. n : t[j].kind = "event" /\ t[j].ev = x
      BY <1>3, EventOf
    <3>2. PICK h \in 1 .. (m + n) : u[h] = t[j]
      BY <1>5
    <3> QED
      BY <1>3, <3>1, <3>2, EventOf
  <2> QED
    BY <2>1, <2>2, <2>3
<1>8. ASSUME k <= l, l <= p, Runs(s, k, l), Runs(t, l, p) PROVE Runs(u, k, p)
  <2>1. /\ \A i \in 1 .. m : s[i].kind = "event" => s[i].seq \in k + 1 .. l
        /\ \A x \in k + 1 .. l : \E i \in 1 .. m : s[i].kind = "event" /\ s[i].seq = x
        /\ \A i, j \in 1 .. m : i < j /\ s[i].kind = "event" /\ s[j].kind = "event" => s[i].seq < s[j].seq
    BY <1>3, <1>8 DEF Runs
  <2>2. /\ \A i \in 1 .. n : t[i].kind = "event" => t[i].seq \in l + 1 .. p
        /\ \A x \in l + 1 .. p : \E i \in 1 .. n : t[i].kind = "event" /\ t[i].seq = x
        /\ \A i, j \in 1 .. n : i < j /\ t[i].kind = "event" /\ t[j].kind = "event" => t[i].seq < t[j].seq
    BY <1>3, <1>8 DEF Runs
  <2>3. ASSUME NEW h \in 1 .. (m + n), u[h].kind = "event"
        PROVE  \/ h \in 1 .. m /\ u[h] = s[h] /\ u[h].seq \in k + 1 .. l
               \/ \E j \in 1 .. n : h = m + j /\ u[h] = t[j] /\ u[h].seq \in l + 1 .. p
    <3>1. CASE h \in 1 .. m /\ u[h] = s[h]
      <4>1. s[h].seq \in k + 1 .. l
        BY <2>1, <2>3, <3>1
      <4> QED
        BY <3>1, <4>1
    <3>2. ASSUME NEW j \in 1 .. n, h = m + j, u[h] = t[j] PROVE u[h].seq \in l + 1 .. p
      <4>1. t[j].seq \in l + 1 .. p
        BY <2>2, <2>3, <3>2
      <4> QED
        BY <3>2, <4>1
    <3> QED
      BY <1>6, <3>1, <3>2
  <2>4. \A h \in 1 .. (m + n) : u[h].kind = "event" => u[h].seq \in k + 1 .. p
    <3>1. k + 1 .. l \subseteq k + 1 .. p /\ l + 1 .. p \subseteq k + 1 .. p
      BY <1>8
    <3> QED
      BY <2>3, <3>1
  <2>5. ASSUME NEW x \in k + 1 .. p
        PROVE  \E h \in 1 .. (m + n) : u[h].kind = "event" /\ u[h].seq = x
    <3>1. CASE x \in k + 1 .. l
      BY <1>4, <2>1, <3>1
    <3>2. CASE x \in l + 1 .. p
      <4>1. PICK j \in 1 .. n : t[j].kind = "event" /\ t[j].seq = x
        BY <2>2, <3>2
      <4>2. PICK h \in 1 .. (m + n) : u[h] = t[j]
        BY <1>5
      <4> QED
        BY <4>1, <4>2
    <3> QED
      BY <3>1, <3>2
  <2>6. ASSUME NEW i \in 1 .. (m + n), NEW j \in 1 .. (m + n), i < j,
               u[i].kind = "event", u[j].kind = "event"
        PROVE  u[i].seq < u[j].seq
    <3>1. CASE i \in 1 .. m /\ u[i] = s[i] /\ u[i].seq \in k + 1 .. l
      <4>1. CASE j \in 1 .. m /\ u[j] = s[j]
        BY <2>1, <2>6, <3>1, <4>1
      <4>2. CASE u[j].seq \in l + 1 .. p
        <5>1. PICK a \in k + 1 .. l : a = u[i].seq
          BY <3>1
        <5>2. PICK b \in l + 1 .. p : b = u[j].seq
          BY <4>2
        <5>3. a < b
          OBVIOUS
        <5> QED
          BY <5>1, <5>2, <5>3
      <4> QED
        BY <2>3, <2>6, <4>1, <4>2
    <3>2. ASSUME NEW a \in 1 .. n, i = m + a, u[i] = t[a] PROVE u[i].seq < u[j].seq
      <4>1. PICK b \in 1 .. n : j = m + b /\ u[j] = t[b]
        <5>1. ~(j \in 1 .. m)
          BY <2>6, <3>2
        <5> QED
          BY <1>6, <5>1
      <4>2. a < b
        BY <2>6, <3>2, <4>1
      <4> QED
        BY <2>2, <2>6, <3>2, <4>1, <4>2
    <3> QED
      BY <2>3, <2>6, <3>1, <3>2
  <2> QED
    BY <1>3, <2>4, <2>5, <2>6 DEF Runs
<1> QED
  BY <1>7, <1>8 DEF u

\* What is read off, and what is left.
LEMMA EventRead ==
  ASSUME NEW s \in Seq(ServerEnvelope), s # << >>, NEW m \in Nat, NEW n \in Nat
  PROVE  /\ Head(s) \in ServerEnvelope /\ Tail(s) \in Seq(ServerEnvelope)
         /\ Head(s).kind # "event" =>
              EventsOf(s) = EventsOf(Tail(s)) /\ (Runs(s, m, n) => Runs(Tail(s), m, n))
         /\ Head(s).kind = "event" =>
              /\ EventsOf(s) = {Head(s).ev} \cup EventsOf(Tail(s))
              /\ Runs(s, m, n) => Head(s).seq = m + 1 /\ m + 1 <= n /\ Runs(Tail(s), m + 1, n)
<1>1. PICK z \in Nat : z = Len(s) /\ z # 0
  BY EmptySeq, LenProperties
<1>2. PICK t \in Seq(ServerEnvelope) :
        /\ t = Tail(s) /\ DOMAIN t = 1 .. (z - 1)
        /\ \A i \in 1 .. (z - 1) : t[i] = s[i + 1]
  <2> DEFINE w == Tail(s)
  <2>1. /\ w \in Seq(ServerEnvelope) /\ Len(w) = z - 1
        /\ \A i \in 1 .. Len(w) : w[i] = s[i + 1]
    BY <1>1, HeadTailProperties
  <2> HIDE DEF w
  <2>2. DOMAIN w = 1 .. (z - 1)
    BY <2>1, LenProperties
  <2>3. w = Tail(s)
    BY DEF w
  <2> QED
    BY <2>1, <2>2, <2>3
<1>3. PICK x \in ServerEnvelope : x = Head(s) /\ x = s[1] /\ DOMAIN s = 1 .. z /\ 1 \in 1 .. z
  BY <1>1, LenProperties, HeadTailProperties
<1>4. ASSUME NEW i \in 1 .. z, i # 1
      PROVE  \E j \in 1 .. (z - 1) : i = j + 1 /\ s[i] = t[j]
  <2>1. i - 1 \in 1 .. (z - 1) /\ i = (i - 1) + 1
    BY <1>4
  <2> QED
    BY <1>2, <2>1
<1>5. ASSUME NEW j \in 1 .. (z - 1)
      PROVE  \E i \in 1 .. z : i = j + 1 /\ 1 < i /\ s[i] = t[j]
  <2>1. j + 1 \in 1 .. z /\ 1 < j + 1
    BY <1>1
  <2> QED
    BY <1>2, <2>1
<1>6. \A y : y \in EventsOf(s) <=> (x.kind = "event" /\ x.ev = y) \/ y \in EventsOf(t)
  <2>1. ASSUME NEW y \in EventsOf(s) PROVE (x.kind = "event" /\ x.ev = y) \/ y \in EventsOf(t)
    <3>1. \E i \in DOMAIN s : s[i].kind = "event" /\ s[i].ev = y
      BY <2>1, EventOf
    <3>2. PICK i \in 1 .. z : s[i].kind = "event" /\ s[i].ev = y
      BY <1>3, <3>1
    <3>3. CASE i = 1
      BY <1>3, <3>2, <3>3
    <3>4. CASE i # 1
      <4>1. PICK j \in 1 .. (z - 1) : s[i] = t[j]
        BY <1>4, <3>4
      <4>2. j \in DOMAIN t /\ t[j].kind = "event" /\ t[j].ev = y
        BY <1>2, <3>2, <4>1
      <4> QED
        BY <4>2, EventOf
    <3> QED
      BY <3>3, <3>4
  <2>2. ASSUME NEW y \in EventsOf(t) PROVE y \in EventsOf(s)
    <3>1. \E j \in DOMAIN t : t[j].kind = "event" /\ t[j].ev = y
      BY <2>2, EventOf
    <3>2. PICK j \in 1 .. (z - 1) : t[j].kind = "event" /\ t[j].ev = y
      BY <1>2, <3>1
    <3>3. PICK i \in 1 .. z : s[i] = t[j]
      BY <1>5
    <3>4. i \in DOMAIN s /\ s[i].kind = "event" /\ s[i].ev = y
      BY <1>3, <3>2, <3>3
    <3> QED
      BY <3>4, EventOf
  <2>3. x.kind = "event" => x.ev \in EventsOf(s)
    BY <1>3, EventOf
  <2> QED
    BY <2>1, <2>2, <2>3
<1>7. ASSUME Runs(s, m, n)
      PROVE  /\ x.kind # "event" => Runs(t, m, n)
             /\ x.kind = "event" => x.seq = m + 1 /\ m + 1 <= n /\ Runs(t, m + 1, n)
  <2>1. /\ \A i \in 1 .. z : s[i].kind = "event" => s[i].seq \in m + 1 .. n
        /\ \A k \in m + 1 .. n : \E i \in 1 .. z : s[i].kind = "event" /\ s[i].seq = k
        /\ \A i, j \in 1 .. z : i < j /\ s[i].kind = "event" /\ s[j].kind = "event" => s[i].seq < s[j].seq
    BY <1>3, <1>7 DEF Runs
  <2>2. \A i, j \in 1 .. (z - 1) :
          i < j /\ t[i].kind = "event" /\ t[j].kind = "event" => t[i].seq < t[j].seq
    <3> SUFFICES ASSUME NEW i \in 1 .. (z - 1), NEW j \in 1 .. (z - 1), i < j,
                        t[i].kind = "event", t[j].kind = "event"
                 PROVE  t[i].seq < t[j].seq
      OBVIOUS
    <3>1. PICK a \in 1 .. z : a = i + 1 /\ s[a] = t[i]
      BY <1>5
    <3>2. PICK b \in 1 .. z : b = j + 1 /\ s[b] = t[j]
      BY <1>5
    <3>3. a < b
      BY <3>1, <3>2
    <3> QED
      BY <2>1, <3>1, <3>2, <3>3
  <2>3. \A j \in 1 .. (z - 1) : t[j].kind = "event" => t[j].seq \in m + 1 .. n
    BY <1>5, <2>1
  <2>4. CASE x.kind # "event"
    <3>1. ASSUME NEW k \in m + 1 .. n
          PROVE  \E j \in 1 .. (z - 1) : t[j].kind = "event" /\ t[j].seq = k
      <4>1. PICK i \in 1 .. z : s[i].kind = "event" /\ s[i].seq = k
        BY <2>1
      <4>2. i # 1
        BY <1>3, <2>4, <4>1
      <4> QED
        BY <1>4, <4>1, <4>2
    <3> QED
      BY <1>2, <2>2, <2>3, <2>4, <3>1 DEF Runs
  <2>5. CASE x.kind = "event"
    <3>1. x.seq \in m + 1 .. n /\ m + 1 <= n /\ m + 1 \in m + 1 .. n
      BY <1>3, <2>1, <2>5
    <3>2. \A j \in 1 .. (z - 1) : t[j].kind = "event" => x.seq < t[j].seq
      BY <1>3, <1>5, <2>1, <2>5
    <3>3. x.seq = m + 1
      <4>1. PICK i \in 1 .. z : s[i].kind = "event" /\ s[i].seq = m + 1
        BY <2>1, <3>1
      <4>2. CASE i = 1
        BY <1>3, <4>1, <4>2
      <4>3. CASE i # 1
        <5>1. PICK j \in 1 .. (z - 1) : s[i] = t[j]
          BY <1>4, <4>3
        <5>2. x.seq < m + 1
          BY <3>2, <4>1, <5>1
        <5> QED
          BY <3>1, <5>2
      <4> QED
        BY <4>2, <4>3
    <3>4. \A j \in 1 .. (z - 1) : t[j].kind = "event" => t[j].seq \in (m + 1) + 1 .. n
      <4> SUFFICES ASSUME NEW j \in 1 .. (z - 1), t[j].kind = "event"
                   PROVE  t[j].seq \in (m + 1) + 1 .. n
        OBVIOUS
      <4>1. t[j].seq \in m + 1 .. n /\ m + 1 < t[j].seq
        BY <2>3, <3>2, <3>3
      <4> QED
        BY <4>1
    <3>5. ASSUME NEW k \in (m + 1) + 1 .. n
          PROVE  \E j \in 1 .. (z - 1) : t[j].kind = "event" /\ t[j].seq = k
      <4>1. k \in m + 1 .. n /\ k # m + 1
        OBVIOUS
      <4>2. PICK i \in 1 .. z : s[i].kind = "event" /\ s[i].seq = k
        BY <2>1, <4>1
      <4>3. i # 1
        BY <1>3, <3>3, <4>1, <4>2
      <4> QED
        BY <1>4, <4>2, <4>3
    <3> QED
      BY <1>2, <2>2, <2>5, <3>1, <3>3, <3>4, <3>5 DEF Runs
  <2> QED
    BY <2>4, <2>5
<1> QED
  BY <1>2, <1>3, <1>6, <1>7

\* What a ResumableSocket sends carries the next numbers of the connection.
LEMMA WireRuns ==
  ASSUME TypeOK, NEW c \in Conns, NEW evs \in Seq(Event)
  PROVE  /\ EventsOf(Wire(c, evs)) = Elements(evs)
         /\ Runs(Wire(c, evs), connSeq[c], connSeq[c] + Len(evs))
<1>1. PICK m \in Nat : m = connSeq[c]
  BY DEF TypeOK, ServerTypeOK
<1>2. PICK n \in Nat : n = Len(evs) /\ DOMAIN evs = 1 .. n
  BY LenProperties
<1>3. PICK w : w = Wire(c, evs)
  OBVIOUS
<1>4. /\ DOMAIN w = 1 .. n
      /\ \A i \in 1 .. n : w[i].kind = "event" /\ w[i].seq = m + i /\ w[i].ev = evs[i]
  BY <1>1, <1>2, <1>3 DEF Wire
<1>5. \A x : x \in EventsOf(w) <=> x \in Elements(evs)
  <2>1. ASSUME NEW x \in EventsOf(w) PROVE x \in Elements(evs)
    <3>1. PICK i \in DOMAIN w : w[i].ev = x
      BY <2>1, EventOf
    <3>2. i \in 1 .. n /\ evs[i] = x
      BY <1>4, <3>1
    <3> QED
      BY <1>2, <3>2 DEF Elements
  <2>2. ASSUME NEW x \in Elements(evs) PROVE x \in EventsOf(w)
    <3>1. PICK i \in 1 .. n : evs[i] = x
      BY <1>2, <2>2 DEF Elements
    <3>2. i \in DOMAIN w /\ w[i].kind = "event" /\ w[i].ev = x
      BY <1>4, <3>1
    <3> QED
      BY <3>2, EventOf
  <2> QED
    BY <2>1, <2>2
<1>6. Runs(w, m, m + n)
  <2>1. \A k \in m + 1 .. m + n : \E i \in 1 .. n : w[i].seq = k
    <3> SUFFICES ASSUME NEW k \in m + 1 .. m + n PROVE \E i \in 1 .. n : w[i].seq = k
      OBVIOUS
    <3>1. k - m \in 1 .. n /\ m + (k - m) = k
      OBVIOUS
    <3> QED
      BY <1>4, <3>1
  <2>2. \A i \in 1 .. n : m + i \in m + 1 .. m + n
    OBVIOUS
  <2>3. \A i, j \in 1 .. n : i < j => m + i < m + j
    OBVIOUS
  <2>4. \A i \in DOMAIN w : w[i].kind = "event" => w[i].seq \in m + 1 .. m + n
    BY <1>4, <2>2
  <2>5. \A k \in m + 1 .. m + n : \E i \in DOMAIN w : w[i].kind = "event" /\ w[i].seq = k
    BY <1>4, <2>1
  <2>6. \A i, j \in DOMAIN w : i < j => w[i].seq < w[j].seq
    BY <1>4, <2>3
  <2> QED
    BY <2>4, <2>5, <2>6 DEF Runs
<1> QED
  BY <1>1, <1>2, <1>3, <1>5, <1>6

-----------------------------------------------------------------------------
(* The ring buffer and the newest connection *)

\* What is in the buffer after a push was there before, or was pushed.
LEMMA PushElements ==
  ASSUME TypeOK, NEW r \in Conns, NEW ev \in Event, NEW i \in DOMAIN Push(r, ev)
  PROVE  \/ Push(r, ev)[i].seq = nextSeq[r] + 1 /\ Push(r, ev)[i].ev = ev
         \/ \E j \in DOMAIN buffer[r] : Push(r, ev)[i] = buffer[r][j]
<1> DEFINE x == [seq |-> nextSeq[r] + 1, ev |-> ev]
           b == Append(buffer[r], x)
<1>1. x \in Buffered /\ x.seq = nextSeq[r] + 1 /\ x.ev = ev
  BY DEF TypeOK, ResumeTypeOK, Buffered
<1>2. PICK s \in Seq(Buffered) : s = buffer[r]
  BY DEF TypeOK, ResumeTypeOK
<1>3. PICK n \in Nat : n = Len(s) /\ DOMAIN s = 1 .. n
  BY LenProperties
<1>4. Push(r, ev) = IF Len(b) > BufferSize THEN Tail(b) ELSE b
  BY DEF Push
<1> HIDE DEF x
<1>5. /\ b \in Seq(Buffered) /\ b # << >> /\ Len(b) = n + 1
      /\ \A j \in 1 .. n : b[j] = s[j]
      /\ b[n + 1] = x
  BY <1>1, <1>2, <1>3, AppendProperties
<1> HIDE DEF b
<1>6. /\ Tail(b) \in Seq(Buffered) /\ Len(Tail(b)) = n
      /\ \A j \in 1 .. n : Tail(b)[j] = b[j + 1]
  BY <1>3, <1>5, HeadTailProperties
<1>7. DOMAIN b = 1 .. n + 1 /\ DOMAIN Tail(b) = 1 .. n
  BY <1>3, <1>5, <1>6, LenProperties
<1>8. \A j \in 1 .. n + 1 : b[j] = x \/ \E h \in 1 .. n : b[j] = s[h]
  <2>1. \A j \in 1 .. n + 1 : j \in 1 .. n \/ j = n + 1
    OBVIOUS
  <2> QED
    BY <1>5, <2>1
<1>9. \E j \in 1 .. n + 1 : Push(r, ev)[i] = b[j]
  <2>1. \A j \in 1 .. n : j + 1 \in 1 .. n + 1
    OBVIOUS
  <2> QED
    BY <1>4, <1>6, <1>7, <2>1
<1> QED
  BY <1>1, <1>2, <1>3, <1>8, <1>9

\* A push keeps what the buffer holds, of the same events or of one more.
LEMMA PushHolds ==
  ASSUME IInv, NEW r \in Conns, NEW ev \in Nat, NEW e \in Nat, NEW f \in Nat,
         Holding(buffer[r], nextSeq[r], e), (ev = 0 /\ f = e) \/ (ev = e + 1 /\ f = e + 1)
  PROVE  Holding(Push(r, ev), nextSeq[r] + 1, f)
<1> USE ConstantsAssumption DEF ConstantsAssumption
<1>1. TypeOK /\ ev \in Event
  BY DEF IInv, Event
<1>2. PICK k \in Nat : k = nextSeq[r]
  BY <1>1 DEF TypeOK, ResumeTypeOK
<1>3. PICK x \in Buffered : x = [seq |-> nextSeq[r] + 1, ev |-> ev] /\ x.seq = k + 1 /\ x.ev = ev
  <2>1. k + 1 \in Nat /\ [seq |-> k + 1, ev |-> ev] \in Buffered
    BY <1>1 DEF Buffered
  <2> QED
    BY <1>2, <2>1
<1>4. PICK s \in Seq(Buffered) : s = buffer[r]
  BY <1>1 DEF TypeOK, ResumeTypeOK
<1>5. PICK n \in Nat : n = Len(s) /\ DOMAIN s = 1 .. n
  BY LenProperties
<1>6. PICK b : b = Append(s, x)
  OBVIOUS
<1>7. /\ b \in Seq(Buffered) /\ b # << >> /\ Len(b) = n + 1 /\ DOMAIN b = 1 .. n + 1
      /\ \A j \in 1 .. n : b[j] = s[j]
      /\ b[n + 1] = x /\ b[n + 1].seq = k + 1 /\ b[n + 1].ev = ev
  BY <1>3, <1>5, <1>6, AppendProperties, LenProperties
<1>8. PICK t : t = Tail(b)
  OBVIOUS
<1>9. /\ t \in Seq(Buffered) /\ Len(t) = n /\ DOMAIN t = 1 .. n
      /\ \A j \in 1 .. n : t[j] = b[j + 1]
  BY <1>5, <1>7, <1>8, HeadTailProperties, LenProperties
<1>10. PICK p : p = Push(r, ev)
  OBVIOUS
<1>11. p = IF n + 1 > BufferSize THEN t ELSE b
  BY <1>3, <1>4, <1>6, <1>7, <1>8, <1>10 DEF Push
<1>12. /\ Suffix(s, k)
       /\ \A i \in 1 .. Len(p) : p[i].seq = k + 1 - Len(p) + i
  <2>1. Suffix(buffer[r], nextSeq[r])
    BY <1>4, <1>5 DEF IInv, BufferIsSuffix, Suffix
  <2>2. Suffix(Push(r, ev), nextSeq[r] + 1)
    BY <1>1, <2>1, PushSuffix
  <2>3. Suffix(s, k) /\ Suffix(p, k + 1)
    BY <1>2, <1>4, <1>10, <2>1, <2>2
  <2> QED
    BY <2>3 DEF Suffix
<1>13. /\ n = IF k < BufferSize THEN k ELSE BufferSize
       /\ n > 0 => s[1].seq = k - n + 1
  BY <1>2, <1>5, <1>12 DEF Suffix
<1>14. /\ e <= k
       /\ \A i \in 1 .. n : s[i].ev <= s[i].seq
       /\ \A y \in 1 .. e : (\E i \in 1 .. n : s[i].ev = y) \/ (n > 0 /\ y < s[1].seq)
  <2>1. s # << >> => n > 0
    BY <1>5, EmptySeq
  <2> QED
    BY <1>2, <1>4, <1>5, <2>1 DEF Holding
<1>15. f <= k + 1 /\ ev <= k + 1
  BY <1>14
<1>16. \A j \in 1 .. n + 1 : b[j].ev <= b[j].seq
  <2> SUFFICES ASSUME NEW j \in 1 .. n + 1 PROVE b[j].ev <= b[j].seq
    OBVIOUS
  <2>1. CASE j \in 1 .. n
    BY <1>7, <1>14, <2>1
  <2>2. CASE j = n + 1
    <3>1. b[j].seq = k + 1 /\ b[j].ev = ev
      BY <1>7, <2>2
    <3> QED
      BY <1>15, <3>1
  <2> QED
    BY <2>1, <2>2
<1>17. CASE n + 1 > BufferSize
  <2>1. p = t /\ n = BufferSize /\ n > 0
    BY <1>11, <1>13, <1>17
  <2>2. t[1].seq = k - n + 2 /\ s[1].seq < t[1].seq
    <3>1. 1 \in 1 .. Len(t) /\ Len(t) = n
      BY <1>9, <2>1
    <3>2. t[1].seq = k + 1 - n + 1
      BY <1>12, <2>1, <3>1
    <3>3. s[1].seq = k - n + 1
      BY <1>13, <2>1
    <3>4. k + 1 - n + 1 = k - n + 2 /\ k - n + 1 < k - n + 2
      OBVIOUS
    <3> QED
      BY <3>2, <3>3, <3>4
  <2>0. PICK a \in Int : s[1].seq = a /\ t[1].seq = a + 1
    <3>1. k - n + 1 \in Int /\ k - n + 2 = (k - n + 1) + 1
      OBVIOUS
    <3> QED
      BY <1>13, <2>1, <2>2, <3>1
  <2>3. \A i \in DOMAIN t : t[i].ev <= t[i].seq
    <3> SUFFICES ASSUME NEW i \in 1 .. n PROVE t[i].ev <= t[i].seq
      BY <1>9
    <3>1. i + 1 \in 1 .. n + 1
      OBVIOUS
    <3> QED
      BY <1>9, <1>16, <3>1
  <2>4. ASSUME NEW y \in 1 .. f
        PROVE  (\E i \in DOMAIN t : t[i].ev = y) \/ (t # << >> /\ y < t[1].seq)
    <3>1. t # << >>
      BY <1>9, <2>1, EmptySeq
    <3>2. CASE y \in 1 .. e
      <4>1. CASE y < s[1].seq
        BY <2>0, <3>1, <4>1
      <4>2. ASSUME NEW i \in 1 .. n, s[i].ev = y
            PROVE  (\E j \in DOMAIN t : t[j].ev = y) \/ (t # << >> /\ y < t[1].seq)
        <5>1. CASE i = 1
          <6>1. y <= s[1].seq
            BY <1>14, <4>2, <5>1
          <6> QED
            BY <2>0, <3>1, <6>1
        <5>2. CASE i # 1
          <6>1. PICK j \in 1 .. n : j = i - 1 /\ j + 1 = i
            BY <5>2
          <6>2. t[j] = s[i] /\ j \in DOMAIN t
            BY <1>7, <1>9, <6>1
          <6>3. t[j].ev = y
            BY <4>2, <6>2
          <6> QED
            BY <6>2, <6>3
        <5> QED
          BY <5>1, <5>2
      <4> QED
        BY <1>14, <3>2, <4>1, <4>2
    <3>3. CASE y \notin 1 .. e
      <4>1. y = ev
        BY <3>3
      <4>2. n \in 1 .. n /\ t[n] = x
        BY <1>7, <1>9, <2>1
      <4> QED
        BY <1>3, <1>9, <4>1, <4>2
    <3> QED
      BY <3>2, <3>3
  <2> QED
    BY <1>2, <1>10, <1>15, <2>1, <2>3, <2>4 DEF Holding
<1>18. CASE ~(n + 1 > BufferSize)
  <2>1. p = b
    BY <1>11, <1>18
  <2>2. ASSUME NEW y \in 1 .. f
        PROVE  (\E i \in DOMAIN b : b[i].ev = y) \/ (b # << >> /\ y < b[1].seq)
    <3>1. CASE y \in 1 .. e
      <4>1. \A i \in 1 .. n : i \in 1 .. n + 1
        OBVIOUS
      <4>2. n > 0 => b[1] = s[1]
        BY <1>7
      <4>3. ASSUME NEW i \in 1 .. n, s[i].ev = y PROVE \E j \in DOMAIN b : b[j].ev = y
        BY <1>7, <4>1, <4>3
      <4> QED
        BY <1>7, <1>14, <3>1, <4>2, <4>3
    <3>2. CASE y \notin 1 .. e
      <4>1. y = ev /\ n + 1 \in 1 .. n + 1
        BY <3>2
      <4> QED
        BY <1>3, <1>7, <4>1
    <3> QED
      BY <3>1, <3>2
  <2> QED
    BY <1>2, <1>7, <1>10, <1>15, <1>16, <2>1, <2>2 DEF Holding
<1> QED
  BY <1>17, <1>18

\* A replay brings every event that is buffered behind the k-th, and no other.
LEMMA ReplayedEvents ==
  ASSUME IInv, NEW r \in Conns, NEW k \in Nat, ~Gap(r, k)
  PROVE  /\ \A i \in DOMAIN buffer[r] : buffer[r][i].seq > k => buffer[r][i].ev \in Elements(Replayed(r, k))
         /\ \A e \in Elements(Replayed(r, k)) : \E i \in DOMAIN buffer[r] : e = buffer[r][i].ev
<1> USE ConstantsAssumption DEF ConstantsAssumption
<1> DEFINE b == buffer[r]
           after == {i \in DOMAIN b : b[i].seq > k}
           start == CHOOSE i \in after : \A j \in after : i <= j
<1>1. PICK n \in Nat : n = nextSeq[r]
  BY DEF IInv, TypeOK, ResumeTypeOK
<1>2. PICK l \in Nat : l = Len(b) /\ DOMAIN b = 1 .. l
  BY LenProperties DEF IInv, TypeOK, ResumeTypeOK
<1>3. \A i \in 1 .. l : b[i].seq = n - l + i
  BY <1>1, <1>2 DEF IInv, BufferIsSuffix
<1>4. Replayed(r, k) = IF after = {} THEN << >>
                       ELSE [i \in 1 .. Len(b) + 1 - start |-> b[start + i - 1].ev]
  BY DEF Replayed
<1>5. Gap(r, k) <=> b # << >> /\ k < b[1].seq - 1
  BY DEF Gap
<1> HIDE DEF b
<1>6. CASE after = {}
  <2>1. Elements(Replayed(r, k)) = {}
    BY <1>4, <1>6, EmptyQueue
  <2>2. \A i \in DOMAIN b : ~(b[i].seq > k)
    BY <1>6
  <2> QED
    BY <2>1, <2>2 DEF b
<1>7. CASE after # {}
  <2>1. PICK h \in 1 .. l : b[h].seq > k
    BY <1>2, <1>7
  <2>2. l > 0 /\ b # << >>
    BY <1>2, <2>1, EmptySeq
  <2>3. k >= n - l
    <3>1. b[1].seq = n - l + 1
      BY <1>3, <2>2
    <3> QED
      BY <1>5, <2>2, <3>1
  <2>4. PICK m \in 1 .. l : m = k - (n - l) + 1
    <3>1. n - l + h > k
      BY <1>3, <2>1
    <3> QED
      BY <2>3, <3>1
  <2>5. after = m .. l
    <3> SUFFICES ASSUME NEW i \in 1 .. l
                 PROVE  b[i].seq > k <=> i >= m
      BY <1>2, <2>4
    <3> QED
      BY <1>3, <2>4
  <2>6. start = m
    BY <2>4, <2>5
  <2> HIDE DEF start, after
  <2>7. PICK q : q = Replayed(r, k)
    OBVIOUS
  <2>8. q = [i \in 1 .. l + 1 - m |-> b[m + i - 1].ev]
    BY <1>2, <1>4, <1>7, <2>6, <2>7
  <2>9. ASSUME NEW i \in 1 .. l, b[i].seq > k PROVE b[i].ev \in Elements(q)
    <3>1. i \in m .. l
      BY <1>2, <2>5, <2>9 DEF after
    <3>2. PICK j \in 1 .. l + 1 - m : j = i - m + 1 /\ m + j - 1 = i
      <4>1. i - m + 1 \in 1 .. l + 1 - m /\ m + (i - m + 1) - 1 = i
        BY <3>1
      <4> QED
        BY <4>1
    <3>3. j \in DOMAIN q /\ q[j] = b[i].ev
      BY <2>8, <3>2
    <3> QED
      BY <3>3 DEF Elements
  <2>10. ASSUME NEW e \in Elements(q) PROVE \E i \in 1 .. l : e = b[i].ev
    <3>1. PICK j \in 1 .. l + 1 - m : e = q[j]
      BY <2>8 DEF Elements
    <3>2. m + j - 1 \in 1 .. l
      BY <2>4
    <3> QED
      BY <2>8, <3>1, <3>2
  <2> QED
    BY <1>2, <2>7, <2>9, <2>10 DEF b
<1> QED
  BY <1>6, <1>7

\* The connection an open client has is the newest the server accepted, and what its
\* ResumableSocket emits leaves on it.
LEMMA OpenIsNewest ==
  ASSUME IInv, NEW d \in Conns, readyState[d] = "open", up[d] # "none"
  PROVE  /\ \A c \in Conns : up[c] # "none" => c <= d
         /\ rsOf[d] \in Conns /\ inner[rsOf[d]] = d
         /\ \A c \in Conns : readyState[c] = "open" => c = d
<1> USE ConstantsAssumption DEF ConstantsAssumption, Conns
<1>1. d = ws /\ d = opened /\ \A c \in Conns : readyState[c] = "open" => c = d
  <2>1. ws = d /\ \A c \in Conns : readyState[c] = "open" => c = ws
    BY DEF IInv, OneSocketOrTimer
  <2> QED
    BY <2>1 DEF IInv, SocketOrder, NoConn
<1>2. \A c \in Conns : up[c] # "none" => c <= d
  BY <1>1 DEF IInv, Accepted, SocketOrder
<1>3. PICK r : r = rsOf[d]
  OBVIOUS
<1>4. PICK x : x = inner[r]
  OBVIOUS
<1>5. r \in 1 .. d /\ x \in d .. MaxConn /\ up[x] # "none"
  BY <1>3, <1>4 DEF IInv, NewestIsBound
<1>6. x \in Conns
  BY <1>5
<1>7. x <= d
  BY <1>2, <1>5, <1>6
<1>8. x = d /\ r \in Conns
  BY <1>5, <1>7
<1> QED
  BY <1>1, <1>2, <1>3, <1>4, <1>8

\* Events leave on connection x: they join the queue of its client, behind what is there.
LEMMA Wired ==
  ASSUME TypeOK, NEW x \in Conns, NEW evs \in Seq(Event),
         connSeq' = [connSeq EXCEPT ![x] = @ + Len(evs)],
         toClient' = [toClient EXCEPT ![x] = @ \o Wire(x, evs)],
         NEW d \in Conns
  PROVE  /\ d # x => toClient'[d] = toClient[d] /\ connSeq'[d] = connSeq[d]
         /\ d = x => /\ EventsOf(toClient'[d]) = EventsOf(toClient[d]) \cup Elements(evs)
                     /\ connSeq'[d] = connSeq[d] + Len(evs)
         /\ \A m \in Nat : m <= connSeq[d] /\ Runs(toClient[d], m, connSeq[d])
                             => Runs(toClient'[d], m, connSeq'[d])
<1>1. PICK s \in Seq(ServerEnvelope) : s = toClient[x]
  BY DEF TypeOK, NetTypeOK
<1>2. PICK k \in Nat : k = connSeq[x]
  BY DEF TypeOK, ServerTypeOK
<1>3. PICK n \in Nat : n = Len(evs)
  BY LenProperties
<1>4. PICK w \in Seq(ServerEnvelope) : w = Wire(x, evs)
  BY WireType
<1>5. EventsOf(w) = Elements(evs) /\ Runs(w, k, k + n)
  BY <1>2, <1>3, <1>4, WireRuns
<1>6. /\ toClient' = [toClient EXCEPT ![x] = s \o w]
      /\ connSeq' = [connSeq EXCEPT ![x] = k + n]
  BY <1>1, <1>2, <1>3, <1>4
<1>7. \A c \in Conns : /\ c # x => toClient'[c] = toClient[c] /\ connSeq'[c] = connSeq[c]
                       /\ c = x => toClient'[c] = s \o w /\ connSeq'[c] = k + n
  BY <1>6 DEF TypeOK, NetTypeOK, ServerTypeOK
<1>8. EventsOf(s \o w) = EventsOf(s) \cup EventsOf(w)
  BY EventsBehind
<1>9. ASSUME NEW m \in Nat, m <= k, Runs(s, m, k) PROVE Runs(s \o w, m, k + n)
  <2>1. k + n \in Nat /\ k <= k + n
    OBVIOUS
  <2> QED
    BY <1>5, <1>9, <2>1, EventsBehind
<1> QED
  <2>1. CASE d = x
    <3>1. toClient'[d] = s \o w /\ connSeq'[d] = k + n /\ toClient[d] = s /\ connSeq[d] = k
      <4>1. toClient'[d] = s \o w /\ connSeq'[d] = k + n
        BY <1>7, <2>1
      <4>2. toClient[d] = s /\ connSeq[d] = k
        BY <1>1, <1>2, <2>1
      <4> QED
        BY <4>1, <4>2
    <3>2. EventsOf(toClient'[d]) = EventsOf(toClient[d]) \cup Elements(evs)
      BY <1>5, <1>8, <3>1
    <3> QED
      BY <1>3, <1>9, <2>1, <3>1, <3>2
  <2>2. CASE d # x
    BY <1>7, <2>2
  <2> QED
    BY <2>1, <2>2

\* So they do when a ResumableSocket emits on a connection that is open at both ends.
LEMMA Leaves ==
  ASSUME TypeOK, NEW x \in Conns, NEW evs \in Seq(Event), InnerEmit(x, evs), NEW d \in Conns
  PROVE  /\ d # x => toClient'[d] = toClient[d] /\ connSeq'[d] = connSeq[d]
         /\ EventsOf(toClient[d]) \subseteq EventsOf(toClient'[d])
         /\ EventsOf(toClient'[d]) \subseteq EventsOf(toClient[d]) \cup Elements(evs)
         /\ d = x /\ up[x] = "open" /\ readyState[x] # "closed" =>
              Elements(evs) \subseteq EventsOf(toClient'[d]) /\ connSeq'[d] = connSeq[d] + Len(evs)
         /\ connSeq[d] <= connSeq'[d]
         /\ readyState[d] # "closed" =>
              \A m \in Nat : m <= connSeq[d] /\ Runs(toClient[d], m, connSeq[d])
                              => Runs(toClient'[d], m, connSeq'[d])
<1>1. PICK n \in Nat : n = Len(evs)
  BY LenProperties
<1>0. PICK k \in Nat : k = connSeq[d] /\ k <= k /\ k <= k + n
  BY DEF TypeOK, ServerTypeOK
<1>2. CASE up[x] = "open" /\ readyState[x] # "closed"
  <2>1. /\ connSeq' = [connSeq EXCEPT ![x] = @ + Len(evs)]
        /\ toClient' = [toClient EXCEPT ![x] = @ \o Wire(x, evs)]
    BY <1>2 DEF InnerEmit
  <2>2. /\ d # x => toClient'[d] = toClient[d] /\ connSeq'[d] = connSeq[d]
        /\ d = x => /\ EventsOf(toClient'[d]) = EventsOf(toClient[d]) \cup Elements(evs)
                    /\ connSeq'[d] = connSeq[d] + Len(evs)
        /\ \A m \in Nat : m <= connSeq[d] /\ Runs(toClient[d], m, connSeq[d])
                            => Runs(toClient'[d], m, connSeq'[d])
    BY <2>1, Wired
  <2> QED
    BY <1>0, <1>1, <2>2
<1>3. CASE ~(up[x] = "open" /\ readyState[x] # "closed")
  <2>1. toClient' = toClient
    BY <1>3 DEF InnerEmit
  <2>2. /\ d # x => connSeq'[d] = connSeq[d]
        /\ connSeq'[d] = connSeq[d] \/ connSeq'[d] = connSeq[d] + Len(evs)
        /\ connSeq'[d] = connSeq[d] \/ (readyState[x] = "closed" /\ d = x)
    <3>1. connSeq' = connSeq \/ connSeq' = [connSeq EXCEPT ![x] = @ + Len(evs)]
      BY DEF InnerEmit
    <3>2. connSeq' = connSeq \/ readyState[x] = "closed"
      BY <1>3 DEF InnerEmit
    <3>3. PICK y : y = connSeq[x] + Len(evs)
      OBVIOUS
    <3>4. connSeq' = connSeq \/ connSeq' = [connSeq EXCEPT ![x] = y]
      BY <3>1, <3>3
    <3>5. connSeq \in [Conns -> Nat]
      BY DEF TypeOK, ServerTypeOK
    <3>6. connSeq'[d] = connSeq[d] \/ (d = x /\ connSeq'[d] = y)
      BY <3>4, <3>5
    <3>7. connSeq'[d] = connSeq[d] \/ (d = x /\ connSeq'[d] = connSeq[d] + Len(evs))
      BY <3>3, <3>6
    <3> QED
      BY <3>2, <3>7
  <2>3. connSeq[d] <= connSeq'[d]
    <3>1. connSeq'[d] = k \/ connSeq'[d] = k + n
      BY <1>0, <1>1, <2>2
    <3> QED
      BY <1>0, <3>1
  <2> QED
    BY <1>3, <2>1, <2>2, <2>3
<1> QED
  BY <1>2, <1>3

-----------------------------------------------------------------------------
(* Steps that deliver nothing *)

\* What is under way on c stays under way.
Kept(c) ==
  /\ EventsOf(toClient'[c]) = EventsOf(toClient[c])
  /\ \A m, n \in Nat : Runs(toClient[c], m, n) => Runs(toClient'[c], m, n)

\* An accepted connection has a ResumableSocket.
LEMMA RsOfConns ==
  ASSUME IInv, NEW c \in Conns, up[c] # "none"
  PROVE  rsOf[c] \in Conns
<1>1. rsOf[c] \in 1 .. c
  BY DEF IInv, NewestIsBound
<1> QED
  BY <1>1, ConstantsAssumption DEF ConstantsAssumption, Conns

\* Nothing is emitted, delivered or numbered, connections close, and a resume that leaves
\* reports lastSeq.
LEMMA Calm ==
  ASSUME IInv, DInv,
         UNCHANGED <<lastSeq, delivered, emitted, nextSeq, buffer, connSeq, rsOf>>,
         reported' \in {reported, lastSeq},
         \A c \in Conns : up'[c] = up[c] \/ (up[c] = "open" /\ up'[c] = "closed"),
         \A c \in Conns : EventsOf(toClient'[c]) \subseteq EventsOf(toClient[c]),
         \A c \in Conns : readyState'[c] # "closed" => readyState[c] # "closed" /\ Kept(c),
         \A c \in Conns : readyState'[c] = "open" /\ up'[c] = "open" /\ NoResume(toServer'[c]) =>
                            readyState[c] = "open" /\ NoResume(toServer[c]),
         \A c \in Conns : \A i \in DOMAIN toServer'[c] : toServer'[c][i].kind = "resume" =>
           \/ \E j \in DOMAIN toServer[c] : toServer[c][j] = toServer'[c][i]
           \/ toServer'[c][i].lastSeq = reported'
  PROVE  DInv'
<1>1. TypeOK
  BY DEF IInv
<1>2. PICK u \in Nat : u = reported
  BY <1>1 DEF TypeOK, HistoryTypeOK
<1>3. PICK v \in Nat : v = lastSeq
  BY <1>1 DEF TypeOK, ClientTypeOK
<1>4. PICK w \in Nat : w = reported' /\ u <= w /\ w <= v
  <2>1. u <= v
    BY <1>2, <1>3 DEF DInv, Reports
  <2>2. CASE reported' = reported
    BY <1>2, <1>3, <2>1, <2>2
  <2>3. CASE reported' = lastSeq
    BY <1>2, <1>3, <2>1, <2>3
  <2> QED
    BY <2>2, <2>3
<1>5. \A c \in Conns : /\ up'[c] = "none" <=> up[c] = "none"
                       /\ up'[c] = "open" => up[c] = "open"
  OBVIOUS
<1>6. SameSession' <=> SameSession
  BY <1>5 DEF SameSession
<1>7. Reports'
  <2>1. reported' <= lastSeq' /\ lastSeq' <= Len(delivered')
    BY <1>3, <1>4 DEF DInv, Reports
  <2>2. ASSUME NEW c \in Conns, NEW i \in DOMAIN toServer'[c], toServer'[c][i].kind = "resume"
        PROVE  toServer'[c][i].lastSeq <= reported'
    <3>1. CASE toServer'[c][i].lastSeq = reported'
      BY <1>4, <3>1
    <3>2. ASSUME NEW j \in DOMAIN toServer[c], toServer[c][j] = toServer'[c][i]
          PROVE  toServer'[c][i].lastSeq <= reported'
      <4>1. PICK e : e = toServer[c][j]
        OBVIOUS
      <4>2. toServer[c] \in Seq(ClientEnvelope)
        BY <1>1 DEF TypeOK, NetTypeOK
      <4>3. e \in ClientEnvelope /\ e.kind = "resume"
        BY <2>2, <3>2, <4>1, <4>2, LenProperties, ElementOfSeq
      <4>4. PICK l \in Nat : l = e.lastSeq
        BY <4>3 DEF ClientEnvelope, Queued
      <4>5. l <= u
        BY <1>2, <2>2, <3>2, <4>1, <4>4 DEF DInv, Reports
      <4> QED
        BY <1>4, <3>2, <4>1, <4>4, <4>5
    <3> QED
      BY <2>2, <3>1, <3>2
  <2> QED
    BY <2>1, <2>2 DEF Reports
<1>8. Sources'
  <2>1. Elements(delivered') = Elements(delivered)
    BY DEF Elements
  <2>2. (\A c \in Conns : up'[c] = "none") => emitted' = 0
    BY <1>5 DEF DInv, Sources
  <2>3. ASSUME NEW c \in Conns
        PROVE  /\ up'[c] = "none" => nextSeq'[c] = 0
               /\ up'[c] # "none" => up'[rsOf'[c]] # "none"
               /\ EventsOf(toClient'[c]) \subseteq 0 .. emitted'
               /\ \A i \in DOMAIN buffer'[c] : buffer'[c][i].ev <= emitted'
    <3>1. up[c] # "none" => rsOf[c] \in Conns /\ up[rsOf[c]] # "none"
      BY RsOfConns DEF DInv, Sources
    <3>2. up'[c] # "none" => up'[rsOf'[c]] # "none"
      BY <1>5, <3>1
    <3>3. EventsOf(toClient'[c]) \subseteq 0 .. emitted'
      BY DEF DInv, Sources
    <3>4. up'[c] = "none" => nextSeq'[c] = 0
      BY <1>5 DEF DInv, Sources
    <3>5. \A i \in DOMAIN buffer'[c] : buffer'[c][i].ev <= emitted'
      BY DEF DInv, Sources
    <3> QED
      BY <3>2, <3>3, <3>4, <3>5
  <2> QED
    BY <2>1, <2>2, <2>3 DEF DInv, Sources
<1>9. ASSUME NEW c \in Conns, readyState'[c] = "open" PROVE Served(c)' => Served(c)
  BY <1>5, <1>9 DEF Served, Kept, Elements
<1>10. ASSUME NEW c \in Conns, readyState'[c] # "closed" PROVE \E m \in Nat : Reading(c, m)'
  <2>1. readyState[c] # "closed" /\ Kept(c)
    BY <1>10
  <2>2. PICK m \in Nat : Reading(c, m)
    BY <2>1 DEF DInv
  <2>3. connSeq[c] \in Nat
    BY <1>1 DEF TypeOK, ServerTypeOK
  <2>4. Served(c)' => Served(c)
    BY <1>9 DEF Served
  <2>5. Reading(c, m)'
    BY <2>1, <2>2, <2>3, <2>4 DEF Reading, Kept
  <2> QED
    BY <2>5
<1>11. ASSUME SameSession', NEW c \in Conns
       PROVE  Complete(c)' /\ (up'[c] # "none" => Holds(rsOf[c])')
  <2>1. Complete(c) /\ (up[c] # "none" => Holds(rsOf[c]))
    BY <1>6, <1>11 DEF DInv
  <2>2. Complete(c)'
    <3> SUFFICES ASSUME Served(c)', NEW e \in 1 .. emitted
                 PROVE  e <= reported' \/ e \in Elements(delivered) \cup EventsOf(toClient'[c])
      BY DEF Complete, Elements
    <3>1. readyState'[c] = "open"
      BY DEF Served
    <3>2. Served(c) /\ EventsOf(toClient'[c]) = EventsOf(toClient[c])
      BY <1>9, <3>1 DEF Kept
    <3>3. e <= reported \/ e \in Elements(delivered) \cup EventsOf(toClient[c])
      BY <2>1, <3>2 DEF Complete
    <3>4. e \in Nat /\ (e <= u => e <= w)
      BY <1>1, <1>4 DEF TypeOK, HistoryTypeOK
    <3> QED
      BY <1>2, <1>4, <3>2, <3>3, <3>4
  <2>3. Holds(rsOf[c])' <=> Holds(rsOf[c])
    BY DEF Holds
  <2> QED
    BY <1>5, <2>1, <2>2, <2>3
<1>12. \A c \in Conns : readyState'[c] # "closed" => \E m \in Nat : Reading(c, m)'
  BY <1>10
<1> QED
  BY <1>7, <1>8, <1>11, <1>12 DEF DInv

\* Nothing at all happens on the connections.
LEMMA CalmConnections ==
  ASSUME IInv, DInv,
         UNCHANGED <<lastSeq, delivered, emitted, nextSeq, buffer, connSeq, rsOf, up, toClient, reported>>,
         \A c \in Conns : readyState'[c] # "closed" => readyState[c] # "closed",
         \A c \in Conns : readyState'[c] = "open" => readyState[c] = "open",
         \A c \in Conns : NoResume(toServer'[c]) => NoResume(toServer[c]),
         \A c \in Conns : \A i \in DOMAIN toServer'[c] : toServer'[c][i].kind = "resume" =>
           \E j \in DOMAIN toServer[c] : toServer[c][j] = toServer'[c][i]
  PROVE  DInv'
<1>1. \A c \in Conns : Kept(c) /\ EventsOf(toClient'[c]) \subseteq EventsOf(toClient[c])
  BY DEF Kept
<1> QED
  BY <1>1, Calm

\* A new connection is not accepted yet.
LEMMA ConnectCalm == ASSUME IInv, DInv, Connect \/ Reconnect PROVE DInv'
<1>1. OpenSocket /\ UNCHANGED <<lastSeq, netVars, serverVars, resumeVars, historyVars>>
  BY DEF Connect, Reconnect
<1>2. PICK n \in Conns : n = opened + 1
  BY <1>1, ConstantsAssumption DEF ConstantsAssumption, OpenSocket, IInv, TypeOK, ClientTypeOK, Conns
<1>3. readyState' = [readyState EXCEPT ![n] = "connecting"] /\ readyState[n] = "none"
  <2>1. ~(n <= opened)
    BY <1>2 DEF IInv, TypeOK, ClientTypeOK
  <2> QED
    BY <1>1, <1>2, <2>1 DEF OpenSocket, IInv, SocketOrder
<1>4. \A c \in Conns : readyState'[c] = IF c = n THEN "connecting" ELSE readyState[c]
  BY <1>3 DEF IInv, TypeOK, ClientTypeOK
<1>5. UNCHANGED <<lastSeq, delivered, emitted, nextSeq, buffer, connSeq, rsOf, up, toClient, toServer, reported>>
  BY <1>1 DEF netVars, serverVars, resumeVars, historyVars
<1> QED
  BY <1>3, <1>4, <1>5, CalmConnections

\* A client that disconnects is not open any more.
LEMMA DisconnectCalm == ASSUME IInv, DInv, Disconnect PROVE DInv'
<1>1. UNCHANGED <<lastSeq, delivered, emitted, nextSeq, buffer, connSeq, rsOf, up, toClient, toServer, reported>>
  BY DEF Disconnect, netVars, serverVars, resumeVars, historyVars
<1>2. \A c \in Conns : \/ readyState'[c] = readyState[c]
                       \/ readyState'[c] = "closing" /\ readyState[c] # "closed"
  BY DEF Disconnect
<1> QED
  BY <1>1, <1>2, CalmConnections

\* What an application envelope joins are the same resumes as before.
LEMMA NoNewResume ==
  ASSUME NEW s \in Seq(ClientEnvelope), NEW q \in ClientEnvelope, q.kind # "resume"
  PROVE  /\ \A i \in DOMAIN (s \o <<q>>) : (s \o <<q>>)[i].kind = "resume" =>
              i \in DOMAIN s /\ s[i] = (s \o <<q>>)[i]
         /\ \A i \in DOMAIN s : i \in DOMAIN (s \o <<q>>) /\ (s \o <<q>>)[i] = s[i]
<1>1. PICK n \in Nat : n = Len(s) /\ DOMAIN s = 1 .. n
  BY LenProperties
<1>2. s \o <<q>> = Append(s, q)
  BY AppendIsConcat
<1>3. /\ DOMAIN Append(s, q) = 1 .. n + 1
      /\ \A i \in 1 .. n : Append(s, q)[i] = s[i]
      /\ Append(s, q)[n + 1] = q
  <2>1. Append(s, q) \in Seq(ClientEnvelope) /\ Len(Append(s, q)) = Len(s) + 1
        /\ \A i \in 1 .. Len(s) : Append(s, q)[i] = s[i]
        /\ Append(s, q)[Len(s) + 1] = q
    BY AppendProperties
  <2> QED
    BY <1>1, <2>1, LenProperties
<1>4. \A i \in 1 .. n + 1 : i \in 1 .. n \/ i = n + 1
  OBVIOUS
<1> QED
  BY <1>1, <1>2, <1>3, <1>4

\* What the application sends is no resume.
LEMMA SendCalm ==
  ASSUME IInv, DInv, NEW kind \in {"event", "request"}, Send(kind)
  PROVE  DInv'
<1>1. TypeOK
  BY DEF IInv
<1>2. PICK q \in ClientEnvelope : q = [kind |-> kind, id |-> sent + 1] /\ q.kind # "resume"
  BY <1>1, NextEnvelope
<1>3. UNCHANGED <<lastSeq, delivered, emitted, nextSeq, buffer, connSeq, rsOf, up, toClient, readyState, reported>>
  BY DEF Send, serverVars, resumeVars
<1>4. toServer' = toServer \/ toServer' = [toServer EXCEPT ![ws] = @ \o <<q>>]
  BY <1>2 DEF Send, Transmit
<1>5. ASSUME NEW c \in Conns
      PROVE  /\ NoResume(toServer'[c]) => NoResume(toServer[c])
             /\ \A i \in DOMAIN toServer'[c] : toServer'[c][i].kind = "resume" =>
                  \E j \in DOMAIN toServer[c] : toServer[c][j] = toServer'[c][i]
  <2>1. CASE toServer'[c] = toServer[c]
    BY <2>1
  <2>2. CASE toServer'[c] = toServer[c] \o <<q>>
    <3>1. PICK s \in Seq(ClientEnvelope) : s = toServer[c]
      BY <1>1 DEF TypeOK, NetTypeOK
    <3>2. PICK t : t = s \o <<q>>
      OBVIOUS
    <3>3. /\ \A i \in DOMAIN t : t[i].kind = "resume" => i \in DOMAIN s /\ s[i] = t[i]
          /\ \A i \in DOMAIN s : i \in DOMAIN t /\ t[i] = s[i]
      BY <1>2, <3>2, NoNewResume
    <3>4. toServer'[c] = t /\ toServer[c] = s
      BY <2>2, <3>1, <3>2
    <3> QED
      BY <3>3, <3>4 DEF NoResume
  <2>3. toServer'[c] = toServer[c] \/ toServer'[c] = toServer[c] \o <<q>>
    BY <1>1, <1>4 DEF TypeOK, NetTypeOK
  <2> QED
    BY <2>1, <2>2, <2>3
<1> QED
  BY <1>3, <1>5, CalmConnections

\* A handler takes an envelope that is not resume: then none waits behind it.
LEMMA HandleCalm ==
  ASSUME IInv, UInv, DInv, NEW c \in Conns, HandleEvent(c) \/ HandleRequest(c)
  PROVE  DInv'
<1>1. TypeOK
  BY DEF IInv
<1>2. /\ Receives(c, "event") \/ Receives(c, "request")
      /\ UNCHANGED <<lastSeq, delivered, emitted, nextSeq, buffer, connSeq, rsOf, up, toClient, readyState, reported>>
  BY DEF HandleEvent, HandleRequest, clientVars, serverVars, resumeVars
<1>3. PICK s \in Seq(ClientEnvelope) : s = toServer[c] /\ s # << >> /\ Head(s).kind # "resume"
  BY <1>1, <1>2 DEF Receives, TypeOK, NetTypeOK
<1>4. NoResume(Tail(s)) /\ NoResume(s)
  <2>1. ResumeFirst(s)
    BY <1>3 DEF UInv, Flow, Queues
  <2>2. s[1].kind # "resume"
    BY <1>3
  <2> QED
    BY <1>3, <2>1, <2>2, FirstOff DEF ResumeFirst, NoResume
<1>5. \A d \in Conns : toServer'[d] = IF d = c THEN Tail(s) ELSE toServer[d]
  BY <1>1, <1>2, <1>3 DEF Receives, TypeOK, NetTypeOK
<1>6. \A d \in Conns : NoResume(toServer'[d]) => NoResume(toServer[d])
  BY <1>3, <1>4, <1>5
<1>7. \A d \in Conns : \A i \in DOMAIN toServer'[d] : toServer'[d][i].kind = "resume" =>
        \E j \in DOMAIN toServer[d] : toServer[d][j] = toServer'[d][i]
  BY <1>4, <1>5 DEF NoResume
<1> QED
  BY <1>2, <1>6, <1>7, CalmConnections

\* Responses are no events.
LEMMA ReceiveResponseCalm ==
  ASSUME IInv, DInv, NEW c \in Conns, ReceiveResponse(c)
  PROVE  DInv'
<1>1. TypeOK
  BY DEF IInv
<1>2. UNCHANGED <<lastSeq, delivered, emitted, nextSeq, buffer, connSeq, rsOf, up, readyState, toServer, reported>>
  BY DEF ReceiveResponse, serverVars, resumeVars, historyVars
<1>3. PICK s \in Seq(ServerEnvelope) : s = toClient[c] /\ s # << >> /\ Head(s).kind = "response"
  BY <1>1 DEF ReceiveResponse, TypeOK, NetTypeOK
<1>4. \A d \in Conns : toClient'[d] = IF d = c THEN Tail(s) ELSE toClient[d]
  BY <1>1, <1>3 DEF ReceiveResponse, TypeOK, NetTypeOK
<1>5. EventsOf(Tail(s)) = EventsOf(s) /\ \A m, n \in Nat : Runs(s, m, n) => Runs(Tail(s), m, n)
  BY <1>3, EventRead
<1>6. \A d \in Conns : Kept(d)
  BY <1>3, <1>4, <1>5 DEF Kept
<1> QED
  BY <1>2, <1>6, Calm DEF Kept

\* A response is no event.
LEMMA RespondCalm ==
  ASSUME IInv, DInv, NEW c \in Conns, NEW id \in 1 .. MaxSend, Respond(c, id)
  PROVE  DInv'
<1>1. TypeOK
  BY DEF IInv
<1>2. UNCHANGED <<lastSeq, delivered, emitted, nextSeq, buffer, connSeq, rsOf, up, readyState, toServer, reported>>
  BY DEF Respond, clientVars, serverVars, resumeVars, historyVars
<1>3. PICK e \in ServerEnvelope : e = [kind |-> "response", id |-> id] /\ e.kind # "event"
  <2>1. [kind |-> "response", id |-> id] \in [kind : {"response"}, id : 1 .. MaxSend]
    OBVIOUS
  <2> QED
    BY <2>1 DEF ServerEnvelope
<1>4. ASSUME NEW d \in Conns PROVE Kept(d)
  <2>1. toClient'[d] = toClient[d] \/ toClient'[d] = Append(toClient[d], e)
    BY <1>1, <1>3 DEF Respond, TypeOK, NetTypeOK
  <2>2. PICK s \in Seq(ServerEnvelope) : s = toClient[d]
    BY <1>1 DEF TypeOK, NetTypeOK
  <2>3. PICK t \in Seq(ServerEnvelope) :
           /\ Append(s, e) = s \o t /\ EventsOf(t) = {}
           /\ \A n \in Nat : Runs(t, n, n)
    <3>1. <<e>> \in Seq(ServerEnvelope) /\ Append(s, e) = s \o <<e>>
      BY AppendIsConcat
    <3>2. DOMAIN <<e>> = {1} /\ <<e>>[1] = e
      OBVIOUS
    <3>3. \A i \in DOMAIN <<e>> : <<e>>[i].kind # "event"
      BY <1>3, <3>2
    <3>4. EventsOf(<<e>>) = {} /\ \A n \in Nat : Runs(<<e>>, n, n)
      BY <3>3, NoEvents
    <3> QED
      BY <3>1, <3>4
  <2>4. EventsOf(s \o t) = EventsOf(s)
    <3>1. 0 \in Nat
      OBVIOUS
    <3>2. EventsOf(s \o t) = EventsOf(s) \cup EventsOf(t)
      BY <3>1, EventsBehind
    <3> QED
      BY <2>3, <3>2
  <2>5. ASSUME NEW m \in Nat, NEW n \in Nat, Runs(s, m, n) PROVE Runs(s \o t, m, n)
    <3>1. CASE m <= n
      <4>1. n <= n
        OBVIOUS
      <4> QED
        BY <2>3, <2>5, <3>1, <4>1, EventsBehind
    <3>2. CASE ~(m <= n)
      <4>1. m + 1 .. n = {} /\ m + 1 .. m = {}
        BY <3>2
      <4>2. \A i \in DOMAIN s : s[i].kind # "event"
        BY <2>5, <4>1 DEF Runs
      <4>3. Runs(s, m, m)
        BY <4>2, NoEvents
      <4>4. m <= m
        OBVIOUS
      <4>5. Runs(s \o t, m, m)
        BY <2>3, <4>3, <4>4, EventsBehind
      <4> QED
        BY <4>1, <4>5 DEF Runs
    <3> QED
      BY <3>1, <3>2
  <2> QED
    BY <2>1, <2>2, <2>3, <2>4, <2>5 DEF Kept
<1> QED
  BY <1>2, <1>4, Calm DEF Kept

\* What was under way is gone, and the server may still read a prefix.
LEMMA HandleCloseCalm == ASSUME IInv, UInv, DInv, NEW c \in Conns, HandleClose(c) PROVE DInv'
<1>1. TypeOK
  BY DEF IInv
<1>2. UNCHANGED <<lastSeq, delivered, emitted, nextSeq, buffer, connSeq, rsOf, up, reported>>
  BY DEF HandleClose, serverVars, resumeVars
<1>3. PICK q \in Seq(ClientEnvelope) : q = toServer[c]
  BY <1>1 DEF TypeOK, NetTypeOK
<1>4. PICK n \in 0 .. Len(q) : toServer' = [toServer EXCEPT ![c] = SubSeq(q, 1, n)]
  BY <1>1, <1>3 DEF HandleClose
<1>5. PICK s : s = SubSeq(q, 1, n)
  OBVIOUS
<1>6. \A i \in DOMAIN s : i \in DOMAIN q /\ s[i] = q[i]
  <2>1. Len(q) \in Nat /\ DOMAIN q = 1 .. Len(q) /\ \A i \in 1 .. Len(q) : q[i] \in ClientEnvelope
    BY LenProperties, ElementOfSeq
  <2>2. /\ s \in Seq(ClientEnvelope) /\ Len(s) = n
        /\ \A i \in 1 .. n : s[i] = q[1 + i - 1]
    BY <1>4, <1>5, <2>1, SubSeqProperties
  <2>3. DOMAIN s = 1 .. n
    BY <2>2, LenProperties
  <2> QED
    BY <1>4, <2>1, <2>2, <2>3
<1>7. /\ \A d \in Conns : toServer'[d] = IF d = c THEN s ELSE toServer[d]
      /\ \A d \in Conns : readyState'[d] = IF d = c THEN "closed" ELSE readyState[d]
      /\ \A d \in Conns : toClient'[d] = IF d = c THEN << >> ELSE toClient[d]
  BY <1>1, <1>4, <1>5 DEF HandleClose, TypeOK, NetTypeOK, ClientTypeOK
<1>8. \A d \in Conns : \A i \in DOMAIN toServer'[d] : toServer'[d][i].kind = "resume" =>
         \E j \in DOMAIN toServer[d] : toServer[d][j] = toServer'[d][i]
  BY <1>3, <1>6, <1>7
<1>9. \A d \in Conns : EventsOf(toClient'[d]) \subseteq EventsOf(toClient[d])
  BY <1>7, NoneWaits
<1>10. \A d \in Conns : d # c => Kept(d) /\ toServer'[d] = toServer[d]
  BY <1>7 DEF Kept
<1> QED
  BY <1>2, <1>7, <1>8, <1>9, <1>10, Calm

\* What the server has not read is gone, its resume too.
LEMMA ServerCloseCalm == ASSUME IInv, DInv, NEW c \in Conns, ServerClose(c) PROVE DInv'
<1>1. TypeOK
  BY DEF IInv
<1>2. UNCHANGED <<lastSeq, delivered, emitted, nextSeq, buffer, connSeq, rsOf, readyState, toClient, reported>>
  BY DEF ServerClose, clientVars
<1>3. /\ up[c] = "open"
      /\ \A d \in Conns : up'[d] = IF d = c THEN "closed" ELSE up[d]
      /\ \A d \in Conns : toServer'[d] = IF d = c THEN << >> ELSE toServer[d]
  BY <1>1 DEF ServerClose, TypeOK, NetTypeOK, ServerTypeOK
<1>4. \A d \in Conns : Kept(d)
  BY <1>2 DEF Kept
<1>5. DOMAIN << >> = {}
  BY EmptySeq
<1>6. \A d \in Conns : \A i \in DOMAIN toServer'[d] : toServer'[d][i].kind = "resume" =>
        \E j \in DOMAIN toServer[d] : toServer[d][j] = toServer'[d][i]
  BY <1>3, <1>5
<1>7. \A d \in Conns : readyState'[d] = "open" /\ up'[d] = "open" /\ NoResume(toServer'[d]) =>
                         readyState[d] = "open" /\ NoResume(toServer[d])
  BY <1>2, <1>3
<1> QED
  BY <1>2, <1>3, <1>4, <1>6, <1>7, Calm DEF Kept

\* Neither end of a connection moves.
LEMMA StillCalm ==
  ASSUME IInv, DInv,
         UNCHANGED <<lastSeq, delivered, emitted, nextSeq, buffer, connSeq, rsOf, up, toClient,
                     toServer, readyState, reported>>
  PROVE  DInv'
<1>1. \A c \in Conns : \A i \in DOMAIN toServer'[c] : \E j \in DOMAIN toServer[c] : toServer[c][j] = toServer'[c][i]
  OBVIOUS
<1> QED
  BY <1>1, CalmConnections

\* The client opens and reports the last number: until its resume is handled the connection
\* is not served.
LEMMA HandleOpenCalm == ASSUME IInv, UInv, DInv, NEW c \in Conns, HandleOpen(c) PROVE DInv'
<1>1. TypeOK
  BY DEF IInv
<1>2. /\ readyState[c] = "connecting" /\ reported' = lastSeq
      /\ UNCHANGED <<lastSeq, delivered, emitted, nextSeq, buffer, connSeq, rsOf, up, toClient>>
      /\ \A d \in Conns : readyState'[d] = IF d = c THEN "open" ELSE readyState[d]
  BY <1>1 DEF HandleOpen, serverVars, resumeVars, TypeOK, ClientTypeOK
<1>3. toServer[c] = << >>
  BY <1>2 DEF UInv, Ends
<1>4. PICK q \in ClientEnvelope : q = ResumeEnvelope /\ q.kind = "resume" /\ q.lastSeq = lastSeq
  <2>1. ResumeEnvelope \in [kind : {"resume"}, lastSeq : Nat]
    BY <1>1 DEF ResumeEnvelope, TypeOK, ClientTypeOK
  <2>2. ResumeEnvelope \in ClientEnvelope
    BY <2>1 DEF ClientEnvelope
  <2>3. ResumeEnvelope.kind = "resume" /\ ResumeEnvelope.lastSeq = lastSeq
    BY DEF ResumeEnvelope
  <2> QED
    BY <2>2, <2>3
<1>5. PICK o \in Seq(ClientEnvelope) : o = outbox /\ NoResume(o)
  BY <1>1, QueuedAreEnvelopes DEF TypeOK, ClientTypeOK
<1>6. PICK t \in Seq(ClientEnvelope) :
        /\ t = <<q>> \o o /\ ResumeFirst(t) /\ 1 \in DOMAIN t /\ t[1] = q
  <2>1. /\ <<q>> \in Seq(ClientEnvelope) /\ ResumeFirst(<<q>>)
        /\ Len(<<q>>) = 1 /\ <<q>>[1] = q
    BY OneEnvelope
  <2>2. PICK h \in Seq(ClientEnvelope) : h = <<q>> /\ ResumeFirst(h) /\ Len(h) = 1 /\ h[1] = q
    BY <2>1
  <2>3. h \o o \in Seq(ClientEnvelope) /\ ResumeFirst(h \o o)
    BY <1>5, <2>2, Behind
  <2>4. PICK n \in Nat : n = Len(o)
    BY LenProperties
  <2>5. /\ Len(h \o o) = 1 + n
        /\ \A i \in 1 .. 1 + n : (h \o o)[i] = IF i <= 1 THEN h[i] ELSE o[i - 1]
    BY <2>2, <2>4, ConcatProperties
  <2>6. 1 \in 1 .. 1 + n
    OBVIOUS
  <2>7. DOMAIN (h \o o) = 1 .. 1 + n
    BY <2>3, <2>5, LenProperties
  <2>8. (h \o o)[1] = q
    BY <2>2, <2>5, <2>6
  <2>9. PICK t : t = h \o o
    OBVIOUS
  <2>10. t \in Seq(ClientEnvelope) /\ ResumeFirst(t) /\ 1 \in DOMAIN t /\ t[1] = q
    BY <2>3, <2>6, <2>7, <2>8, <2>9
  <2> QED
    BY <2>2, <2>9, <2>10
<1>7. up[c] # "closed" => toServer'[c] = t
  <2>1. up[c] # "closed" => toServer'[c] = toServer[c] \o (<<q>> \o o)
    BY <1>1, <1>4, <1>5 DEF HandleOpen, Flush, Transmit, TypeOK, NetTypeOK
  <2>2. << >> \o t = t
    BY ConcatEmptySeq
  <2> QED
    BY <1>3, <1>6, <2>1, <2>2
<1>8. /\ up[c] = "closed" => toServer'[c] = toServer[c]
      /\ \A d \in Conns : d # c => toServer'[d] = toServer[d]
  BY <1>1 DEF HandleOpen, Flush, Transmit, TypeOK, NetTypeOK
<1>9. up'[c] = "open" => ~NoResume(toServer'[c])
  BY <1>2, <1>4, <1>6, <1>7 DEF NoResume
<1>10. ASSUME NEW d \in Conns, NEW i \in DOMAIN toServer'[d], toServer'[d][i].kind = "resume"
       PROVE  \/ \E j \in DOMAIN toServer[d] : toServer[d][j] = toServer'[d][i]
              \/ toServer'[d][i].lastSeq = reported'
  <2>1. CASE toServer'[d] = toServer[d]
    BY <2>1
  <2>2. CASE d = c /\ toServer'[d] = t
    BY <1>2, <1>4, <1>6, <1>10, <2>2 DEF ResumeFirst
  <2> QED
    BY <1>1, <1>7, <1>8, <2>1, <2>2
<1>11. \A d \in Conns : Kept(d)
  BY <1>2 DEF Kept
<1>12. \A d \in Conns : readyState'[d] = "open" /\ up'[d] = "open" /\ NoResume(toServer'[d]) =>
                          readyState[d] = "open" /\ NoResume(toServer[d])
  BY <1>2, <1>8, <1>9
<1> QED
  BY <1>2, <1>10, <1>11, <1>12, Calm DEF Kept

-----------------------------------------------------------------------------
(* Steps that emit and deliver *)

\* The client reads an event: it has the next number of the connection.
LEMMA ReceiveEventDown == ASSUME IInv, UInv, DInv, NEW c \in Conns, ReceiveEvent(c) PROVE DInv'
<1>1. TypeOK
  BY DEF IInv
<1>2. /\ readyState[c] = "open"
      /\ UNCHANGED <<emitted, nextSeq, buffer, connSeq, rsOf, up, readyState, toServer, reported>>
  BY DEF ReceiveEvent, serverVars, resumeVars
<1>3. PICK s \in Seq(ServerEnvelope) : s = toClient[c] /\ s # << >> /\ Head(s).kind = "event"
  BY <1>1 DEF ReceiveEvent, TypeOK, NetTypeOK
<1>4. PICK x \in ServerEnvelope : x = Head(s) /\ x.kind = "event" /\ x.ev \in Event
  <2>1. Head(s) \in ServerEnvelope
    BY <1>3, HeadTailProperties
  <2> QED
    BY <1>3, <2>1 DEF ServerEnvelope
<1>5. \A d \in Conns : toClient'[d] = IF d = c THEN Tail(s) ELSE toClient[d]
  BY <1>1, <1>3 DEF ReceiveEvent, TypeOK, NetTypeOK
<1>6. PICK l \in Nat : l = Len(delivered) /\ DOMAIN delivered = 1 .. l
  BY <1>1, LenProperties DEF TypeOK, HistoryTypeOK
<1>7. Len(delivered') = l + 1 /\ Elements(delivered') = Elements(delivered) \cup {x.ev}
  <2>1. PICK t \in Seq(Event) : t = delivered
    BY <1>1 DEF TypeOK, HistoryTypeOK
  <2>2. PICK w : w = Append(t, x.ev)
    OBVIOUS
  <2>3. /\ w \in Seq(Event) /\ Len(w) = l + 1 /\ DOMAIN w = 1 .. l + 1
        /\ \A i \in 1 .. l : w[i] = t[i]
        /\ w[l + 1] = x.ev
    BY <1>4, <1>6, <2>1, <2>2, AppendProperties, LenProperties
  <2>4. delivered' = w
    BY <1>3, <1>4, <2>1, <2>2 DEF ReceiveEvent
  <2>5. \A i \in 1 .. l + 1 : i \in 1 .. l \/ i = l + 1
    OBVIOUS
  <2>6. \A i \in 1 .. l : i \in 1 .. l + 1
    OBVIOUS
  <2>7. l + 1 \in 1 .. l + 1
    OBVIOUS
  <2>8. ASSUME NEW y \in Elements(w) PROVE y \in Elements(t) \cup {x.ev}
    BY <1>6, <2>1, <2>3, <2>5, <2>8 DEF Elements
  <2>9. ASSUME NEW y \in Elements(t) PROVE y \in Elements(w)
    BY <1>6, <2>1, <2>3, <2>6, <2>9 DEF Elements
  <2>10. x.ev \in Elements(w)
    BY <2>3, <2>7 DEF Elements
  <2> QED
    BY <2>1, <2>3, <2>4, <2>8, <2>9, <2>10
<1>8. EventsOf(s) = {x.ev} \cup EventsOf(Tail(s))
  <2>1. 0 \in Nat
    OBVIOUS
  <2> QED
    BY <1>3, <1>4, <2>1, EventRead
<1>9. PICK m \in Nat : Reading(c, m)
  BY <1>2 DEF DInv
<1>10. PICK n \in Nat : n = connSeq[c]
  BY <1>1 DEF TypeOK, ServerTypeOK
<1>11. /\ m <= l /\ m + 1 <= n /\ x.seq = m + 1
       /\ Runs(Tail(s), m + 1, n)
  <2>1. Runs(s, m, n) /\ m <= l
    BY <1>3, <1>6, <1>9, <1>10 DEF Reading
  <2> QED
    BY <1>3, <1>4, <2>1, EventRead
<1>12. Elements(delivered') \cup EventsOf(toClient'[c]) = Elements(delivered) \cup EventsOf(toClient[c])
  BY <1>3, <1>5, <1>7, <1>8
<1>13. \A d \in Conns : Served(d)' => d = c /\ Served(c)
  <2>1. \A d \in Conns : readyState[d] = "open" => d = c
    BY <1>2 DEF IInv, OneSocketOrTimer
  <2> QED
    BY <1>2, <1>12, <2>1 DEF Served
<1>14. Reports'
  <2>1. PICK k \in Nat : k = lastSeq /\ k <= l
    BY <1>1, <1>6 DEF TypeOK, ClientTypeOK, DInv, Reports
  <2>2. lastSeq' = IF m + 1 > k THEN m + 1 ELSE k
    BY <1>3, <1>4, <1>11, <2>1 DEF ReceiveEvent
  <2>3. PICK j \in Nat : j = lastSeq' /\ k <= j /\ j <= l + 1
    BY <1>11, <2>1, <2>2
  <2>4. PICK u \in Nat : u = reported /\ u <= k
    BY <1>1, <2>1 DEF TypeOK, HistoryTypeOK, DInv, Reports
  <2>5. reported' <= lastSeq'
    BY <1>2, <2>3, <2>4
  <2> QED
    BY <1>2, <1>7, <2>3, <2>5 DEF DInv, Reports
<1>15. Sources'
  <2>1. EventsOf(toClient[c]) \subseteq 0 .. emitted /\ Elements(delivered) \subseteq 0 .. emitted
    BY DEF DInv, Sources
  <2>2. Elements(delivered') \subseteq 0 .. emitted'
    BY <1>2, <1>3, <1>7, <1>8, <2>1
  <2>3. \A d \in Conns : EventsOf(toClient'[d]) \subseteq 0 .. emitted'
    BY <1>2, <1>3, <1>5, <1>8 DEF DInv, Sources
  <2> QED
    BY <1>2, <2>2, <2>3 DEF DInv, Sources
<1>16. ASSUME NEW d \in Conns, readyState'[d] # "closed" PROVE \E k \in Nat : Reading(d, k)'
  <2>1. CASE d = c
    <3>1. PICK q \in Nat : q = nextSeq[rsOf[c]]
      BY <1>1, <1>2, RsOfConns DEF UInv, Ends, TypeOK, ResumeTypeOK
    <3>2. Served(c)' => l + (n - m) >= q
      BY <1>6, <1>9, <1>10, <1>13, <3>1 DEF Reading
    <3>3. (l + 1) + (n - (m + 1)) = l + (n - m)
      OBVIOUS
    <3>4. Served(c)' => (l + 1) + (n - (m + 1)) >= q
      BY <3>2, <3>3
    <3>5. m + 1 \in Nat /\ m + 1 <= l + 1
      BY <1>11
    <3>6. Reading(c, m + 1)'
      BY <1>2, <1>5, <1>7, <1>10, <1>11, <3>1, <3>4, <3>5 DEF Reading
    <3> QED
      BY <2>1, <3>5, <3>6
  <2>2. CASE d # c
    <3>1. PICK k \in Nat : Reading(d, k)
      BY <1>2, <1>16 DEF DInv
    <3>2. k <= l + 1
      BY <1>6, <3>1 DEF Reading
    <3>3. Reading(d, k)'
      BY <1>2, <1>5, <1>7, <1>13, <2>2, <3>1, <3>2 DEF Reading
    <3> QED
      BY <3>3
  <2> QED
    BY <2>1, <2>2
<1>17. ASSUME SameSession', NEW d \in Conns
       PROVE  Complete(d)' /\ (up'[d] # "none" => Holds(rsOf[d])')
  <2>1. SameSession
    BY <1>2, <1>17 DEF SameSession
  <2>2. Complete(d)'
    <3> SUFFICES ASSUME Served(d)' PROVE \A e \in 1 .. emitted : e <= reported \/ e \in (Elements(delivered) \cup EventsOf(toClient[d]))'
      BY <1>2 DEF Complete
    <3>1. d = c /\ Served(c)
      BY <1>13
    <3>2. \A e \in 1 .. emitted : e <= reported \/ e \in Elements(delivered) \cup EventsOf(toClient[c])
      BY <2>1, <3>1 DEF DInv, Complete
    <3> QED
      BY <1>12, <3>1, <3>2
  <2>3. up'[d] # "none" => Holds(rsOf[d])'
    BY <1>2, <2>1 DEF DInv, Holds
  <2> QED
    BY <2>2, <2>3
<1>18. \A d \in Conns : readyState'[d] # "closed" => \E k \in Nat : Reading(d, k)'
  BY <1>16
<1> QED
  BY <1>14, <1>15, <1>17, <1>18 DEF DInv

\* What the ring buffers hold once r has pushed an event: what was emitted.
LEMMA PushedWasEmitted ==
  ASSUME IInv, NEW r \in Conns, NEW ev \in Nat, NEW e \in Nat, ev <= e, emitted <= e,
         \A d \in Conns : \A i \in DOMAIN buffer[d] : buffer[d][i].ev <= emitted,
         buffer' = [buffer EXCEPT ![r] = Push(r, ev)],
         NEW d \in Conns, NEW i \in DOMAIN buffer'[d]
  PROVE  buffer'[d][i].ev <= e
<1>1. TypeOK /\ ev \in Event
  BY DEF IInv, Event
<1>2. PICK n \in Nat : n = emitted
  BY <1>1 DEF TypeOK, HistoryTypeOK
<1>3. ASSUME NEW h \in Conns, NEW j \in DOMAIN buffer[h] PROVE buffer[h][j].ev <= e
  <2>1. buffer[h] \in Seq(Buffered)
    BY <1>1 DEF TypeOK, ResumeTypeOK
  <2>2. PICK x \in Buffered : x = buffer[h][j]
    BY <2>1, LenProperties, ElementOfSeq
  <2>3. PICK k \in Nat : k = x.ev
    BY <2>2 DEF Buffered, Event
  <2>4. k <= n
    BY <1>2, <2>2, <2>3
  <2>5. k <= e
    BY <1>2, <2>4
  <2> QED
    BY <2>2, <2>3, <2>5
<1>4. CASE d = r
  <2>1. buffer'[d] = Push(r, ev)
    BY <1>1, <1>4 DEF TypeOK, ResumeTypeOK
  <2>2. \/ buffer'[d][i].ev = ev
        \/ \E j \in DOMAIN buffer[r] : buffer'[d][i] = buffer[r][j]
    BY <1>1, <2>1, PushElements
  <2> QED
    BY <1>3, <2>2
<1>5. CASE d # r
  <2>1. buffer'[d] = buffer[d]
    BY <1>1, <1>5 DEF TypeOK, ResumeTypeOK
  <2> QED
    BY <1>3, <2>1
<1> QED
  BY <1>4, <1>5

\* An event of n or below, among those up to n or one more.
LEMMA UpToNext ==
  ASSUME NEW n \in Nat, NEW A, NEW B, A \subseteq 0 .. n, B \subseteq A \cup {n + 1}
  PROVE  B \subseteq 0 .. (n + 1)
<1>1. 0 .. n \subseteq 0 .. (n + 1) /\ n + 1 \in 0 .. (n + 1)
  OBVIOUS
<1> QED
  BY <1>1

\* The set of what is delivered by one event.
LEMMA OnlyEvent == ASSUME NEW e PROVE Elements(<<e>>) = {e} /\ Len(<<e>>) = 1
BY DEF Elements

\* The connection that is accepted is the newest, and nothing is read on an older one.
LEMMA AcceptDown == ASSUME IInv, UInv, DInv, NEW c \in Conns, Accept(c) PROVE DInv'
<1>1. TypeOK
  BY DEF IInv
<1>2. /\ readyState[c] = "connecting" /\ up[c] = "none"
      /\ \A d \in Conns : up'[d] = IF d = c THEN "open" ELSE up[d]
      /\ UNCHANGED <<lastSeq, delivered, readyState, toServer, reported>>
  BY <1>1 DEF Accept, clientVars, TypeOK, ServerTypeOK
<1>3. \A d \in Conns : ~Served(d)'
  <2>1. \A d \in Conns : readyState[d] # "open"
    BY <1>2 DEF IInv, OneSocketOrTimer
  <2> QED
    BY <1>2, <2>1 DEF Served
<1>4. PICK r \in Conns : r = SocketFor(c)
  BY <1>1 DEF SocketFor, TypeOK, ResumeTypeOK
<1>5. PICK e \in Nat : e = emitted
  BY <1>1 DEF TypeOK, HistoryTypeOK
<1>6. /\ up'[r] # "none"
      /\ \A d \in Conns : rsOf'[d] = IF d = c THEN r ELSE rsOf[d]
  <2>1. CASE registry # NoConn
    BY <1>1, <1>2, <1>4, <2>1 DEF Accept, Rebind, SocketFor, IInv, Accepted, TypeOK, ServerTypeOK
  <2>2. CASE registry = NoConn
    BY <1>1, <1>2, <1>4, <2>2 DEF Accept, Register, SocketFor, TypeOK, ServerTypeOK
  <2> QED
    BY <2>1, <2>2
<1>7. /\ emitted' = IF Greets THEN e + 1 ELSE e
      /\ emitted' \in Nat /\ e <= emitted'
  BY <1>5 DEF Accept, Greet
<1>8. ASSUME NEW d \in Conns
      PROVE  /\ EventsOf(toClient'[d]) \subseteq 0 .. emitted'
             /\ connSeq[d] <= connSeq'[d]
             /\ \A m \in Nat : m <= connSeq[d] /\ Runs(toClient[d], m, connSeq[d])
                                 => Runs(toClient'[d], m, connSeq'[d])
  <2>1. EventsOf(toClient[d]) \subseteq 0 .. e
    BY <1>5 DEF DInv, Sources
  <2>2. PICK k \in Nat : k = connSeq[d] /\ k <= k /\ k <= k + 1
    BY <1>1 DEF TypeOK, ServerTypeOK
  <2>3. CASE Greets
    <3>1. PICK evs \in Seq(Event) : evs = <<e + 1>> /\ Elements(evs) = {e + 1} /\ Len(evs) = 1
      <4>1. e + 1 \in Event
        BY DEF Event
      <4>2. <<e + 1>> \in Seq(Event)
        BY <4>1
      <4> QED
        BY <4>2, OnlyEvent
    <3>2. /\ connSeq' = [connSeq EXCEPT ![c] = @ + Len(evs)]
          /\ toClient' = [toClient EXCEPT ![c] = @ \o Wire(c, evs)]
      BY <1>5, <2>3, <3>1 DEF Accept, Greet
    <3>3. /\ d # c => toClient'[d] = toClient[d] /\ connSeq'[d] = connSeq[d]
          /\ d = c => /\ EventsOf(toClient'[d]) = EventsOf(toClient[d]) \cup Elements(evs)
                      /\ connSeq'[d] = connSeq[d] + Len(evs)
          /\ \A m \in Nat : m <= connSeq[d] /\ Runs(toClient[d], m, connSeq[d])
                              => Runs(toClient'[d], m, connSeq'[d])
      BY <1>1, <3>2, Wired
    <3>4. EventsOf(toClient'[d]) \subseteq EventsOf(toClient[d]) \cup {e + 1}
      BY <3>1, <3>3
    <3>5. EventsOf(toClient'[d]) \subseteq 0 .. (e + 1)
      BY <2>1, <3>4, UpToNext
    <3>6. connSeq[d] <= connSeq'[d]
      <4>1. connSeq'[d] = k \/ connSeq'[d] = k + 1
        BY <2>2, <3>1, <3>3
      <4> QED
        BY <2>2, <4>1
    <3> QED
      BY <1>7, <2>3, <3>3, <3>5, <3>6
  <2>4. CASE ~Greets
    <3>1. UNCHANGED <<connSeq, toClient>>
      BY <2>4 DEF Accept
    <3> QED
      BY <1>7, <2>1, <2>2, <2>4, <3>1
  <2> QED
    BY <2>3, <2>4
<1>9. /\ \A d \in Conns : d # r => nextSeq'[d] = nextSeq[d]
      /\ \A d \in Conns : \A i \in DOMAIN buffer'[d] : buffer'[d][i].ev <= emitted'
  <2>1. \A d \in Conns : \A i \in DOMAIN buffer[d] : buffer[d][i].ev <= emitted
    BY DEF DInv, Sources
  <2>2. CASE Greets
    <3>1. /\ nextSeq' = [nextSeq EXCEPT ![r] = @ + 1]
          /\ buffer' = [buffer EXCEPT ![r] = Push(r, e + 1)]
      BY <1>4, <1>5, <2>2 DEF Accept, Greet
    <3>2. \A d \in Conns : d # r => nextSeq'[d] = nextSeq[d]
      BY <1>1, <3>1 DEF TypeOK, ResumeTypeOK
    <3>3. e + 1 \in Nat /\ e + 1 <= e + 1 /\ emitted <= e + 1
      BY <1>5
    <3>4. ASSUME NEW d \in Conns, NEW i \in DOMAIN buffer'[d] PROVE buffer'[d][i].ev <= e + 1
      BY <2>1, <3>1, <3>3, PushedWasEmitted
    <3> QED
      BY <1>7, <2>2, <3>2, <3>4
  <2>3. CASE ~Greets
    BY <1>5, <1>7, <2>1, <2>3 DEF Accept
  <2> QED
    BY <2>2, <2>3
<1>10. Reports'
  BY <1>2 DEF DInv, Reports
<1>11. Sources'
  <2>1. \E d \in Conns : up'[d] # "none"
    BY <1>2
  <2>2. ASSUME NEW d \in Conns
        PROVE  /\ up'[d] = "none" => nextSeq'[d] = 0
               /\ up'[d] # "none" => up'[rsOf'[d]] # "none"
    <3>1. up'[d] = "none" => d # r /\ up[d] = "none"
      BY <1>2, <1>6
    <3>2. up'[d] # "none" => up'[rsOf'[d]] # "none"
      <4>1. CASE d = c
        BY <1>6, <4>1
      <4>2. CASE d # c /\ up[d] # "none"
        <5>1. rsOf[d] \in Conns /\ up[rsOf[d]] # "none"
          BY <4>2, RsOfConns DEF DInv, Sources
        <5> QED
          BY <1>2, <1>6, <4>2, <5>1
      <4> QED
        BY <1>2, <4>1, <4>2
    <3> QED
      BY <1>9, <3>1, <3>2 DEF DInv, Sources
  <2>3. Elements(delivered') \subseteq 0 .. emitted'
    <3>1. Elements(delivered) \subseteq 0 .. e
      BY <1>5 DEF DInv, Sources
    <3>2. 0 .. e \subseteq 0 .. emitted'
      BY <1>7
    <3> QED
      BY <1>2, <3>1, <3>2
  <2> QED
    BY <1>8, <1>9, <2>1, <2>2, <2>3 DEF Sources
<1>12. ASSUME NEW d \in Conns, readyState'[d] # "closed" PROVE \E k \in Nat : Reading(d, k)'
  <2>1. PICK m \in Nat : Reading(d, m)
    BY <1>2, <1>12 DEF DInv
  <2>2. PICK k \in Nat : k = connSeq[d] /\ m <= k
    BY <1>1, <2>1 DEF TypeOK, ServerTypeOK, Reading
  <2>3. connSeq' \in [Conns -> Nat]
    <3>1. IInv'
      BY AcceptInv
    <3> QED
      BY <3>1 DEF IInv, TypeOK, ServerTypeOK
  <2>4. PICK n \in Nat : n = connSeq'[d] /\ k <= n
    BY <1>8, <2>2, <2>3
  <2>5. m <= connSeq'[d]
    BY <2>2, <2>4
  <2>6. Reading(d, m)'
    BY <1>2, <1>3, <1>8, <2>1, <2>5 DEF Reading
  <2> QED
    BY <2>6
<1>13. ASSUME SameSession' PROVE Holds(r)'
  <2>1. Holding(buffer[r], nextSeq[r], e)
    <3>1. CASE registry # NoConn
      <4>1. r = registry /\ up[r] # "none" /\ rsOf[r] = r
        BY <1>4, <3>1 DEF SocketFor, IInv, Accepted, UInv, Ttl
      <4>2. \A a \in Conns : up[a] # "none" => a # c /\ up'[a] # "none" /\ rsOf'[a] = rsOf[a]
        BY <1>2, <1>6
      <4>3. SameSession
        BY <1>13, <4>2 DEF SameSession
      <4> QED
        BY <1>5, <4>1, <4>3 DEF DInv, Holds
    <3>2. CASE registry = NoConn
      <4>1. r = c
        BY <1>4, <3>2 DEF SocketFor
      <4>2. ASSUME NEW a \in Conns PROVE up[a] = "none"
        <5> SUFFICES ASSUME up[a] # "none" PROVE FALSE
          OBVIOUS
        <5>1. a # c /\ up'[a] # "none" /\ up'[c] # "none" /\ rsOf'[a] = rsOf[a] /\ rsOf'[c] = c
          BY <1>2, <1>6, <4>1
        <5>2. rsOf[a] = c
          BY <1>13, <5>1 DEF SameSession
        <5>3. up[rsOf[a]] # "none"
          BY DEF DInv, Sources
        <5> QED
          BY <1>2, <5>2, <5>3
      <4>3. e = 0 /\ nextSeq[r] = 0
        BY <1>5, <4>2 DEF DInv, Sources
      <4>4. PICK s \in Seq(Buffered) : s = buffer[r]
        BY <1>1 DEF TypeOK, ResumeTypeOK
      <4>5. Len(s) = 0
        BY <4>3, <4>4, ConstantsAssumption DEF IInv, BufferIsSuffix, ConstantsAssumption
      <4>6. DOMAIN s = {}
        BY <4>5, LenProperties
      <4>7. 0 <= 0 /\ 1 .. 0 = {}
        OBVIOUS
      <4> QED
        BY <4>3, <4>4, <4>6, <4>7 DEF Holding
    <3> QED
      BY <3>1, <3>2
  <2>2. CASE Greets
    <3>1. Holding(Push(r, e + 1), nextSeq[r] + 1, e + 1)
      <4>1. e + 1 \in Nat
        OBVIOUS
      <4> QED
        BY <2>1, <4>1, PushHolds
    <3>2. buffer'[r] = Push(r, e + 1) /\ nextSeq'[r] = nextSeq[r] + 1
      BY <1>1, <1>4, <1>5, <2>2 DEF Accept, Greet, TypeOK, ResumeTypeOK
    <3> QED
      BY <1>7, <2>2, <3>1, <3>2 DEF Holds
  <2>3. CASE ~Greets
    BY <1>5, <2>1, <2>3 DEF Accept, Holds
  <2> QED
    BY <2>2, <2>3
<1>14. ASSUME SameSession', NEW d \in Conns
       PROVE  Complete(d)' /\ (up'[d] # "none" => Holds(rsOf[d])')
  <2>1. Complete(d)'
    BY <1>3 DEF Complete
  <2>2. up'[d] # "none" => rsOf'[d] = r
    BY <1>2, <1>6, <1>14 DEF SameSession
  <2> QED
    BY <1>13, <1>14, <2>1, <2>2 DEF Holds
<1>15. \A d \in Conns : readyState'[d] # "closed" => \E k \in Nat : Reading(d, k)'
  BY <1>12
<1> QED
  BY <1>10, <1>11, <1>14, <1>15 DEF DInv

\* What the application emits leaves on the newest connection, the only one that is read.
LEMMA EmitDown == ASSUME IInv, UInv, DInv, NEW r \in Conns, Emit(r) PROVE DInv'
<1>1. TypeOK
  BY DEF IInv
<1>2. UNCHANGED <<lastSeq, delivered, readyState, toServer, reported, up, rsOf>>
  BY DEF Emit, clientVars
<1>3. PICK e \in Nat : e = emitted
  BY <1>1 DEF TypeOK, HistoryTypeOK
<1>4. PICK c \in Conns : /\ up[c] # "none" /\ rsOf[c] = r
                         /\ \A d \in Conns : up[d] # "none" => d <= c
  BY DEF Emit
<1>5. inner[r] = c
  <2>1. inner[r] \in c .. MaxConn /\ up[inner[r]] # "none"
    BY <1>4 DEF IInv, NewestIsBound
  <2>2. inner[r] \in Conns
    BY <2>1, ConstantsAssumption DEF ConstantsAssumption, Conns
  <2>3. inner[r] <= c
    BY <1>4, <2>1, <2>2
  <2> QED
    BY <2>1, <2>3, ConstantsAssumption DEF ConstantsAssumption, Conns
<1>6. PICK evs \in Seq(Event) : evs = <<e + 1>> /\ Elements(evs) = {e + 1} /\ Len(evs) = 1
  <2>1. e + 1 \in Event
    BY DEF Event
  <2>2. <<e + 1>> \in Seq(Event)
    BY <2>1
  <2> QED
    BY <2>2, OnlyEvent
<1>7. /\ emitted' = e + 1 /\ InnerEmit(c, evs)
      /\ nextSeq' = [nextSeq EXCEPT ![r] = @ + 1]
      /\ buffer' = [buffer EXCEPT ![r] = Push(r, e + 1)]
  BY <1>3, <1>5, <1>6 DEF Emit, RsEmit
<1>8. ASSUME NEW d \in Conns
      PROVE  /\ EventsOf(toClient[d]) \subseteq EventsOf(toClient'[d])
             /\ EventsOf(toClient'[d]) \subseteq EventsOf(toClient[d]) \cup {e + 1}
             /\ d = c /\ up[c] = "open" /\ readyState[c] # "closed" =>
                  e + 1 \in EventsOf(toClient'[d]) /\ connSeq'[d] = connSeq[d] + 1
             /\ connSeq[d] <= connSeq'[d]
             /\ readyState[d] # "closed" =>
                  \A m \in Nat : m <= connSeq[d] /\ Runs(toClient[d], m, connSeq[d])
                                  => Runs(toClient'[d], m, connSeq'[d])
  <2>1. /\ EventsOf(toClient[d]) \subseteq EventsOf(toClient'[d])
        /\ EventsOf(toClient'[d]) \subseteq EventsOf(toClient[d]) \cup Elements(evs)
        /\ d = c /\ up[c] = "open" /\ readyState[c] # "closed" =>
             Elements(evs) \subseteq EventsOf(toClient'[d]) /\ connSeq'[d] = connSeq[d] + Len(evs)
        /\ connSeq[d] <= connSeq'[d]
        /\ readyState[d] # "closed" =>
             \A m \in Nat : m <= connSeq[d] /\ Runs(toClient[d], m, connSeq[d])
                             => Runs(toClient'[d], m, connSeq'[d])
    BY <1>1, <1>7, Leaves
  <2> QED
    BY <1>6, <2>1
<1>9. ASSUME NEW d \in Conns, Served(d)' PROVE d = c /\ Served(c)
  <2>1. Elements(delivered') = Elements(delivered)
    BY <1>2
  <2>2. Served(d)
    BY <1>2, <1>8, <1>9, <2>1 DEF Served
  <2>3. c <= d /\ d <= c
    BY <1>4, <2>2, OpenIsNewest DEF Served
  <2>4. d = c
    BY <2>3, ConstantsAssumption DEF ConstantsAssumption, Conns
  <2> QED
    BY <2>2, <2>4
<1>10. Reports'
  BY <1>2 DEF DInv, Reports
<1>11. up[r] # "none"
  BY <1>4 DEF DInv, Sources
<1>12. \A d \in Conns : d # r => nextSeq'[d] = nextSeq[d]
  BY <1>1, <1>7 DEF TypeOK, ResumeTypeOK
<1>13. Sources'
  <2>1. ASSUME NEW d \in Conns
        PROVE  /\ up'[d] = "none" => nextSeq'[d] = 0
               /\ up'[d] # "none" => up'[rsOf'[d]] # "none"
    <3>1. up[d] = "none" => d # r
      BY <1>11
    <3> QED
      BY <1>2, <1>12, <3>1 DEF DInv, Sources
  <2>2. ASSUME NEW d \in Conns PROVE EventsOf(toClient'[d]) \subseteq 0 .. emitted'
    <3>1. EventsOf(toClient[d]) \subseteq 0 .. e
      BY <1>3 DEF DInv, Sources
    <3>2. EventsOf(toClient'[d]) \subseteq 0 .. (e + 1)
      BY <1>8, <3>1, UpToNext
    <3> QED
      BY <1>7, <3>2
  <2>3. ASSUME NEW d \in Conns, NEW i \in DOMAIN buffer'[d] PROVE buffer'[d][i].ev <= emitted'
    <3>1. e + 1 \in Nat /\ e + 1 <= e + 1 /\ emitted <= e + 1
      BY <1>3
    <3>2. \A h \in Conns : \A j \in DOMAIN buffer[h] : buffer[h][j].ev <= emitted
      BY DEF DInv, Sources
    <3>3. buffer'[d][i].ev <= e + 1
      BY <1>7, <3>1, <3>2, PushedWasEmitted
    <3> QED
      BY <1>7, <3>3
  <2>4. Elements(delivered') \subseteq 0 .. emitted'
    <3>1. Elements(delivered) \subseteq 0 .. e
      BY <1>3 DEF DInv, Sources
    <3>2. 0 .. e \subseteq 0 .. (e + 1)
      OBVIOUS
    <3> QED
      BY <1>2, <1>7, <3>1, <3>2
  <2>5. \E d \in Conns : up'[d] # "none"
    BY <1>2, <1>4
  <2> QED
    BY <2>1, <2>2, <2>3, <2>4, <2>5 DEF Sources
<1>14. connSeq' \in [Conns -> Nat]
  <2>1. IInv'
    BY EmitInv
  <2> QED
    BY <2>1 DEF IInv, TypeOK, ServerTypeOK
<1>15. ASSUME NEW d \in Conns, readyState'[d] # "closed" PROVE \E k \in Nat : Reading(d, k)'
  <2>1. PICK m \in Nat : Reading(d, m)
    BY <1>2, <1>15 DEF DInv
  <2>2. PICK k \in Nat : k = connSeq[d] /\ m <= k
    BY <1>1, <2>1 DEF TypeOK, ServerTypeOK, Reading
  <2>3. PICK n \in Nat : n = connSeq'[d] /\ k <= n
    BY <1>8, <1>14, <2>2
  <2>4. m <= connSeq'[d] /\ Runs(toClient'[d], m, connSeq'[d])
    BY <1>2, <1>8, <1>15, <2>1, <2>2, <2>3 DEF Reading
  <2>5. ASSUME Served(d)' PROVE Len(delivered) + (connSeq'[d] - m) >= nextSeq'[rsOf[d]]
    <3>1. d = c /\ Served(c)
      BY <1>9, <2>5
    <3>2. PICK q \in Nat : q = nextSeq[r]
      BY <1>1 DEF TypeOK, ResumeTypeOK
    <3>3. PICK l \in Nat : l = Len(delivered)
      BY <1>1, LenProperties DEF TypeOK, HistoryTypeOK
    <3>4. l + (k - m) >= q
      BY <1>4, <2>1, <2>2, <3>1, <3>2, <3>3 DEF Reading
    <3>5. n = k + 1
      BY <1>8, <2>2, <2>3, <3>1 DEF Served
    <3>6. nextSeq'[r] = q + 1
      BY <1>1, <1>7, <3>2 DEF TypeOK, ResumeTypeOK
    <3>7. l + (n - m) >= q + 1
      BY <3>4, <3>5
    <3> QED
      BY <1>4, <2>3, <3>1, <3>3, <3>6, <3>7
  <2>6. Reading(d, m)'
    BY <1>2, <2>1, <2>4, <2>5 DEF Reading
  <2> QED
    BY <2>6
<1>16. ASSUME SameSession', NEW d \in Conns
       PROVE  Complete(d)' /\ (up'[d] # "none" => Holds(rsOf[d])')
  <2>1. SameSession
    BY <1>2, <1>16 DEF SameSession
  <2>2. Complete(d)'
    <3> SUFFICES ASSUME Served(d)', NEW x \in 1 .. (e + 1)
                 PROVE  x <= reported \/ x \in Elements(delivered) \cup EventsOf(toClient'[d])
      BY <1>2, <1>7 DEF Complete
    <3>1. d = c /\ Served(c)
      BY <1>9
    <3>2. CASE x \in 1 .. e
      <4>1. x <= reported \/ x \in Elements(delivered) \cup EventsOf(toClient[c])
        BY <1>3, <2>1, <3>1, <3>2 DEF DInv, Complete
      <4> QED
        BY <1>8, <3>1, <4>1
    <3>3. CASE x \notin 1 .. e
      <4>1. x = e + 1
        BY <3>3
      <4> QED
        BY <1>8, <3>1, <4>1 DEF Served
    <3> QED
      BY <3>2, <3>3
  <2>3. ASSUME up[d] # "none" PROVE Holds(rsOf[d])'
    <3>1. rsOf[d] = r
      BY <1>4, <2>1, <2>3 DEF SameSession
    <3>2. Holding(buffer[r], nextSeq[r], e)
      BY <1>3, <2>1, <2>3, <3>1 DEF DInv, Holds
    <3>3. Holding(Push(r, e + 1), nextSeq[r] + 1, e + 1)
      <4>1. e + 1 \in Nat
        OBVIOUS
      <4> QED
        BY <3>2, <4>1, PushHolds
    <3>4. buffer'[r] = Push(r, e + 1) /\ nextSeq'[r] = nextSeq[r] + 1
      BY <1>1, <1>7 DEF TypeOK, ResumeTypeOK
    <3> QED
      BY <1>2, <1>7, <3>1, <3>3, <3>4 DEF Holds
  <2> QED
    BY <1>2, <2>2, <2>3
<1>17. \A d \in Conns : readyState'[d] # "closed" => \E k \in Nat : Reading(d, k)'
  BY <1>15
<1> QED
  BY <1>10, <1>13, <1>16, <1>17 DEF DInv

\* What the server sends in answer to the resume of c: what its ring buffer holds behind the
\* number reported, or one refresh.
LEMMA ResumeSends ==
  ASSUME IInv, UInv, DInv, NEW c \in Conns, HandleResume(c)
  PROVE  \E r \in Conns, k \in Nat, evs \in Seq(Event) :
           /\ r = rsOf[c] /\ up[c] = "open" /\ inner[r] \in Conns /\ InnerEmit(inner[r], evs)
           /\ k <= reported /\ rsOf[inner[r]] = r
           /\ NoResume(toServer'[c]) /\ \A d \in Conns : d # c => toServer'[d] = toServer[d]
           /\ \/ /\ evs = <<Refresh>> /\ Elements(evs) = {Refresh}
                 /\ nextSeq' = [nextSeq EXCEPT ![r] = @ + 1]
                 /\ buffer' = [buffer EXCEPT ![r] = Push(r, Refresh)]
              \/ /\ evs = Replayed(r, k) /\ ~Gap(r, k)
                 /\ UNCHANGED <<nextSeq, buffer>>
<1>1. TypeOK
  BY DEF IInv
<1>2. Receives(c, "resume")
  BY DEF HandleResume
<1>3. up[c] = "open" /\ up[c] # "none"
  BY <1>2 DEF Receives
<1>4. PICK r \in Conns : r = rsOf[c]
  BY <1>3, RsOfConns
<1>5. PICK q \in Seq(ClientEnvelope) : q = toServer[c] /\ q # << >>
  BY <1>1, <1>2 DEF Receives, TypeOK, NetTypeOK
<1>6. PICK x \in ClientEnvelope : x = Head(q) /\ x.kind = "resume" /\ x = q[1] /\ 1 \in DOMAIN q
  <2>1. Head(q) \in ClientEnvelope /\ Head(q) = q[1]
    BY <1>5, HeadTailProperties
  <2>2. Len(q) \in Nat /\ Len(q) # 0 /\ DOMAIN q = 1 .. Len(q)
    BY <1>5, EmptySeq, LenProperties
  <2> QED
    BY <1>2, <1>5, <2>1, <2>2 DEF Receives
<1>7. PICK k \in Nat : k = x.lastSeq
  BY <1>6 DEF ClientEnvelope, Queued
<1>8. k <= reported
  BY <1>5, <1>6, <1>7 DEF DInv, Reports
<1>9. NoResume(toServer'[c]) /\ \A d \in Conns : d # c => toServer'[d] = toServer[d]
  <2>1. toServer' = [toServer EXCEPT ![c] = Tail(q)]
    BY <1>2, <1>5 DEF Receives
  <2>2. ResumeFirst(q)
    BY <1>5 DEF UInv, Flow, Queues
  <2>3. NoResume(Tail(q))
    BY <1>5, <2>2, FirstOff
  <2> QED
    BY <1>1, <2>1, <2>3 DEF TypeOK, NetTypeOK
<1>10. inner[r] \in Conns /\ rsOf[inner[r]] = r
  <2>1. inner[r] \in c .. MaxConn /\ rsOf[inner[r]] = r
    BY <1>3, <1>4 DEF IInv, NewestIsBound
  <2> QED
    BY <2>1, ConstantsAssumption DEF ConstantsAssumption, Conns
<1>11. CASE Gap(r, k)
  <2>1. RsEmit(r, Refresh)
    BY <1>4, <1>5, <1>6, <1>7, <1>11 DEF HandleResume
  <2>2. Refresh \in Event
    BY DEF Refresh, Event
  <2>3. PICK evs \in Seq(Event) : evs = <<Refresh>>
    <3>1. <<Refresh>> \in Seq(Event)
      BY <2>2
    <3> QED
      BY <3>1
  <2>4. Elements(evs) = {Refresh}
    BY <2>3, OnlyEvent
  <2>5. /\ nextSeq' = [nextSeq EXCEPT ![r] = @ + 1]
        /\ buffer' = [buffer EXCEPT ![r] = Push(r, Refresh)]
        /\ InnerEmit(inner[r], evs)
    BY <2>1, <2>3 DEF RsEmit
  <2> QED
    BY <1>3, <1>4, <1>8, <1>9, <1>10, <2>3, <2>4, <2>5
<1>12. CASE ~Gap(r, k)
  <2>1. InnerEmit(inner[r], Replayed(r, k)) /\ UNCHANGED <<buffer, nextSeq>>
    BY <1>4, <1>5, <1>6, <1>7, <1>12 DEF HandleResume
  <2>2. Replayed(r, k) \in Seq(Event)
    BY <1>12, ReplayedLength
  <2> QED
    BY <1>3, <1>4, <1>8, <1>9, <1>10, <1>12, <2>1, <2>2
<1> QED
  BY <1>11, <1>12

\* The client is told to refresh: a connection that gets the refresh is not served any more.
LEMMA RefreshDown ==
  ASSUME IInv, UInv, DInv, NEW c \in Conns, HandleResume(c),
         NEW r \in Conns, NEW evs \in Seq(Event), r = rsOf[c], up[c] = "open",
         inner[r] \in Conns, InnerEmit(inner[r], evs), rsOf[inner[r]] = r,
         NoResume(toServer'[c]), \A d \in Conns : d # c => toServer'[d] = toServer[d],
         Elements(evs) = {Refresh},
         nextSeq' = [nextSeq EXCEPT ![r] = @ + 1],
         buffer' = [buffer EXCEPT ![r] = Push(r, Refresh)]
  PROVE  DInv'
<1>1. TypeOK
  BY DEF IInv
<1>2. UNCHANGED <<lastSeq, delivered, readyState, reported, up, rsOf, emitted>>
  BY DEF HandleResume, clientVars, historyVars
<1>3. PICK e \in Nat : e = emitted
  BY <1>1 DEF TypeOK, HistoryTypeOK
<1>4. PICK x \in Conns : x = inner[r] /\ InnerEmit(x, evs) /\ rsOf[x] = r
  OBVIOUS
<1>5. ASSUME NEW d \in Conns
      PROVE  /\ d # x => toClient'[d] = toClient[d] /\ connSeq'[d] = connSeq[d]
             /\ EventsOf(toClient[d]) \subseteq EventsOf(toClient'[d])
             /\ EventsOf(toClient'[d]) \subseteq EventsOf(toClient[d]) \cup {Refresh}
             /\ d = x /\ up[x] = "open" /\ readyState[x] # "closed" => Refresh \in EventsOf(toClient'[d])
             /\ connSeq[d] <= connSeq'[d]
             /\ readyState[d] # "closed" =>
                  \A m \in Nat : m <= connSeq[d] /\ Runs(toClient[d], m, connSeq[d])
                                  => Runs(toClient'[d], m, connSeq'[d])
  <2>1. /\ d # x => toClient'[d] = toClient[d] /\ connSeq'[d] = connSeq[d]
        /\ EventsOf(toClient[d]) \subseteq EventsOf(toClient'[d])
        /\ EventsOf(toClient'[d]) \subseteq EventsOf(toClient[d]) \cup Elements(evs)
        /\ d = x /\ up[x] = "open" /\ readyState[x] # "closed" => Elements(evs) \subseteq EventsOf(toClient'[d])
        /\ connSeq[d] <= connSeq'[d]
        /\ readyState[d] # "closed" =>
             \A m \in Nat : m <= connSeq[d] /\ Runs(toClient[d], m, connSeq[d])
                             => Runs(toClient'[d], m, connSeq'[d])
    BY <1>1, <1>4, Leaves
  <2> QED
    BY <2>1
<1>6. ASSUME NEW d \in Conns, Served(d)' PROVE d # x /\ d # c /\ rsOf[d] # r /\ Served(d)
  <2>1. readyState[d] = "open" /\ up[d] = "open" /\ Refresh \notin EventsOf(toClient'[d])
    BY <1>2, <1>6 DEF Served
  <2>2. d # x
    BY <1>5, <2>1
  <2>3. inner[rsOf[d]] = d
    BY <2>1, OpenIsNewest
  <2>4. rsOf[d] # r /\ d # c
    BY <1>4, <2>2, <2>3
  <2>5. Served(d)
    BY <1>2, <1>5, <1>6, <2>2, <2>4 DEF Served, Elements
  <2> QED
    BY <2>2, <2>4, <2>5
<1>7. Reports'
  <2>1. ASSUME NEW d \in Conns, NEW i \in DOMAIN toServer'[d], toServer'[d][i].kind = "resume"
        PROVE  toServer'[d][i].lastSeq <= reported
    BY <2>1 DEF NoResume, DInv, Reports
  <2> QED
    BY <1>2, <2>1 DEF DInv, Reports
<1>8. \A d \in Conns : d # r => nextSeq'[d] = nextSeq[d]
  BY <1>1 DEF TypeOK, ResumeTypeOK
<1>9. Sources'
  <2>1. up[r] # "none"
    BY DEF DInv, Sources
  <2>2. ASSUME NEW d \in Conns
        PROVE  /\ up'[d] = "none" => nextSeq'[d] = 0
               /\ up'[d] # "none" => up'[rsOf'[d]] # "none"
    <3>1. up[d] = "none" => d # r
      BY <2>1
    <3> QED
      BY <1>2, <1>8, <3>1 DEF DInv, Sources
  <2>3. ASSUME NEW d \in Conns PROVE EventsOf(toClient'[d]) \subseteq 0 .. emitted'
    <3>1. EventsOf(toClient[d]) \subseteq 0 .. e
      BY <1>3 DEF DInv, Sources
    <3>2. Refresh \in 0 .. e
      BY DEF Refresh
    <3> QED
      BY <1>2, <1>3, <1>5, <3>1, <3>2
  <2>4. ASSUME NEW d \in Conns, NEW i \in DOMAIN buffer'[d] PROVE buffer'[d][i].ev <= emitted'
    <3>1. Refresh \in Nat /\ Refresh <= e /\ emitted <= e
      BY <1>3 DEF Refresh
    <3>2. \A h \in Conns : \A j \in DOMAIN buffer[h] : buffer[h][j].ev <= emitted
      BY DEF DInv, Sources
    <3>3. buffer'[d][i].ev <= e
      BY <3>1, <3>2, PushedWasEmitted
    <3> QED
      BY <1>2, <1>3, <3>3
  <2>5. Elements(delivered') \subseteq 0 .. emitted'
    BY <1>2 DEF DInv, Sources
  <2>6. \E d \in Conns : up'[d] # "none"
    BY <1>2
  <2> QED
    BY <2>2, <2>3, <2>4, <2>5, <2>6 DEF Sources
<1>10. connSeq' \in [Conns -> Nat]
  <2>1. IInv'
    BY HandleResumeInv
  <2> QED
    BY <2>1 DEF IInv, TypeOK, ServerTypeOK
<1>11. ASSUME NEW d \in Conns, readyState'[d] # "closed" PROVE \E k \in Nat : Reading(d, k)'
  <2>1. PICK m \in Nat : Reading(d, m)
    BY <1>2, <1>11 DEF DInv
  <2>2. PICK k \in Nat : k = connSeq[d] /\ m <= k
    BY <1>1, <2>1 DEF TypeOK, ServerTypeOK, Reading
  <2>3. PICK n \in Nat : n = connSeq'[d] /\ k <= n
    BY <1>5, <1>10, <2>2
  <2>4. m <= connSeq'[d] /\ Runs(toClient'[d], m, connSeq'[d])
    BY <1>2, <1>5, <1>11, <2>1, <2>2, <2>3 DEF Reading
  <2>5. ASSUME Served(d)' PROVE Len(delivered) + (connSeq'[d] - m) >= nextSeq'[rsOf[d]]
    <3>1. d # x /\ rsOf[d] # r /\ Served(d)
      BY <1>6, <2>5
    <3>2. rsOf[d] \in Conns
      BY <3>1, RsOfConns DEF Served
    <3> QED
      BY <1>5, <1>8, <2>1, <3>1, <3>2 DEF Reading
  <2>6. Reading(d, m)'
    BY <1>2, <2>1, <2>4, <2>5 DEF Reading
  <2> QED
    BY <2>6
<1>12. ASSUME SameSession', NEW d \in Conns
       PROVE  Complete(d)' /\ (up'[d] # "none" => Holds(rsOf[d])')
  <2>1. SameSession
    BY <1>2, <1>12 DEF SameSession
  <2>2. up[d] # "none" => rsOf[d] = r
    BY <2>1 DEF SameSession
  <2>3. Complete(d)'
    <3>1. ~Served(d)'
      BY <1>6, <2>2 DEF Served
    <3> QED
      BY <3>1 DEF Complete
  <2>4. ASSUME up[d] # "none" PROVE Holds(rsOf[d])'
    <3>1. Holding(buffer[r], nextSeq[r], e)
      BY <1>3, <2>1, <2>2, <2>4 DEF DInv, Holds
    <3>2. Holding(Push(r, Refresh), nextSeq[r] + 1, e)
      BY <3>1, PushHolds DEF Refresh
    <3>3. buffer'[r] = Push(r, Refresh) /\ nextSeq'[r] = nextSeq[r] + 1
      BY <1>1 DEF TypeOK, ResumeTypeOK
    <3> QED
      BY <1>2, <1>3, <2>2, <2>4, <3>2, <3>3 DEF Holds
  <2> QED
    BY <1>2, <2>3, <2>4
<1>13. \A d \in Conns : readyState'[d] # "closed" => \E k \in Nat : Reading(d, k)'
  BY <1>11
<1> QED
  BY <1>7, <1>9, <1>12, <1>13 DEF DInv

\* What was missed is replayed: of the events above the number reported none is left out, and
\* as many leave as the ResumableSocket is ahead of that number.
LEMMA ReplayDown ==
  ASSUME IInv, UInv, DInv, NEW c \in Conns, HandleResume(c),
         NEW r \in Conns, NEW k \in Nat, NEW evs \in Seq(Event), r = rsOf[c], up[c] = "open",
         inner[r] \in Conns, InnerEmit(inner[r], evs), rsOf[inner[r]] = r, k <= reported,
         NoResume(toServer'[c]), \A d \in Conns : d # c => toServer'[d] = toServer[d],
         evs = Replayed(r, k), ~Gap(r, k), UNCHANGED <<nextSeq, buffer>>
  PROVE  DInv'
<1>1. TypeOK
  BY DEF IInv
<1>2. UNCHANGED <<lastSeq, delivered, readyState, reported, up, rsOf, emitted>>
  BY DEF HandleResume, clientVars, historyVars
<1>3. PICK e \in Nat : e = emitted
  BY <1>1 DEF TypeOK, HistoryTypeOK
<1>4. PICK x \in Conns : x = inner[r] /\ InnerEmit(x, evs) /\ rsOf[x] = r
  OBVIOUS
<1>5. ASSUME NEW d \in Conns
      PROVE  /\ d # x => toClient'[d] = toClient[d] /\ connSeq'[d] = connSeq[d]
             /\ EventsOf(toClient[d]) \subseteq EventsOf(toClient'[d])
             /\ EventsOf(toClient'[d]) \subseteq EventsOf(toClient[d]) \cup Elements(evs)
             /\ d = x /\ up[x] = "open" /\ readyState[x] # "closed" =>
                  Elements(evs) \subseteq EventsOf(toClient'[d]) /\ connSeq'[d] = connSeq[d] + Len(evs)
             /\ connSeq[d] <= connSeq'[d]
             /\ readyState[d] # "closed" =>
                  \A m \in Nat : m <= connSeq[d] /\ Runs(toClient[d], m, connSeq[d])
                                  => Runs(toClient'[d], m, connSeq'[d])
  <2>1. PICK w \in Seq(Event) : w = evs
    OBVIOUS
  <2>2. InnerEmit(x, w)
    BY <1>4, <2>1
  <2>3. /\ d # x => toClient'[d] = toClient[d] /\ connSeq'[d] = connSeq[d]
        /\ EventsOf(toClient[d]) \subseteq EventsOf(toClient'[d])
        /\ EventsOf(toClient'[d]) \subseteq EventsOf(toClient[d]) \cup Elements(w)
        /\ d = x /\ up[x] = "open" /\ readyState[x] # "closed" =>
             Elements(w) \subseteq EventsOf(toClient'[d]) /\ connSeq'[d] = connSeq[d] + Len(w)
        /\ connSeq[d] <= connSeq'[d]
        /\ readyState[d] # "closed" =>
             \A m \in Nat : m <= connSeq[d] /\ Runs(toClient[d], m, connSeq[d])
                             => Runs(toClient'[d], m, connSeq'[d])
    BY <1>1, <2>2, Leaves
  <2> QED
    BY <2>1, <2>3
<1>6. ASSUME NEW d \in Conns, Served(d)' PROVE d = x \/ (d # x /\ Served(d))
  <2>1. readyState[d] = "open" /\ up[d] = "open"
    BY <1>2, <1>6 DEF Served
  <2>2. inner[rsOf[d]] = d
    BY <2>1, OpenIsNewest
  <2>3. CASE d # x
    <3>1. d # c
      BY <1>4, <2>2, <2>3
    <3> QED
      BY <1>2, <1>5, <1>6, <2>3, <3>1 DEF Served, Elements
  <2> QED
    BY <2>3
<1>7. /\ \A i \in DOMAIN buffer[r] : buffer[r][i].seq > k => buffer[r][i].ev \in Elements(evs)
      /\ \A y \in Elements(evs) : \E i \in DOMAIN buffer[r] : y = buffer[r][i].ev
  BY ReplayedEvents
<1>8. Reports'
  <2>1. ASSUME NEW d \in Conns, NEW i \in DOMAIN toServer'[d], toServer'[d][i].kind = "resume"
        PROVE  toServer'[d][i].lastSeq <= reported
    BY <2>1 DEF NoResume, DInv, Reports
  <2> QED
    BY <1>2, <2>1 DEF DInv, Reports
<1>9. Sources'
  <2>1. Elements(evs) \subseteq 0 .. e
    <3> SUFFICES ASSUME NEW y \in Elements(evs) PROVE y \in 0 .. e
      OBVIOUS
    <3>1. y \in Nat
      <4>1. PICK i \in DOMAIN evs : y = evs[i]
        BY DEF Elements
      <4> QED
        BY <4>1, LenProperties, ElementOfSeq DEF Event
    <3>2. y <= e
      BY <1>3, <1>7 DEF DInv, Sources
    <3> QED
      BY <3>1, <3>2
  <2>2. ASSUME NEW d \in Conns PROVE EventsOf(toClient'[d]) \subseteq 0 .. emitted'
    <3>1. EventsOf(toClient[d]) \subseteq 0 .. e
      BY <1>3 DEF DInv, Sources
    <3>2. EventsOf(toClient'[d]) \subseteq EventsOf(toClient[d]) \cup Elements(evs)
      BY <1>5
    <3> QED
      BY <1>2, <1>3, <2>1, <3>1, <3>2
  <2>3. Elements(delivered') = Elements(delivered)
    BY <1>2
  <2> QED
    BY <1>2, <2>2, <2>3 DEF DInv, Sources
<1>10. connSeq' \in [Conns -> Nat]
  <2>1. IInv'
    BY HandleResumeInv
  <2> QED
    BY <2>1 DEF IInv, TypeOK, ServerTypeOK
<1>11. ASSUME NEW d \in Conns, readyState'[d] # "closed" PROVE \E j \in Nat : Reading(d, j)'
  <2>1. PICK m \in Nat : Reading(d, m)
    BY <1>2, <1>11 DEF DInv
  <2>2. PICK a \in Nat : a = connSeq[d] /\ m <= a
    BY <1>1, <2>1 DEF TypeOK, ServerTypeOK, Reading
  <2>3. PICK n \in Nat : n = connSeq'[d] /\ a <= n
    BY <1>5, <1>10, <2>2
  <2>4. m <= connSeq'[d] /\ Runs(toClient'[d], m, connSeq'[d])
    BY <1>2, <1>5, <1>11, <2>1, <2>2, <2>3 DEF Reading
  <2>5. ASSUME Served(d)' PROVE Len(delivered) + (connSeq'[d] - m) >= nextSeq[rsOf[d]]
    <3>1. CASE d = x
      <4>1. PICK q \in Nat : q = nextSeq[r]
        BY <1>1 DEF TypeOK, ResumeTypeOK
      <4>2. PICK l \in Nat : l = Len(delivered)
        BY <1>1, LenProperties DEF TypeOK, HistoryTypeOK
      <4>3. k <= l
        <5>1. PICK u \in Nat : u = reported
          BY <1>1 DEF TypeOK, HistoryTypeOK
        <5>2. PICK v \in Nat : v = lastSeq
          BY <1>1 DEF TypeOK, ClientTypeOK
        <5>3. u <= v /\ v <= l
          BY <4>2, <5>1, <5>2 DEF DInv, Reports
        <5> QED
          BY <5>1, <5>3
      <4>4. PICK z \in Nat : z = Len(evs) /\ z = IF k < q THEN q - k ELSE 0
        BY <4>1, LenProperties, ReplayedLength
      <4>5. n = a + z
        BY <1>2, <1>5, <2>2, <2>3, <2>5, <3>1, <4>4 DEF Served
      <4>6. l + (n - m) >= q
        BY <2>2, <4>3, <4>4, <4>5
      <4> QED
        BY <1>4, <2>3, <3>1, <4>1, <4>2, <4>6
    <3>2. CASE d # x
      <4>1. Served(d)
        BY <1>6, <2>5, <3>2
      <4> QED
        BY <1>5, <2>1, <3>2, <4>1 DEF Reading
    <3> QED
      BY <3>1, <3>2
  <2>6. Reading(d, m)'
    BY <1>2, <2>1, <2>4, <2>5 DEF Reading
  <2> QED
    BY <2>6
<1>12. ASSUME SameSession', NEW d \in Conns
       PROVE  Complete(d)' /\ (up'[d] # "none" => Holds(rsOf[d])')
  <2>1. SameSession
    BY <1>2, <1>12 DEF SameSession
  <2>2. up[d] # "none" => rsOf[d] = r /\ Holding(buffer[r], nextSeq[r], e)
    BY <1>3, <2>1 DEF SameSession, DInv, Holds
  <2>3. Complete(d)'
    <3> SUFFICES ASSUME Served(d)', NEW y \in 1 .. e
                 PROVE  y <= reported \/ y \in Elements(delivered) \cup EventsOf(toClient'[d])
      BY <1>2, <1>3 DEF Complete
    <3>1. CASE d # x
      <4>1. Served(d)
        BY <1>6, <3>1
      <4>2. y <= reported \/ y \in Elements(delivered) \cup EventsOf(toClient[d])
        BY <1>3, <2>1, <4>1 DEF DInv, Complete
      <4> QED
        BY <1>5, <4>2
    <3>2. CASE d = x
      <4>1. Elements(evs) \subseteq EventsOf(toClient'[d])
        BY <1>2, <1>5, <3>2 DEF Served
      <4>2. PICK u \in Nat : u = reported /\ k <= u
        BY <1>1 DEF TypeOK, HistoryTypeOK
      <4>3. Holding(buffer[r], nextSeq[r], e)
        BY <1>2, <2>2 DEF Served
      <4>4. PICK b \in Seq(Buffered) : b = buffer[r]
        BY <1>1 DEF TypeOK, ResumeTypeOK
      <4>5. \A i \in DOMAIN b : b[i].seq \in Nat
        <5>1. ASSUME NEW i \in DOMAIN b PROVE b[i] \in Buffered
          BY LenProperties, ElementOfSeq
        <5> QED
          BY <5>1 DEF Buffered
      <4>6. CASE y <= k
        BY <4>2, <4>6
      <4>7. CASE ~(y <= k)
        <5>1. ASSUME NEW i \in DOMAIN b, b[i].ev = y PROVE y \in Elements(evs)
          <6>1. y <= b[i].seq
            BY <4>3, <4>4, <5>1 DEF Holding
          <6>2. b[i].seq > k
            BY <4>5, <4>7, <5>1, <6>1
          <6> QED
            BY <1>7, <4>4, <5>1, <6>2
        <5>2. ~(b # << >> /\ y < b[1].seq)
          <6> SUFFICES ASSUME b # << >>, y < b[1].seq PROVE FALSE
            OBVIOUS
          <6>1. ~(k < b[1].seq - 1)
            BY <4>4 DEF Gap
          <6>2. 1 \in DOMAIN b
            <7>1. Len(b) \in Nat /\ Len(b) # 0 /\ DOMAIN b = 1 .. Len(b)
              BY EmptySeq, LenProperties
            <7> QED
              BY <7>1
          <6>3. PICK f \in Nat : f = b[1].seq
            BY <4>5, <6>2
          <6> QED
            BY <4>7, <6>1, <6>3
        <5>3. y \in Elements(evs)
          BY <4>3, <4>4, <5>1, <5>2 DEF Holding
        <5> QED
          BY <4>1, <5>3
      <4> QED
        BY <4>6, <4>7
    <3> QED
      BY <3>1, <3>2
  <2>4. up[d] # "none" => Holds(rsOf[d])'
    BY <1>2, <2>1 DEF DInv, Holds
  <2> QED
    BY <1>2, <2>3, <2>4
<1>13. \A d \in Conns : readyState'[d] # "closed" => \E j \in Nat : Reading(d, j)'
  BY <1>11
<1> QED
  BY <1>8, <1>9, <1>12, <1>13 DEF DInv

LEMMA HandleResumeDown ==
  ASSUME IInv, UInv, DInv, NEW c \in Conns, HandleResume(c)
  PROVE  DInv'
<1>1. PICK r \in Conns, k \in Nat, evs \in Seq(Event) :
           /\ r = rsOf[c] /\ up[c] = "open" /\ inner[r] \in Conns /\ InnerEmit(inner[r], evs)
           /\ k <= reported /\ rsOf[inner[r]] = r
           /\ NoResume(toServer'[c]) /\ \A d \in Conns : d # c => toServer'[d] = toServer[d]
           /\ \/ /\ evs = <<Refresh>> /\ Elements(evs) = {Refresh}
                 /\ nextSeq' = [nextSeq EXCEPT ![r] = @ + 1]
                 /\ buffer' = [buffer EXCEPT ![r] = Push(r, Refresh)]
              \/ /\ evs = Replayed(r, k) /\ ~Gap(r, k)
                 /\ UNCHANGED <<nextSeq, buffer>>
  BY ResumeSends
<1>2. CASE /\ Elements(evs) = {Refresh}
           /\ nextSeq' = [nextSeq EXCEPT ![r] = @ + 1]
           /\ buffer' = [buffer EXCEPT ![r] = Push(r, Refresh)]
  BY <1>1, <1>2, RefreshDown
<1>3. CASE evs = Replayed(r, k) /\ ~Gap(r, k) /\ UNCHANGED <<nextSeq, buffer>>
  BY <1>1, <1>3, ReplayDown
<1> QED
  BY <1>1, <1>2, <1>3


-----------------------------------------------------------------------------
(* The invariant, and the theorem *)

LEMMA InitDown == Init => DInv
<1> SUFFICES ASSUME Init PROVE DInv
  OBVIOUS
<1>1. /\ lastSeq = 0 /\ delivered = << >> /\ emitted = 0 /\ reported = 0
      /\ \A c \in Conns : /\ toServer[c] = << >> /\ toClient[c] = << >>
                          /\ readyState[c] = "none" /\ up[c] = "none"
                          /\ connSeq[c] = 0 /\ nextSeq[c] = 0 /\ buffer[c] = << >>
  BY DEF Init
<1>2. /\ EventsOf(<< >>) = {} /\ Elements(<< >>) = {} /\ Len(<< >>) = 0 /\ DOMAIN << >> = {}
  BY NoneWaits, EmptySeq DEF Elements
<1>3. Reports
  BY <1>1, <1>2 DEF Reports
<1>4. Sources
  BY <1>1, <1>2 DEF Sources
<1>5. \A c \in Conns : ~Served(c)
  BY <1>1 DEF Served
<1>6. ASSUME NEW c \in Conns PROVE \E m \in Nat : Reading(c, m)
  <2>1. Runs(toClient[c], 0, 0)
    BY <1>1, NoneWaits
  <2>2. Reading(c, 0)
    BY <1>1, <1>2, <1>5, <2>1 DEF Reading
  <2> QED
    BY <2>2
<1>7. \A c \in Conns : Complete(c)
  BY <1>5 DEF Complete
<1> QED
  BY <1>1, <1>3, <1>4, <1>6, <1>7 DEF DInv

LEMMA NextDown == IInv /\ UInv /\ DInv /\ [Next]_vars => DInv'
<1> SUFFICES ASSUME IInv, UInv, DInv, [Next]_vars PROVE DInv'
  OBVIOUS
<1>1. ASSUME NEW c \in Conns, Expire(c) PROVE DInv'
  BY <1>1, StillCalm DEF Expire, clientVars, netVars, serverVars, historyVars
<1>2. ASSUME Client PROVE DInv'
  BY <1>2, ConnectCalm, DisconnectCalm, SendCalm, HandleOpenCalm, ReceiveEventDown,
     ReceiveResponseCalm, HandleCloseCalm DEF Client
<1>3. ASSUME Server PROVE DInv'
  BY <1>1, <1>3, AcceptDown, EmitDown, ServerCloseCalm, HandleResumeDown, HandleCalm, RespondCalm
     DEF Server
<1>4. ASSUME UNCHANGED vars PROVE DInv'
  BY <1>4, StillCalm DEF vars, clientVars, netVars, serverVars, resumeVars, historyVars
<1> QED
  BY <1>2, <1>3, <1>4 DEF Next

\* A client that caught up was told at least as often as there was something to tell.
LEMMA MissedWereRepeated == IInv /\ UInv /\ DInv => MissedWithinRepeats
<1> SUFFICES ASSUME IInv, UInv, DInv, NEW c \in Conns,
                    SameSession, CaughtUp(c), Refresh \notin Elements(delivered)
             PROVE  (\A e \in Missed : e <= reported) /\ Cardinality(Missed) <= Repeats
  BY DEF MissedWithinRepeats
<1>1. TypeOK
  BY DEF IInv
<1>2. PICK n \in Nat : n = emitted
  BY <1>1 DEF TypeOK, HistoryTypeOK
<1>3. PICK l \in Nat : l = Len(delivered)
  BY <1>1, LenProperties DEF TypeOK, HistoryTypeOK
<1>4. \A i \in DOMAIN toClient[c] : toClient[c][i].kind # "event"
  BY DEF CaughtUp
<1>5. EventsOf(toClient[c]) = {}
  BY <1>4 DEF EventsOf
<1>6. Served(c)
  BY <1>5 DEF CaughtUp, Served, NoResume
<1>7. \A e \in Missed : e <= reported
  BY <1>5, <1>6 DEF DInv, Complete, Missed
<1>8. PICK m \in Nat : Reading(c, m)
  BY DEF CaughtUp, DInv
<1>9. PICK k \in Nat : k = connSeq[c]
  BY <1>1 DEF TypeOK, ServerTypeOK
<1>10. k = m
  <2>1. m <= k
    BY <1>8, <1>9 DEF Reading
  <2>2. ~(m < k)
    <3>1. \A j \in m + 1 .. k : FALSE
      BY <1>4, <1>8, <1>9 DEF Reading, Runs
    <3> QED
      BY <3>1
  <2> QED
    BY <2>1, <2>2
<1>11. n <= l
  <2>1. rsOf[c] \in Conns
    BY <1>6, RsOfConns DEF Served
  <2>2. PICK q \in Nat : q = nextSeq[rsOf[c]]
    BY <1>1, <2>1 DEF TypeOK, ResumeTypeOK
  <2>3. l + (k - m) >= q
    BY <1>3, <1>6, <1>8, <1>9, <2>2 DEF Reading
  <2>4. n <= q
    BY <1>2, <1>6, <2>2 DEF DInv, Holds, Holding, Served
  <2> QED
    BY <1>10, <2>3, <2>4
<1>12. PICK D : D = Elements(delivered)
  OBVIOUS
<1>13. D \subseteq 1 .. n
  BY <1>2, <1>12 DEF DInv, Sources, Refresh
<1>14. Missed = (1 .. n) \ D
  BY <1>2, <1>12 DEF Missed
<1>15. IsFiniteSet(1 .. n) /\ Cardinality(1 .. n) = n
  BY FS_Interval
<1>16. IsFiniteSet(D) /\ Cardinality(D) \in Nat
  BY <1>13, <1>15, FS_Subset, FS_CardinalityType
<1>17. Cardinality(Missed) = n - Cardinality(D)
  <2>1. PICK S : S = 1 .. n
    OBVIOUS
  <2>2. S \cap D = D
    BY <1>13, <2>1
  <2>3. IsFiniteSet(S) /\ Cardinality(S) = n
    BY <1>15, <2>1
  <2>4. Cardinality(S \ D) = Cardinality(S) - Cardinality(S \cap D)
    BY <2>3, FS_Difference
  <2> QED
    BY <1>14, <2>1, <2>2, <2>3, <2>4
<1>18. Cardinality(Missed) <= Repeats
  BY <1>3, <1>11, <1>12, <1>16, <1>17 DEF Repeats
<1> QED
  BY <1>7, <1>18

\* However often the client drops and returns within the TTL, whatever the application
\* emits at an accept or later, and for every size of the ring buffer, also when the server
\* notices a close late: what a client that caught up was never told lies below the lastSeq it
\* reported, and is no more than what it was told twice, unless it was told to refresh.
THEOREM Downlink == Spec => []MissedWithinRepeats
<1>1. Init => DInv
  BY InitDown
<1>2. IInv /\ UInv /\ DInv /\ [Next]_vars => DInv'
  BY NextDown
<1>3. IInv /\ UInv /\ DInv => MissedWithinRepeats
  BY MissedWereRepeated
<1> QED
  BY <1>1, <1>2, <1>3, Invariance, UplinkInvariance, PTL DEF Spec
=============================================================================
