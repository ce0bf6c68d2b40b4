--------------------------- MODULE RemoteProcesses ---------------------------
(***************************************************************************)
(* The server in remote mode runs its processes, git and file operations   *)
(* on a summoner that dials in over a WebSocket.  The server speaks        *)
(* RpcChannel, one per connection, behind a ReconnectableRpc that always   *)
(* names the newest one; the summoner speaks WsClient, whose outbox holds  *)
(* the events emitted while the link is down.  A request belongs to its    *)
(* connection, a line or an exit of a process to whichever is up.          *)
(*                                                                         *)
(* A line that reaches a LineStream is consumed in the same macrotask, so  *)
(* its queue is not modelled; stdout stands for stderr too, which travels  *)
(* the same way.  The exit code is left out, and so is process/stdin, which *)
(* is sent as process/kill is and changes nothing here.  When the summoner *)
(* dies, what it had spawned is out of reach.                              *)
(***************************************************************************)
EXTENDS Naturals, Sequences, FiniteSets

CONSTANTS
  Procs,         \* sessionIds of processes
  Ops,           \* git and filesystem requests, slow ones
  OutboxLimit,   \* of the summoner's WsClient
  MaxConns,      \* bound: connections of the summoner
  MaxLines,      \* bound: lines a process prints
  MaxRestarts    \* bound: crashes of the summoner

ASSUME ConstantsAssumption ==
  /\ Procs \cap Ops = {}
  /\ OutboxLimit \in Nat \ {0} /\ MaxConns \in Nat \ {0}
  /\ MaxLines \in Nat /\ MaxRestarts \in Nat

VARIABLES
  (* server *)
  srvOpen,    \* connections whose close the server has not seen
  current,    \* ReconnectableRpc.current, 0 for null
  status,     \* the last remote:status broadcast
  pending,    \* per connection, <<id, call>> in RpcChannel.pending
  nextId,     \* per connection, RpcChannel.nextId
  outcome,    \* of the promise a call returned
  stream,     \* of the LineStream of a process
  (* summoner *)
  ws,         \* WsClient.ws, 0 while the reconnect timer runs
  wsOpen,     \* readyState = OPEN
  outbox,
  process,
  working,    \* requests whose handler is awaiting
  (* network *)
  accepted,   \* connections so far
  up, down,   \* per connection, messages on the way to the server, to the summoner
  (* history *)
  printed,    \* lines a process has printed
  yielded,    \* lines the runner has got
  executed,   \* times the summoner has done what a call asks
  lost,       \* processes of which an event was dropped
  restarts

serverVars == <<srvOpen, current, status, pending, nextId, outcome, stream>>
summonerVars == <<ws, wsOpen, outbox, process, working>>
historyVars == <<printed, yielded, executed, lost, restarts>>
vars == <<serverVars, summonerVars, accepted, up, down, historyVars>>

Conns == 1..MaxConns

\* Calls somebody waits for.  process/kill is a request as well, but its outcome is
\* only logged: it is sent without a pending entry here.
Calls == {"spawn"} \X Procs \cup {"op"} \X Ops
Notices == {"kill"} \X Procs

Event == [kind : {"line"}, p : Procs, n : 1..MaxLines] \cup [kind : {"exit"}, p : Procs]
Request == [id : Nat, call : Calls \cup Notices]
Response == [kind : {"response"}, id : Nat, ok : BOOLEAN]

TypeOK ==
  /\ srvOpen \subseteq 1..accepted
  /\ accepted \in 0..MaxConns
  /\ current \in 0..MaxConns
  /\ status \in BOOLEAN
  /\ pending \in [Conns -> SUBSET (Nat \X Calls)]
  /\ nextId \in [Conns -> Nat]
  /\ outcome \in [Calls -> {"none", "pending", "ok", "failed"}]
  /\ stream \in [Procs -> {"none", "open", "exited", "aborted"}]
  /\ ws \in 0..MaxConns
  /\ wsOpen \in BOOLEAN
  /\ outbox \in Seq(Event) /\ Len(outbox) <= OutboxLimit
  /\ process \in [Procs -> {"none", "running", "killed", "gone"}]
  /\ working \subseteq [conn : Conns, id : Nat, call : Calls]
  /\ up \in [Conns -> Seq(Event \cup Response)]
  /\ down \in [Conns -> Seq(Request)]
  /\ printed \in [Procs -> 0..MaxLines]
  /\ yielded \in [Procs -> Seq(1..MaxLines)]
  /\ executed \in [Calls -> Nat]
  /\ lost \subseteq Procs
  /\ restarts \in 0..MaxRestarts

Init ==
  /\ srvOpen = {} /\ current = 0 /\ status = FALSE
  /\ pending = [c \in Conns |-> {}]
  /\ nextId = [c \in Conns |-> 1]
  /\ outcome = [x \in Calls |-> "none"]
  /\ stream = [p \in Procs |-> "none"]
  /\ ws = 0 /\ wsOpen = FALSE /\ outbox = <<>>
  /\ process = [p \in Procs |-> "none"]
  /\ working = {}
  /\ accepted = 0
  /\ up = [c \in Conns |-> <<>>] /\ down = [c \in Conns |-> <<>>]
  /\ printed = [p \in Procs |-> 0]
  /\ yielded = [p \in Procs |-> <<>>]
  /\ executed = [x \in Calls |-> 0]
  /\ lost = {} /\ restarts = 0

-----------------------------------------------------------------------------
(* Calls of the server *)

\* reject: nobody retries; a spawn that is rejected aborts the controller of its
\* process, which finishes the stream.
Fail(X) ==
  /\ outcome' = [x \in Calls |-> IF x \in X THEN "failed" ELSE outcome[x]]
  /\ stream' = [p \in Procs |->
       IF <<"spawn", p>> \in X /\ stream[p] \in {"none", "open"} THEN "aborted" ELSE stream[p]]

Send(id, x) == down' = [down EXCEPT ![current] = Append(@, [id |-> id, call |-> x])]

\* RpcChannel.request on the current channel, if there is one.
Call(x) ==
  /\ outcome[x] = "none"
  /\ IF current = 0 THEN Fail({x}) /\ UNCHANGED <<pending, nextId, down>>
     ELSE /\ outcome' = [outcome EXCEPT ![x] = "pending"]
          /\ stream' = [p \in Procs |-> IF x = <<"spawn", p>> THEN "open" ELSE stream[p]]
          /\ pending' = [pending EXCEPT ![current] = @ \cup {<<nextId[current], x>>}]
          /\ nextId' = [nextId EXCEPT ![current] = @ + 1]
          /\ Send(nextId[current], x)
  /\ UNCHANGED <<srvOpen, current, status, summonerVars, accepted, up, historyVars>>

Spawn(p) == Call(<<"spawn", p>>)

\* handle.abort() ends the stream at once and asks the summoner to kill.
Kill(p) ==
  /\ stream[p] = "open"
  /\ stream' = [stream EXCEPT ![p] = "aborted"]
  /\ IF current = 0 THEN UNCHANGED <<nextId, down>>
     ELSE nextId' = [nextId EXCEPT ![current] = @ + 1] /\ Send(nextId[current], <<"kill", p>>)
  /\ UNCHANGED <<srvOpen, current, status, pending, outcome, summonerVars, accepted, up,
                 historyVars>>

\* RemoteGit and RemoteFilesystem
Operate(o) == Call(<<"op", o>>)

CallTimeout(c) == \E x \in pending[c] :
  /\ pending' = [pending EXCEPT ![c] = @ \ {x}]
  /\ Fail({x[2]})
  /\ UNCHANGED <<srvOpen, current, status, nextId, summonerVars, accepted, up, down, historyVars>>

-----------------------------------------------------------------------------
(* Connections *)

EventsOf(s) == {s[i].p : i \in {j \in DOMAIN s : s[j].kind # "response"}}

\* A connection of the summoner is accepted and replaces the previous one, whose
\* close may not have been noticed: nobody listens to that one any more.
Accept ==
  /\ ws = 0 /\ accepted < MaxConns
  /\ accepted' = accepted + 1
  /\ srvOpen' = srvOpen \cup {accepted'}
  /\ current' = accepted'
  /\ status' = TRUE
  /\ ws' = accepted'
  /\ lost' = lost \cup UNION {EventsOf(up[c]) : c \in Conns}
  /\ UNCHANGED <<pending, nextId, outcome, stream, wsOpen, outbox, process, working, up, down,
                 printed, yielded, executed, restarts>>

\* WsClient.emit of a connected client; the server may have closed already.
Deliver(s) ==
  IF ws \in srvOpen THEN up' = [up EXCEPT ![ws] = @ \o s] /\ UNCHANGED lost
  ELSE lost' = lost \cup EventsOf(s) /\ UNCHANGED up

HandleOpen ==
  /\ ws # 0 /\ ~wsOpen
  /\ wsOpen' = TRUE
  /\ Deliver(outbox)
  /\ outbox' = <<>>
  /\ UNCHANGED <<serverVars, ws, process, working, accepted, down, printed, yielded, executed,
                 restarts>>

\* The summoner's end closes; what it has sent may still arrive.
ClientClose ==
  /\ ws # 0
  /\ ws' = 0 /\ wsOpen' = FALSE
  /\ down' = [down EXCEPT ![ws] = <<>>]
  /\ UNCHANGED <<serverVars, outbox, process, working, accepted, up, historyVars>>

\* The disconnect listeners: ReconnectableRpc lets go of its own channel only, the
\* status is broadcast whichever it was.
DetachedAny(c) == 0     \* (mutant: whichever it was)
Detached(c) == IF current = c THEN 0 ELSE current
BroadcastOnClose == status' = FALSE

\* The server's end closes, of itself or because the heartbeat saw no pong:
\* RpcChannel.handleClose.
ServerClose(c) ==
  /\ c \in srvOpen
  /\ srvOpen' = srvOpen \ {c}
  /\ Fail({x[2] : x \in pending[c]})
  /\ pending' = [pending EXCEPT ![c] = {}]
  /\ current' = Detached(c)
  /\ BroadcastOnClose
  /\ lost' = lost \cup EventsOf(up[c])
  /\ up' = [up EXCEPT ![c] = <<>>]
  /\ UNCHANGED <<nextId, summonerVars, accepted, down, printed, yielded, executed, restarts>>

\* The summoner dies, with its outbox and its account of what runs, and is started
\* again.
Restart ==
  /\ restarts < MaxRestarts
  /\ restarts' = restarts + 1
  /\ ws' = 0 /\ wsOpen' = FALSE /\ outbox' = <<>> /\ working' = {}
  /\ down' = [c \in Conns |-> <<>>]
  /\ lost' = lost \cup EventsOf(outbox) \cup {p \in Procs : process[p] \in {"running", "killed"}}
  /\ process' = [p \in Procs |-> IF process[p] = "none" THEN "none" ELSE "gone"]
  /\ UNCHANGED <<serverVars, accepted, up, printed, yielded, executed>>

-----------------------------------------------------------------------------
(* The summoner *)

EmitUnbounded(e) ==     \* (mutant: outboxLimit ignored)
  IF wsOpen THEN Deliver(<<e>>) /\ UNCHANGED outbox
  ELSE outbox' = Append(outbox, e) /\ UNCHANGED <<lost, up>>

EmitDropping(e) ==     \* (mutant: as RpcChannel.emit, which drops when closed)
  IF wsOpen THEN Deliver(<<e>>) /\ UNCHANGED outbox ELSE UNCHANGED <<outbox, lost, up>>

\* WsClient.emit: an event waits for the connection, the oldest one gives way.
Emit(e) ==
  IF wsOpen THEN Deliver(<<e>>) /\ UNCHANGED outbox
  ELSE LET full == Len(outbox) >= OutboxLimit IN
       /\ outbox' = Append(IF full THEN Tail(outbox) ELSE outbox, e)
       /\ lost' = IF full THEN lost \cup {Head(outbox).p} ELSE lost
       /\ UNCHANGED up

PrintLine(p) ==
  /\ process[p] = "running" /\ printed[p] < MaxLines
  /\ printed' = [printed EXCEPT ![p] = @ + 1]
  /\ Emit([kind |-> "line", p |-> p, n |-> printed'[p]])
  /\ UNCHANGED <<serverVars, ws, wsOpen, process, working, accepted, down, yielded, executed,
                 restarts>>

\* streamProcess ends, because the process did or was killed.
Exit(p) ==
  /\ process[p] \in {"running", "killed"}
  /\ process' = [process EXCEPT ![p] = "gone"]
  /\ Emit([kind |-> "exit", p |-> p])
  /\ UNCHANGED <<serverVars, ws, wsOpen, working, accepted, down, printed, yielded, executed,
                 restarts>>

Respond(c, id, ok) ==
  up' = IF c \in srvOpen
        THEN [up EXCEPT ![c] = Append(@, [kind |-> "response", id |-> id, ok |-> ok])] ELSE up

\* handleSpawn and handleKill answer in the same macrotask, a spawn that throws with
\* an error; an operation takes its time.
HandleRequest ==
  /\ wsOpen /\ down[ws] # <<>>
  /\ LET r == Head(down[ws])  kind == r.call[1]  p == r.call[2] IN
     /\ down' = [down EXCEPT ![ws] = Tail(@)]
     /\ \/ /\ kind = "op"
           /\ working' = working \cup {[conn |-> ws, id |-> r.id, call |-> r.call]}
           /\ UNCHANGED <<process, executed, up>>
        \/ /\ kind = "spawn"
           /\ \/ /\ process[p] # "running"
                 /\ process' = [process EXCEPT ![p] = "running"]
                 /\ executed' = [executed EXCEPT ![r.call] = @ + 1]
                 /\ Respond(ws, r.id, TRUE)
              \/ Respond(ws, r.id, FALSE) /\ UNCHANGED <<process, executed>>
           /\ UNCHANGED working
        \/ /\ kind = "kill"
           /\ process' = IF process[p] = "running"
                         THEN [process EXCEPT ![p] = "killed"] ELSE process
           /\ UNCHANGED <<working, executed, up>>
  /\ UNCHANGED <<serverVars, ws, wsOpen, outbox, accepted, printed, yielded, lost, restarts>>

\* The handler of an operation is done, or throws: handleIncomingRequest answers
\* unless the connection is another one by now.
MayAnswerAny(w) == wsOpen     \* (mutant: on whatever connection is up)
MayAnswer(w) == wsOpen /\ ws = w.conn

Operated == \E w \in working, ok \in BOOLEAN :
  /\ working' = working \ {w}
  /\ executed' = IF ok THEN [executed EXCEPT ![w.call] = @ + 1] ELSE executed
  /\ IF MayAnswer(w) THEN Respond(ws, w.id, ok) ELSE UNCHANGED up
  /\ UNCHANGED <<serverVars, ws, wsOpen, outbox, process, accepted, down, printed, yielded, lost,
                 restarts>>

-----------------------------------------------------------------------------
(* What the server receives *)

\* ReconnectableRpc keeps the listeners of a LineStream on the current channel only.
WiredAny(c) == TRUE     \* (mutant: replace() tears nothing down)
WiredOnce(c) == c = 1     \* (mutant: replace() rewires nothing)
Wired(c) == c = current

\* Head(up[c]), an event for a LineStream; after its end nobody listens.
ReceiveEvent(c) ==
  LET e == Head(up[c]) IN
  /\ e.kind # "response"
  /\ IF Wired(c) /\ stream[e.p] = "open"
     THEN \/ /\ e.kind = "line"
             /\ yielded' = [yielded EXCEPT ![e.p] = Append(@, e.n)]
             /\ UNCHANGED stream
          \/ /\ e.kind = "exit"
             /\ stream' = [stream EXCEPT ![e.p] = "exited"]
             /\ UNCHANGED yielded
     ELSE UNCHANGED <<stream, yielded>>
  /\ UNCHANGED <<outcome, pending>>

ReceiveResponse(c) ==
  LET m == Head(up[c])
      X == {x \in pending[c] : x[1] = m.id} IN
  /\ m.kind = "response"
  /\ pending' = [pending EXCEPT ![c] = @ \ X]
  /\ IF m.ok
     THEN /\ outcome' = [x \in Calls |-> IF <<m.id, x>> \in X THEN "ok" ELSE outcome[x]]
          /\ UNCHANGED stream
     ELSE Fail({x[2] : x \in X})
  /\ UNCHANGED yielded

Receive(c) ==
  /\ c \in srvOpen /\ up[c] # <<>>
  /\ up' = [up EXCEPT ![c] = Tail(@)]
  /\ ReceiveEvent(c) \/ ReceiveResponse(c)
  /\ UNCHANGED <<srvOpen, current, status, nextId, summonerVars, accepted, down, printed,
                 executed, lost, restarts>>

Next ==
  \/ Accept \/ HandleOpen \/ ClientClose \/ Restart \/ HandleRequest \/ Operated
  \/ \E p \in Procs : Spawn(p) \/ Kill(p) \/ PrintLine(p) \/ Exit(p)
  \/ \E o \in Ops : Operate(o)
  \/ \E c \in Conns : ServerClose(c) \/ Receive(c) \/ CallTimeout(c)

Spec == Init /\ [][Next]_vars

\* The reconnect timer, the upgrade, the delivery on an open connection happen in
\* time; processes, users and the network owe nothing.
FairSpec ==
  /\ Spec
  /\ WF_vars(Accept) /\ WF_vars(HandleOpen)
  /\ \A c \in Conns : WF_vars(Receive(c))

-----------------------------------------------------------------------------
(* Properties *)

\* ReconnectableRpc names the newest connection as long as it is open and nothing once
\* it is closed: no close of an older one, however late, detaches the newer.  And a
\* summoner that is gone is shown as gone: with no connection left the last
\* remote:status is false.
CurrentIsNewest ==
  /\ current = IF accepted \in srvOpen THEN accepted ELSE 0
  /\ srvOpen = {} => ~status

\* Every channel numbers its requests from 1, so an answer on another connection
\* would settle somebody else's call.  A call that resolves has been executed, and
\* none is executed twice.
OkMeansExecuted ==
  \A x \in Calls : executed[x] <= 1 /\ (outcome[x] = "ok" => executed[x] = 1)

\* The server hears of an exit after everything the process printed, if nothing of it
\* was dropped: a link that goes away and comes back loses and reorders nothing the
\* outbox had room for.
NoSilentLoss ==
  \A p \in Procs :
    stream[p] = "exited" /\ p \notin lost => Len(yielded[p]) = printed[p]

\* The lines the runner gets, through every reconnection: ProcessStream.
Stream == INSTANCE ProcessStream WITH
  printed <- printed,
  yielded <- yielded,
  ended <- [p \in Procs |-> stream[p] \in {"exited", "aborted"}]

IsProcessStream == Stream!Spec

\* The exit of a process reaches the server, even one that falls into the time the
\* link is down, unless it is dropped or the link stays down.
LinkStaysDown == ws = 0 /\ accepted = MaxConns

ExitArrives ==
  \A p \in Procs : process[p] = "gone" ~> stream[p] # "open" \/ p \in lost \/ LinkStaysDown
=============================================================================
