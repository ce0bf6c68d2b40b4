--------------------------- MODULE ChannelSockets ---------------------------
(***************************************************************************)
(* Which clients hear which channel.  ChannelEmitter keeps the sockets of  *)
(* every channel, ChannelManager the Channel objects and the processes     *)
(* behind them, and the resumable() middleware tells the emitter when a    *)
(* client came back (onRebind) or did not (onExpire).                      *)
(*                                                                         *)
(* A socket of the emitter is a ResumableSocket, which outlives the        *)
(* connection it is bound to; its id is the id of the connection it is     *)
(* bound to at that moment.  A connection and its id are one number, in    *)
(* the order of acceptance, and a ResumableSocket is named by the          *)
(* connection that created it.  A Channel object and the runner it wraps   *)
(* are one number too.  A handler that awaits is an element of calls.      *)
(* What the messages say, the ring buffers and the pending control         *)
(* requests are left out, and so is ChannelManager.destroy, which no code  *)
(* of the server calls.                                                    *)
(***************************************************************************)
EXTENDS Naturals, FiniteSets

CONSTANTS
  Keys,         \* browser clients, by sessionKey
  Channels,     \* channel ids
  HalfOpen,     \* TRUE: the server may accept a connection before it has
                \* noticed that the client's previous one is gone
  MaxConn,      \* bound: connections accepted
  MaxRunner,    \* bound: processes spawned
  MaxCalls      \* bound: handlers suspended at the same time

ASSUME ConstantsAssumption ==
  /\ HalfOpen \in BOOLEAN
  /\ MaxConn \in Nat
  /\ MaxRunner \in Nat
  /\ MaxCalls \in Nat

Conns == 1 .. MaxConn
Runners == 1 .. MaxRunner
None == 0

VARIABLES
  (* connections and the resumable() middleware *)
  keyOf,           \* of each connection accepted
  up,              \* "none", "open" or "closed", as the server sees it
  rsOf,            \* the ResumableSocket handed to the application for it
  inner,           \* the connection a ResumableSocket is bound to
  registry,        \* the ResumableSocket registered for a sessionKey
  timers,          \* connections whose close armed a TTL timer still running
  ttlTimer,        \* the one ttlTimers.get(sessionKey) refers to
  (* ChannelEmitter *)
  channelSockets,  \* sockets of a channel
  socketChannels,  \* channels of a socket id ({} when there is no entry)
  socketRefs,      \* the socket of a socket id
  (* ChannelManager, Channel and the processes *)
  channels,        \* the Channel of a channel id
  chan,            \* channelId of a Channel
  process,         \* "none", "running" or "exited"
  bound,           \* isBound of a Channel
  exited,          \* exited of a Channel
  (* handlers *)
  calls,           \* suspended at an await
  (* history *)
  subscribed,      \* channels a socket was ever added to by a handler
  late,            \* sockets a handler added while they had no connection
  overtaken        \* runners whose Channel entered the map while a restore of
                   \* the channel waited, and was replaced by that restore

connVars == <<keyOf, up, rsOf, inner, registry, timers, ttlTimer>>
emitterVars == <<channelSockets, socketChannels, socketRefs>>
channelVars == <<channels, chan, process, bound, exited>>
historyVars == <<subscribed, late, overtaken>>
vars == <<connVars, emitterVars, channelVars, calls, historyVars>>

\* launch has no runner yet, restore the one it found in the map, if any; bind
\* and history have the one they will bind.
Call == [op : {"launch", "restore"}, socket : Conns, ch : Channels, runner : Runners \cup {None}]
          \cup [op : {"bind", "history"}, socket : Conns, ch : Channels, runner : Runners]

TypeOK ==
  /\ keyOf \in [Conns -> Keys \cup {None}]
  /\ up \in [Conns -> {"none", "open", "closed"}]
  /\ rsOf \in [Conns -> Conns \cup {None}]
  /\ inner \in [Conns -> Conns \cup {None}]
  /\ registry \in [Keys -> Conns \cup {None}]
  /\ timers \subseteq Conns
  /\ ttlTimer \in [Keys -> Conns \cup {None}]
  /\ channelSockets \in [Channels -> SUBSET Conns]
  /\ socketChannels \in [Conns -> SUBSET Channels]
  /\ socketRefs \in [Conns -> Conns \cup {None}]
  /\ channels \in [Channels -> Runners \cup {None}]
  /\ chan \in [Runners -> Channels \cup {None}]
  /\ process \in [Runners -> {"none", "running", "exited"}]
  /\ bound \in [Runners -> BOOLEAN]
  /\ exited \in [Runners -> BOOLEAN]
  /\ calls \subseteq Call
  /\ subscribed \in [Conns -> SUBSET Channels]
  /\ late \subseteq Conns
  /\ overtaken \subseteq Runners

Init ==
  /\ keyOf = [c \in Conns |-> None]
  /\ up = [c \in Conns |-> "none"]
  /\ rsOf = [c \in Conns |-> None]
  /\ inner = [c \in Conns |-> None]
  /\ registry = [k \in Keys |-> None]
  /\ timers = {}
  /\ ttlTimer = [k \in Keys |-> None]
  /\ channelSockets = [ch \in Channels |-> {}]
  /\ socketChannels = [c \in Conns |-> {}]
  /\ socketRefs = [c \in Conns |-> None]
  /\ channels = [ch \in Channels |-> None]
  /\ chan = [n \in Runners |-> None]
  /\ process = [n \in Runners |-> "none"]
  /\ bound = [n \in Runners |-> FALSE]
  /\ exited = [n \in Runners |-> FALSE]
  /\ calls = {}
  /\ subscribed = [c \in Conns |-> {}]
  /\ late = {}
  /\ overtaken = {}

-----------------------------------------------------------------------------
(* ChannelEmitter *)

\* addSocketToChannel(ch, r): the socket is filed under the id it has now.
AddSocketToChannel(ch, r) ==
  /\ channelSockets' = [channelSockets EXCEPT ![ch] = @ \cup {r}]
  /\ socketChannels' = [socketChannels EXCEPT ![inner[r]] = @ \cup {ch}]
  /\ socketRefs' = [socketRefs EXCEPT ![inner[r]] = r]

\* channelSockets once removeSocketFromAll(id) has run.
WithoutSocket(id) ==
  [ch \in Channels |->
     IF ch \in socketChannels[id] THEN channelSockets[ch] \ {socketRefs[id]}
     ELSE channelSockets[ch]]

RemoveForgetsChannels(id) ==      \* (mutant: nothing is kept for a reconnect)
  /\ channelSockets' = WithoutSocket(id)
  /\ socketRefs' = [socketRefs EXCEPT ![id] = None]
  /\ socketChannels' = [socketChannels EXCEPT ![id] = {}]
  /\ bound' = bound

\* ChannelManager.removeSocketFromAll(id): the runner of a channel of id that no
\* socket is left in is unbound.  The entry of socketChannels stays.
RemoveSocketFromAll(id) ==
  LET empty == {ch \in socketChannels[id] : WithoutSocket(id)[ch] = {}}
  IN  /\ channelSockets' = WithoutSocket(id)
      /\ socketRefs' = [socketRefs EXCEPT ![id] = None]
      /\ bound' = [n \in Runners |->
                     bound[n] /\ ~\E ch \in empty : channels[ch] = n]
      /\ UNCHANGED socketChannels

ReattachUnfiled(r, previous, c) ==     \* (mutant: not filed under the new id)
  /\ channelSockets' = [ch \in Channels |->
       channelSockets[ch] \cup (IF ch \in socketChannels[previous] THEN {r} ELSE {})]
  /\ socketChannels' = [socketChannels EXCEPT ![previous] = {}]
  /\ socketRefs' = [socketRefs EXCEPT ![c] = r]

\* reattachSocket(r, previous), the emitter's onRebind, and handleConnection(r),
\* once r is bound to connection c.
Reattach(r, previous, c) ==
  LET moved == socketChannels[previous]
  IN  /\ channelSockets' = [ch \in Channels |->
                              channelSockets[ch] \cup (IF ch \in moved THEN {r} ELSE {})]
      /\ socketChannels' = [socketChannels EXCEPT ![previous] = {}, ![c] = moved]
      /\ socketRefs' = [socketRefs EXCEPT ![c] = r]

-----------------------------------------------------------------------------
(* Connections *)

RebindTakesLastConn(k, c) ==      \* (mutant: the previous id of another client)
  LET r == registry[k]
  IN  /\ r # None
      /\ rsOf' = [rsOf EXCEPT ![c] = r]
      /\ inner' = [inner EXCEPT ![r] = c]
      /\ timers' = timers \ {ttlTimer[k]}
      /\ ttlTimer' = [ttlTimer EXCEPT ![k] = None]
      /\ Reattach(r, c - 1, c)
      /\ UNCHANGED registry

\* A client whose ResumableSocket is registered comes back on connection c.
Rebind(k, c) ==
  LET r == registry[k]
  IN  /\ r # None
      /\ rsOf' = [rsOf EXCEPT ![c] = r]
      /\ inner' = [inner EXCEPT ![r] = c]
      /\ timers' = timers \ {ttlTimer[k]}
      /\ ttlTimer' = [ttlTimer EXCEPT ![k] = None]
      /\ Reattach(r, inner[r], c)
      /\ UNCHANGED registry

RegisterUntracked(k, c) ==   \* (mutant: socketRefs filled by a join only)
  /\ registry[k] = None
  /\ rsOf' = [rsOf EXCEPT ![c] = c]
  /\ inner' = [inner EXCEPT ![c] = c]
  /\ registry' = [registry EXCEPT ![k] = c]
  /\ UNCHANGED <<timers, ttlTimer, emitterVars>>

\* A client that is new, or whose ResumableSocket expired.
Register(k, c) ==
  /\ registry[k] = None
  /\ rsOf' = [rsOf EXCEPT ![c] = c]
  /\ inner' = [inner EXCEPT ![c] = c]
  /\ registry' = [registry EXCEPT ![k] = c]
  /\ socketRefs' = [socketRefs EXCEPT ![c] = c]
  /\ UNCHANGED <<timers, ttlTimer, channelSockets, socketChannels>>

\* The server accepts connection c of client k.
Accept(k, c) ==
  /\ up[c] = "none" /\ \A d \in Conns : d < c => up[d] # "none"
  /\ HalfOpen \/ \A d \in Conns : keyOf[d] = k => up[d] # "open"
  /\ keyOf' = [keyOf EXCEPT ![c] = k]
  /\ up' = [up EXCEPT ![c] = "open"]
  /\ Rebind(k, c) \/ Register(k, c)
  /\ UNCHANGED <<channelVars, calls, historyVars>>

\* The server sees connection c close.  The disconnect listeners look up the id
\* of the socket then, and the middleware arms a TTL timer.
Close(c) ==
  /\ up[c] = "open"
  /\ up' = [up EXCEPT ![c] = "closed"]
  /\ RemoveSocketFromAll(inner[rsOf[c]])
  /\ timers' = timers \cup {c}
  /\ ttlTimer' = [ttlTimer EXCEPT ![keyOf[c]] = c]
  /\ UNCHANGED <<keyOf, rsOf, inner, registry, channels, chan, process, exited,
                 calls, historyVars>>

ExpireUnannounced(c) ==      \* (mutant: onExpire not wired)
  /\ c \in timers
  /\ timers' = timers \ {c}
  /\ ttlTimer' = [ttlTimer EXCEPT ![keyOf[c]] = None]
  /\ registry' = [registry EXCEPT ![keyOf[c]] = None]
  /\ UNCHANGED <<keyOf, up, rsOf, inner, emitterVars, channelVars, calls, historyVars>>

\* The TTL timer armed by the close of connection c fires, and onExpire makes
\* the emitter forget the channels of the registered socket.
Expire(c) ==
  LET k == keyOf[c]
      r == registry[k]
  IN  /\ c \in timers
      /\ timers' = timers \ {c}
      /\ ttlTimer' = [ttlTimer EXCEPT ![k] = None]
      /\ registry' = [registry EXCEPT ![k] = None]
      /\ socketChannels' = IF r = None THEN socketChannels
                           ELSE [socketChannels EXCEPT ![inner[r]] = {}]
      /\ UNCHANGED <<keyOf, up, rsOf, inner, channelSockets, socketRefs,
                     channelVars, calls, historyVars>>

-----------------------------------------------------------------------------
(* session:launch and session:join, and the processes *)

Alive(ch) == channels[ch] # None /\ ~exited[channels[ch]]

Suspend(op, r, ch, n) ==
  calls' = calls \cup {[op |-> op, socket |-> r, ch |-> ch, runner |-> n]}

\* A handler starts: connection c asks for channel ch, and the handler awaits.
Start(op, c, ch, n) ==
  /\ up[c] = "open"
  /\ Cardinality(calls) < MaxCalls
  /\ Suspend(op, rsOf[c], ch, n)
  /\ UNCHANGED <<connVars, emitterVars, channelVars, historyVars>>

\* handleLaunch up to resolveProjectRoot.
Launch(c, ch) == Start("launch", c, ch, None)

\* handleJoin of a channel that is alive, up to readyPromise.
Join(c, ch) ==
  /\ Alive(ch)
  /\ Start("bind", c, ch, channels[ch])

\* handleJoin of a channel that is not, up to the lookups of ChannelManager.join.
JoinDead(c, ch) ==
  /\ ~Alive(ch)
  /\ Start("restore", c, ch, channels[ch])

\* setupChannel() and spawn(): a new Channel takes the place of the channel id.
Spawn(n, ch) ==
  /\ process[n] = "none" /\ \A m \in Runners : m < n => process[m] # "none"
  /\ channels' = [channels EXCEPT ![ch] = n]
  /\ chan' = [chan EXCEPT ![n] = ch]
  /\ process' = [process EXCEPT ![n] = "running"]
  /\ bound' = [bound EXCEPT ![n] = TRUE]
  /\ UNCHANGED exited

\* A handler adds its socket to a channel, whatever happened to the connection.
Attach(ch, r) ==
  /\ AddSocketToChannel(ch, r)
  /\ subscribed' = [subscribed EXCEPT ![r] = @ \cup {ch}]
  /\ late' = IF up[inner[r]] = "open" THEN late ELSE late \cup {r}
  /\ UNCHANGED overtaken

CreateUnchecked(x, n) ==     \* (mutant: an existing Channel is replaced)
  /\ x.op = "launch"
  /\ Spawn(n, x.ch)
  /\ Attach(x.ch, x.socket)
  /\ calls' = calls \ {x}
  /\ UNCHANGED connVars

\* createEager: the socket joins before the process is spawned.
Create(x, n) ==
  /\ x.op = "launch"
  /\ ~Alive(x.ch)
  /\ Spawn(n, x.ch)
  /\ Attach(x.ch, x.socket)
  /\ calls' = calls \ {x}
  /\ UNCHANGED connVars

\* The handler fails: createEager refuses ('Channel already exists'), a lookup
\* fails, or the process does not answer session:initialize.
Fail(x) ==
  /\ calls' = calls \ {x}
  /\ UNCHANGED <<connVars, emitterVars, channelVars, historyVars>>

\* The rest of ChannelManager.join, which does not look at channels again.
Restore(x, n) ==
  /\ x.op = "restore"
  /\ Spawn(n, x.ch)
  /\ calls' = (calls \ {x}) \cup {[x EXCEPT !.op = "bind", !.runner = n]}
  /\ overtaken' = overtaken \cup ({channels[x.ch]} \ {x.runner, None})
  /\ UNCHANGED <<connVars, emitterVars, subscribed, late>>

\* ensureBound(), in replayAndEmitState; the history is streamed next.
EnsureBound(x) ==
  /\ x.op = "bind"
  /\ bound' = [bound EXCEPT ![x.runner] = TRUE]
  /\ calls' = (calls \ {x}) \cup {[x EXCEPT !.op = "history"]}
  /\ UNCHANGED <<connVars, emitterVars, channels, chan, process, exited,
                 historyVars>>

\* The end of handleJoin: the history has been sent and the socket is added.
Joined(x) ==
  /\ x.op = "history"
  /\ Attach(x.ch, x.socket)
  /\ calls' = calls \ {x}
  /\ UNCHANGED <<connVars, channelVars>>

\* The process exits; its Channel notices if it is bound.
RunnerExit(n) ==
  /\ process[n] = "running"
  /\ process' = [process EXCEPT ![n] = "exited"]
  /\ exited' = [exited EXCEPT ![n] = bound[n]]
  /\ UNCHANGED <<connVars, emitterVars, channels, chan, bound, calls, historyVars>>

-----------------------------------------------------------------------------
Next ==
  \/ \E c \in Conns :
       \/ \E k \in Keys : Accept(k, c)
       \/ Close(c)
       \/ Expire(c)
       \/ \E ch \in Channels : Launch(c, ch) \/ Join(c, ch) \/ JoinDead(c, ch)
  \/ \E x \in calls :
       \/ \E n \in Runners : Create(x, n) \/ Restore(x, n)
       \/ Fail(x) \/ EnsureBound(x) \/ Joined(x)
  \/ \E n \in Runners : RunnerExit(n)

Spec == Init /\ [][Next]_vars

-----------------------------------------------------------------------------
(* Properties *)

\* r is registered for its client and bound to an open connection.
Connected(r) == inner[r] # None /\ up[inner[r]] = "open" /\ registry[keyOf[r]] = r

\* The channels a socket is in.
Member(r) == {ch \in Channels : r \in channelSockets[ch]}

\* The two indexes of ChannelEmitter agree on a connected client, through any
\* number of drops, reattachments, expiries and joins that end late: it is in the
\* channels filed under the id it has now, so that the next close takes it out of
\* all of them (when the server notices each close before the next accept).
IndexesAgree ==
  ~HalfOpen => \A r \in Conns : Connected(r) => Member(r) = socketChannels[inner[r]]

\* A connected client hears every channel it launched or joined, also after it
\* has come back within the TTL (reattachSocket), when the server notices each
\* close before the next accept.
StillSubscribed ==
  ~HalfOpen => \A r \in Conns : Connected(r) => subscribed[r] \subseteq Member(r)

\* A socket hears no channel that it did not launch or join itself, however ids
\* are handed from one connection to the next.
NoForeignChannel == \A r \in Conns : Member(r) \subseteq subscribed[r]

\* broadcastAll reaches every connected client, whatever the order in which old
\* and new connections of a client are accepted, closed and expired.
BroadcastReaches ==
  \A r \in Conns : Connected(r) => \E id \in Conns : socketRefs[id] = r

\* Launches and joins of one channel overlap in any way: two of its processes run
\* at the same time only when a join that had found the channel dead waited
\* while another handler opened it, and ChannelManager.join then replaced that
\* handler's Channel.  No number of launches, and no exit that nobody watched,
\* puts a second process beside a running one.
OneProcess ==
  \A m, n \in Runners \ overtaken :
    /\ m # n
    /\ chan[m] = chan[n]
    /\ process[m] = "running"
    => process[n] # "running"

\* What a handler did not add after the client had gone is forgotten once the TTL
\* has expired: neither the channels nor socketChannels keep a dead socket.
Forgotten(r) ==
  inner[r] # None /\ registry[keyOf[r]] # r /\ up[inner[r]] = "closed" =>
    Member(r) = {} /\ socketChannels[inner[r]] = {}
ExpiredForgotten == ~HalfOpen => \A r \in Conns \ late : Forgotten(r)

=============================================================================
