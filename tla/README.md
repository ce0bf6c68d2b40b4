# Code Quest: specifications

TLA+ models of the parts of Code Quest in which order, failure and concurrency
decide whether the program works: the reconnecting transport, the bookkeeping of
which client hears which channel, the control requests a CLI process waits on, the
sessions and their processes, the processes on a remote summoner, the recorder of
what they say, the windows that show it, and the snapshots of directories.
TLC checks them on small instances, TLAPS proves the main safety properties for
every instance. Paths are relative to the repository root.

To check a model: `tlc -config TransportUplink.cfg ResumableTransport` (module and
configuration are paired in *Runs* below). To check the proofs:
`tlapm ResumableTransportProofs.tla`, and the same for the other `*Proofs` modules.

## The system

```
 browser windows ──ws──> server ──rpc──> summoner ──stdin/stdout──> CLI process
  apps/web               apps/server     apps/summoner
```

Each window is one `WsClient` with a session key. The server keeps a `Channel` per
session, which wraps a runner; the runner reads NDJSON lines from a CLI process,
started by the summoner (in the same process or over an RPC link), and turns them
into messages for all windows that joined the channel. The server also records every
raw line in a database, from which a window that joins later is given the history.
Everything runs on single-threaded event loops; the concurrency lies between the
`await`s of handlers, the timers, the connections, and the three programs.

### Inventory

| Part (code) | State | Operations | Hard behaviour | What makes it correct | Model |
|---|---|---|---|---|---|
| Transport client (`packages/transport/src/ws-client.ts`) | socket, outbox, pending requests, lastSeq, reconnect timer | connect, disconnect, emit, request, open/close/message callbacks | close in any state, sends while down, late answers | one socket; every envelope once and in order; a request's fate tells what the server did | `ResumableTransport` |
| Transport server (`ws-transport.ts`) | per-connection numbering, callbacks not answered yet | accept, emit, dispatch, close | half-open connections | events go to the newest connection | `ResumableTransport` |
| Resumable middleware (`middleware/resumable.ts`, `resumable-socket.ts`) | registry, TTL timers, ring buffer | rebind, emit, resume, expire | timer against return, buffer limit | no event lost silently | `ResumableTransport`, `ChannelSockets` |
| Channel emitter and manager (`apps/server/src/socket/channel-emitter.ts`, `channel-manager.ts`, `channel.ts`) | three indexes of sockets and channels, Channel objects, bound or not | add, remove, reattach, expire, bind, unbind, create, join | closes noticed late, ids that change, awaits inside join | a returning client hears its channels and no others; one process per channel | `ChannelSockets` |
| Control requests (`control-request-tracker.ts`, `handlers/{permission,mcp,message}.ts`, `handlers/session/history.ts`; web `handlers/permission.ts`) | tracked requests, MCP timers, prompts shown | raise, show, decide, dismiss, withdraw, time out, replay | several windows, lost decisions, two accounts of what is pending | at most one answer; shown = tracked | `ControlRequests`, `ControlContract` |
| Outbound control requests (`control-request-tracker.ts:53-99`) | pending, 30 s timers | send, resolve, reject all | late answer, exit, nobody listening | every waiting handler comes to its end | `SessionLifecycle` |
| Session handlers (`handlers/session/connect.ts`, `history.ts`) | awaits in progress, stored rows, the list of sessions | launch, join, resume, init response | check-then-act across awaits | one process per session; a closed session stays closed | `SessionLifecycle`, `ChannelSockets` |
| Fork, query, commands (`handlers/session/{fork,query,command}.ts`) | none of their own | clone and launch; read; forward | those of launch | - | not modelled |
| Raw recorder (`raw-recorder.ts`, `services/*raw*`) | buffer until the session id is known, root of the turn | record, flush, append | flush across awaits, cap, failures | every line once, in order, deltas under their turn | `EventRecorder` |
| Stores (`services/composite-*.ts`, `drizzle-*.ts`) | two databases | fan-out writes, primary reads | one of two fails | a row is wherever it was not rejected | `EventRecorder` (the recorder's writes) |
| Summoner link (`rpc-channel.ts`, `remote/reconnectable-rpc.ts`) | pending calls, listeners, outbox | request, emit, replace, close | timeout, replacement during a call, half-open links | each call settles on its own connection; listeners follow the newest | `RemoteProcesses` |
| Remote processes (`remote/process-provider.ts`, `summoner/src/agent/handlers/process-handler.ts`) | line queue, handles | spawn, kill, line, exit | exit or lines while the link is down, crash of the summoner | the runner reads a stream of what was printed, which ends | `RemoteProcesses`, `ProcessStream` |
| Snapshot broadcasting (`packages/broadcaster`, `file-watcher`, `handlers/fs.ts`, web `FsContext.tsx`) | entry per directory, read in progress, subscriptions | watch, change, read, unwatch, disconnect | change during a read, entries that go and come, ids that change | the last snapshot is the last state; no callback stays behind | `Snapshots` |
| Snapshots over the summoner link (`remote-broadcaster.ts`, `broadcaster-handler.ts`) | the same, on both ends | the same | the same, and the link | the same | not modelled |
| Provider adapter (`apps/summoner/src/claude`) | none | line to message and back | none | format | the kinds of request and the order of a turn's events |
| Other handlers (git, settings, plan, projects, plugins, terminal) | none of their own | one request, one answer | none beyond the services | - | not modelled |
| Web contexts and reducers (`apps/web/src/contexts/channel`) | messages, streaming turn, prompts, join state | reduce an event, replay history, refresh | live events against history, echoes | every window shows the conversation once, whole, in order | `ChatWindows`, `ControlRequests` |
| Web UI, stores of preferences | view state | - | none | - | not modelled |
| Services on disk (git, filesystem, openspec, diff, session-store) | the disk | I/O | the outside world | - | not modelled: pure I/O |
| Socket.IO transport | library | - | the library's own | - | not modelled |
| Schemas, utils, scripts, tools, deployment, test kit | none | - | none | - | not modelled: no behaviour |

The steps that are hard to test are listed as `hazards` in `PROJECT.json`, each with
its line and the properties aimed at it.

## Modules

| Module | Models |
|---|---|
| `ResumableTransport` | one client, its connections, the server end, the ResumableSockets |
| `ResumableTransportProofs` | its theorems: connections, buffers and resumption first, then what the client sends, what its listeners see, and the TTL |
| `ChannelSockets` | connections of several clients, the emitter's indexes, Channels and processes |
| `ChannelSocketsProofs` | its theorems |
| `ControlContract` | what a process is promised about a request: a four-state abstract specification |
| `ControlRequests` | the handlers and windows that keep the promise (`KeepsContract` is the refinement) |
| `MCControlRequests` | adds the symmetry set for the run with two requests |
| `ControlRequestsProofs` | its theorems, the refinement among them |
| `ProcessStream` | what a process handle promises its reader: an abstract specification |
| `RemoteProcesses` | the summoner's link, calls and processes (`IsProcessStream` is the refinement) |
| `RemoteProcessesProofs` | its theorems, the refinement among them |
| `SessionLifecycle` | launch, resume, join, the initialize request, the list of sessions |
| `SessionLifecycleProofs` | its theorems |
| `EventRecorder` | the recorder's buffer, its appends to two databases, turns and deltas |
| `EventRecorderProofs` | its theorems |
| `ChatWindows` | the conversation as several windows show it, live, replayed and refreshed |
| `ChatWindowsProofs` | its theorems |
| `Snapshots` | directory snapshots: broadcaster, watcher, fs handlers, file trees |
| `SnapshotsProofs` | its theorems |
The systems meet at named places. `ResumableTransport` shows what becomes of a
message between a client and the newest connection; `ChannelSockets` takes accept,
close, rebind and expire of the same middleware as its environment (the same
`registry`, `timers`, `inner`) and adds what the server does on `onRebind` and
`onExpire`; `ControlRequests` takes from it only when a window is in a channel, away,
back, or gone, and that the runner is unbound when the last one leaves.
`SessionLifecycle` takes the same of `ChannelSockets`: a bound runner may be unbound at
any time and is bound by a join. `EventRecorder` delivers what `ControlRequests` and
`ChatWindows` assume of the store: in the usual case a prefix of what was said, in its
order. `ChatWindows!Gap` and `Snapshots!Reconnect` stand for what `ResumableTransport`
does when a connection is lost for longer than the ring buffer reaches back, and when a
client returns. `RemoteProcesses` stands alone: its connections are not resumable, though
the summoner's end is the `WsClient` of `ResumableTransport`.

An operator whose comment says *(mutant: ...)* is a variant of the definition that
follows it with a plausible mistake; no specification uses it. It shows that
the properties can fail.

### ResumableTransport

A connection is a number, in the order the client opens them, with a FIFO in each
direction; a close loses what its receiver has not read. The client's `readyState`
and the server's `up` of a connection are separate, so that each side notices a close
on its own. A `ResumableSocket` is named after the connection that created it. Events
and envelopes are numbered as they are emitted and sent; history variables
(`delivered`, `handled`, `dropped`, `lost`) say what became of them.

| Action | Code |
|---|---|
| `Connect`, `Reconnect`, `Disconnect`, `Send` | `WsClient.connect`, the reconnect timer, `disconnect`, `emit`/`request` |
| `HandleOpen`, `ReceiveEvent`, `ReceiveResponse`, `HandleClose` | the callbacks of the WebSocket |
| `Accept` | `acceptConnection` with `transformSocket` of the middleware: rebind or register; then the connection callbacks (`Greet`) |
| `Emit` | `ResumableSocket.emit` called by the application |
| `HandleResume` | the middleware's listener: `resume`, then perhaps one refresh event |
| `HandleEvent`, `HandleRequest`, `Respond` | `handleMessage`; the listener's callback |
| `ServerClose`, `Expire` | the end of the connection's middleware, and its timer |

`HalfOpen = FALSE` restricts the environment: the server notices each close before it
accepts the client's next connection; a property that holds only there says so.
`Greets = TRUE` is the default mode of the server (`summonerMode` `remote`, `config.ts:89`): the
callback of `bin/server.ts:162-164` emits `remote:status` to every connection as it is accepted
(`Greet`, a part of `Accept`), through the ResumableSocket and before the client can ask to resume.

### ChannelSockets

`channelSockets`, `socketChannels` and `socketRefs` are the maps of `ChannelEmitter`;
the second and third are keyed by id, and the id of a `ResumableSocket` is that of the
connection it is bound to *now* (`inner`), which is what makes them hard. A handler
suspended at an `await` is a record in `calls`: `launch` before the process is
spawned, `restore` before a dead channel is set up again, `bind` before
`ensureBound`, `history` while the history is streamed. Handlers that open a channel
overlap freely: `createEager` checks and spawns in one step, `ChannelManager.join` looks
(`JoinDead`) and sets up (`Restore`) in two. `overtaken` collects the runners whose
Channel came into the map between the two and was replaced.

### ControlRequests

One channel whose process runs throughout. A window is closed, joining, replayed, in
or away; `controls` and `elicitation` are what it shows, `inFlight` the decisions it
has sent. `meta` and `mcpTimeouts` are the tracker. What the raw-event store would say
is derived from what the process wrote and was written to it; `JoinReplay` may find
the last writes missing. `heard`, `withdrawn` and `stale` are history: what reached
the handlers, what a cancel removed from the tracker, which windows may have missed
something.

### RemoteProcesses and ProcessStream

A connection of the summoner is a number; `up` and `down` are its two directions.
`srvOpen` holds the connections whose close the server has not seen, `current` what
`ReconnectableRpc` names; on the other side `ws` and `outbox` are the summoner's
`WsClient`. Calls (`spawn`, slow operations) have an entry in `pending` of the
connection they were sent on and are numbered per connection; `Kill` is sent without
waiting for its outcome. `lost` records of which processes an event was dropped:
pushed out of the outbox, under way on a connection that went, or died with the summoner.

`ProcessStream` promises that lines are yielded at most once, in the order they were
printed, and none after the end. `IsProcessStream` is the refinement, with the
mapping `ended <- stream is exited or aborted`.

| Action | Code |
|---|---|
| `Spawn`, `Kill`, `Operate`, `CallTimeout` | `startProcess`, `abort`, the remote git and file system, the timer of `RpcChannel.request` |
| `Accept`, `HandleOpen`, `ClientClose`, `ServerClose` | `replace`, the flush of the outbox, the two ends of a close |
| `PrintLine`, `Exit`, `HandleRequest`, `Operated` | `handleSpawn`, `handleKill`, `handleIncomingRequest` before and after its await |
| `Receive` | a message on a connection: an event for a `LineStream`, or a response |
| `Restart` | the summoner dies and is started again |

### SessionLifecycle

A Channel and its runner are one number. `calls` holds the handlers and init chains
suspended at an await: `look` before the row is read, `init` and `set` while a request
of theirs is out, `apply` while the init response is stored, `ready` while a join waits
for `readyPromise`. `Respond`, `Timeout` and `Exit` settle a request; an exit or an
answer that comes while the runner is unbound is unheard. `excused` collects the pairs
of processes of one session that the code does not look for (see *Known divergences*).

Of a window's session list one entry is followed, that of the channel id `Entry`; entries do
not interact. Everything that writes it is an action: `session:created` (`Created`, in
`ResumeCreate` and `Apply`), the `session:states` of `SessionInit`, `Exit`, `Line`
(`message:result`, a settings update of the CLI), `Send`, `UpdateState` and `Title`, the
`session:dead` of `Close`, and the answer of `app:init` (`InitStart`, `InitAnswer`). Where the
server does not look whether the process has exited, `Noted` adds a dead channel to `revived`.

### EventRecorder

A line is a number with a kind: the user's message that starts a turn, a delta, another
line. `jobs` are the calls of `recordRaw` on their way, each at a place of the buffer or
at its own line; `Appended` answers an append and takes the call to its next await, as
the loop over the shared buffer does. A write goes to all `Stores`, of which any
may reject it. `overlapped` and `raced` record that two flushes overlapped, or that a line
was written while the message that starts its turn was.

### ChatWindows

`log` is what the process reads and prints, of which the first `stored` lines are in the
store; the chunks of an answer are only streamed. The operators `onMessageStart` to
`onMessageUser` are the reducers of a window, the same for live events and for replayed
ones; `Deliver` and `Read` are the replay in batches; `Gap` and `ReceiveRefresh` a refresh.
`past` is history: which prompts a window's user typed and which lines it was given since its
last refresh, which it missed while it joined, and whether it is in one of the situations the
code makes no provision for (`cut`, `lossy`, `disturbed`, `taken`). `Replayed` is
`applyHistoryBatch` as a recursive function over the log, so that it can be reasoned about.

| Action | Code |
|---|---|
| `Speak` (ten kinds of event), `Store`, `HandleSend` | the lines of the process and their transforms, `dispatchRunnerMessage`; the recorder; `handleSend` with `emitToOthers` |
| `Join`, `AskEcho`, `Read`, `Deliver` | `joinSession`, then `streamSessionHistory` up to each of its awaits |
| `Receive` | the listeners of `ChannelMessagesContext` with their reducers, in the order of arrival |
| `Type`, `Gap` | `sendMessage`; a connection lost for longer than the ring buffer reaches back |

### Snapshots

The state of the directory is a version number. `held` is what the fs handlers hold under
a socket's id, `subs` what the broadcaster calls, `entry` the `TypeEntry` there is now;
a read belongs to the entry that started it and may end after it. `missed` names the
ways in which the code loses a change. A subscriber id is the number of the tree alone
(`Id`), so that trees of two windows have equal ids as in the code, and `Subscribe` and
`Unsubscribe` may take off another window's callback; `usurped` names the trees that
happened to (see *Known divergences*).

## Runs

| Run | Module | Bounds | States | Shows |
|---|---|---|---|---|
| `TransportAdverse` | ResumableTransport | half-open, greeted, 3 connections, ring buffer of 2, emits up to 3 events | 1 522 575 | newest connection bound; a resume replays all or announces a gap; what is missed is bounded by what was repeated |
| `TransportOneReconnect` | ResumableTransport | greeted, 2 connections, ring buffer of 2 | (violation) | an event emitted while the client is away is neither replayed nor announced |
| `TransportUplink` | ResumableTransport | 3 connections, 3 envelopes, outbox of 2 | 191 603 | types; what the client sends, once and in order; fates of requests; TTL only for clients that are gone; the outbox is flushed |
| `ChannelsPrompt` | ChannelSockets | 1 client, 1 channel, 3 connections, 3 processes, 2 handlers | 1 764 567 | indexes agree; subscriptions survive; expiry forgets; one process but for overtaken ones |
| `ChannelsHalfOpen` | ChannelSockets | 2 clients, half-open, 3 connections, 1 handler | 186 423 | nothing foreign is heard; broadcasts reach everybody |
| `ControlAnswers` | ControlRequests | 1 request of any kind, 3 windows | 430 315 | the contract; MCP messages are answered |
| `ControlReplay` | MCControlRequests | 2 prompts, 2 windows, symmetric | 660 442 | shown = tracked, live or replayed |
| `RemoteProcesses` | RemoteProcesses | 1 process of 2 lines, 1 operation, 2 connections, 1 crash, outbox of 2 | 792 968 | the newest link is the one used and reported; calls are executed at most once; the refinement; exits arrive |
| `SessionLifecycle` | SessionLifecycle | 2 processes, 2 calls, the list entry of the first | 361 984 | one process per session; joins see the commands; closed stays closed; every handler ends |
| `EventRecorder` | EventRecorder | 4 lines, buffer of 2, 2 stores, 2 failures | 516 113 | nothing lost, once and in order, deltas under their turn; the buffer drains |
| `ChatWindows` | ChatWindows | 2 windows, 2 prompts or gaps, 1 block of 2 pieces, batches of 2, 1 event under way | 1 957 805 | streamed = replayed; history meets live events; each prompt once |
| `Snapshots` | Snapshots | 2 windows, 2 trees, 2 connections, 1 change, 2 entries, 1 failing read | 614 056 | subscriptions agree; snapshots are fresh; a first snapshot arrives |

Why the bounds are enough to be interesting: three connections are the least with a
rebind of a rebind, a late close behind a newer connection, and an expiry after a
return; a ring buffer of two with three events and the greetings reaches replay, exact fit
and gap; three envelopes overflow an outbox of two. Two suspended handlers give every
pair of overlapping opens, and a third process one that is opened after such a pair. Three windows are the least in which a
decision is sent, a second one is late, and a third joins meanwhile; requests do not
interact but through the one elicitation slot, for which two suffice.
In `RemoteProcesses` two lines and an exit overflow an outbox of two, and two
connections give a replacement with a late close of the first. Two calls in
`SessionLifecycle` are a start and a second one that overlaps or follows it, a resume and the join
that waits for it among them; its safety properties are proved for any number. Four
lines in `EventRecorder` overflow a buffer of two, fill it again and come after it. In
`ChatWindows` three lines of one turn (echo, block, result) are more than one batch of
two; two prompts of the same text are the least that can be taken for each other by the
reducers. That the echo of a prompt a window was not told of is taken for another's (`taken`)
needs a third prompt of that text: the first is echoed, the history then withholds the second, the
window types the third. The run does not reach it; `MaxInputs = 3`, `MaxBlocks = 0`, `Pieces = 1`,
`BatchSize = 3` does (2 085 961 states up to exchange of the windows), and `PromptsShownOnce`
covers it for every bound. Two
entries in `Snapshots` are the least in which a read outlives the entry it was for. Where
a bound would matter, the theorems do without it.

Deadlock is not checked: all these systems may come to rest (the client has
disconnected, the bounded supply of connections or requests is used up).

### Fairness

`ResumableTransport!FairSpec`: connecting once, an armed timer fires (`setTimeout`),
handshakes end, both sides read what has arrived, a handler that took a request's
callback calls it, and each side notices that the other has gone (heartbeat, failing
pings). No fairness for anything a user or the network does: sending, emitting,
disconnecting, dropping a connection. `OutboxFlushed` excepts the state in which the
bounded number of connections is used up. `ControlRequests!FairSpec`: an armed MCP
timer fires, and nothing else; that windows answer is not assumed.
`RemoteProcesses!FairSpec`: the summoner reconnects (its timer), upgrades end, what has
arrived on an open connection is read; `ExitArrives` excepts the link that stays down
because the bound on connections is used up. `SessionLifecycle!FairSpec`: the 30 s timer
of a request fires and databases answer; that a process answers or exits is not assumed.
`EventRecorder!FairSpec`: appends are answered, by success or error.
`Snapshots!FairSpec`: a read ends and the debounce timer fires; the watcher need not
become ready. `ChatWindows` states no liveness.

## Proofs

Assumptions are only those named in the modules (`ConstantsAssumption`): limits are
positive, bounds are naturals, switches are Booleans, null is no request. Each proofs
module shows `Init => IInv`, `IInv /\ [Next]_vars => IInv'` (one lemma per action), and
derives the theorems from `Spec => []IInv`.

**ResumableTransport.** `OneSocketOrTimer` is not inductive: one has to know that the
field `ws` is the newest connection or none, that a socket is closing only after
`disconnect()`, and that a disconnected client has no socket (`SocketOrder`).
`NewestIsBound` needs that the registered ResumableSocket was made for an accepted
connection (`Accepted`). `BufferIsSuffix` is inductive together with the types; from
it follows `GapOrComplete`, a property of steps: what `resume(k)` finds by searching
the buffer is what was emitted after `k`.

For what the client sends, `UInv` is added. That each envelope is in one place (`Places`) is not
inductive: a flush moves the outbox onto a connection, and the server reads it from there,
so that the queues themselves must be sorted (`Queues`), what waits must be newer than all
that has left, and, with closes noticed in time, what is under way newer than what was handled
(`Sequel`). `Ends` says where there can be envelopes at all: none before the client's end is
open or after the server's end has closed, and none in the outbox of an open client, which is why
an emit cannot overtake a flush. `Answers` follows a response back to its request, and `Fated`
is the property of outcomes without the envelopes in the outbox. For the TTL, `Ttl` says that at
most one timer runs, the one the map knows, and none while a connection is open: what
`rebind` cancels is therefore all there is. Half-open connections break this part, which
is stated under `~HalfOpen`, and none of the others. The lemma `Behind` says what a
concatenation of queues preserves; every step on a queue is reduced to it.

The other direction is `Downlink`. An event has three numbers: its own, the one in the ring
buffer of its ResumableSocket, and the one of the connection it travels on, which is the one the
client reports. They are not the same, and no theorem can say that a client misses nothing (see *Known
divergences*). What can be said: a client that has caught up was told at least as often as there
was something to tell. `Reading` relates the numbers: what is under way to an open client continues
what it has read of this connection (`Runs`), and once its resume was handled, what was delivered and
what is under way are together at least as many as the ResumableSocket has numbered. A resume
asks from a number that is no more than what was delivered (`Reports`), and replays the difference;
a later emit adds one on both sides. `Holding` says of the ring buffer that an event has no higher number
than its place there, so that nothing above the number reported is skipped (`Complete`). Most steps
deliver nothing, and `Calm` says once for all of them what they leave alone. A client that was told
to refresh is no longer `Served`: nothing is claimed of it. The theorem holds for any ring buffer,
any number of events and of reconnects, half-open connections or not, greeted or not.

**ChannelSockets.** `Ownership` ties an id to the one socket that ever used it, which
gives `NoForeignChannel`. `StillReached` says where the entry of a connected client
may be: under its current id, or under an older id that no close will remove any more.
`Prompt` (while closes are noticed in time) fixes the relation of connections, timers
and both indexes, and yields `IndexesAgree`, `StillSubscribed`, `ExpiredForgotten`.
`OneOpener` says that a running process is the one the map knows or was overtaken, and
that a restore that waits found no Channel or one whose process had exited: when it
replaces a Channel whose process runs, that Channel came later and is overtaken. So
`OneProcess` holds of all overlaps; an exit that was not heard only makes a Channel look
alive, and nothing is spawned beside it.

**ControlRequests.** `Settled`: a request that something can still answer (tracked,
timed, or with files being read) is neither answered nor withdrawn, and an
open_diff is not both being read and tracked. `Account`: of the requests that were
heard, the tracker holds those the record calls pending. `Views`: a window that is not
stale shows what the tracker holds. `ImplementsContract` shows that every step maps to
a step of `ControlContract` or to a stutter, with `status` computed from `kind`,
`answers` and `withdrawn`.

**SessionLifecycle.** What a handler looked up before its await is compared with what there is after
it. `CallSound` says of each suspended call what its look still proves: of the processes that
were there at the look of a resume (`since`), those that run this session under the id they are
filed under were seen to have no session id yet (`blind`); of those a join could have found,
none is the channel of its id. All other processes of the session came during the await and are what
`excused` names, so that `OneProcessPerSession` holds again after `Spawn`. The
remaining parts are about fields: channels are filed under their own id, a
resumed channel whose promise is settled has its commands, and one that has exited is not running.
The list needs no more than that: `ListedSoundly` says of every step that it shows the entry
as live only where it was, where a process of it runs, or where it notes that the process has
exited, and a line of a process that runs is no line of a dead channel.

**EventRecorder.** `JobSound` ties every call on its way to the buffer: the lines before its
place are accounted for (written, dropped, failed, or not to be written), in every store.
`LinesKept` says of any line that it is accounted for, in the buffer, or the own line of a
call; once the recorder is at rest only the first is left, which is `NothingLost`, overlaps or
not. Order needs more. Without an overlap there is one flush while the buffer is not empty,
and what was taken comes before what is to be taken (`OneFlush`); the row ids given or about to
be given grow with the lines (`IdsInOrder`). Turns need, on top of it, that `root` is the last
user message written (`RootIsLast`), and that one under way is later than everything else.

**Snapshots.** That every variable keeps its type, and freshness, need no more than the types
and the state of the entry. `SubscriptionsInStep` is proved of the ids the code makes, which meet:
the trees whose callback another window took off are in `usurped`, which the theorem excepts from
delivery and from nothing else. Its invariant adds that a tree is held under one connection only (`HeldOnce`), that a held subscription belongs to a connection the server heard a
watch on (`HeldHeard`), that a window's connection is its newest (`Newest`), and that a timer
belongs to an entry (`TimerOfEntry`). `HeldOnce` is what makes a window's own
`unsubscribe` safe: what leaves `subs` is not held under another connection, unless it is
another window's and then usurped. `Fresh` speaks of a directory at rest; `UpToDate` is what has to
hold on the way there, as soon as no change is unnoticed (`Settled`): a read of
the entry reads what is on the disk, a `last` that is not is about to be read again, and a tree
that does not show the disk's state is due to a read that will be delivered to it. Reads of
earlier entries are told apart by `Sound`: entries are never used again.

**RemoteProcesses.** `Link`: the summoner is on the newest connection or on none, its outbox is
empty while it is connected, and nothing is on the way to a server that has closed.
`Served` follows a call through the link by its number (a request on its way, an operation
that is working, an answer on its way back): whatever is pending under a number is the call
that was sent with it; a call that is still on its way or being worked on has not been
executed, and one that is answered with ok has been, once. `Streams` is about the events: those on the newest connection followed by those in
the outbox are in the order they happened (`InOrder`), none of them was read before
(`UnderWay`), and of a process nothing was dropped of, every line is with the runner or on that
way (`NothingMissing`). An exit read after all of that finds no line missing, which is
`NoSilentLoss`; a line read is newer than those read before it, which is the step `Yield` of
`ProcessStream`. The lemmas on queues (`OrderlyRead`, `OrderlyDrop`, `OrderlyFlush`,
`OrderlyAdd`) are about any two sequences of which the first is read before the second.

**ChatWindows.** The invariants are built in four layers. `TypeInv` adds to the types that what a line,
a queue or a batch names exists, and that a window is joined once more for every gap at most, which
bounds its `round`. `LogInv` is about the process: a prompt is written once and echoed once, later;
every block is said once, and none ahead of the one the process is at; what is in `stdin` was
written and not echoed, what is in `up` was not written. `WinInv` says, of a window that is `Sound` (not due to a
refresh, and not disturbed in one), that its inbox is batches of its present replay, then the
answer to its join, then events (`Shaped`, `Numbered`); that a window being replayed has no messages
before the first batch (`Fresh`), which is why none is skipped; and that the lines given and those on
their way come in the order of the log and are all there are up to where the join has read, or, in
the channel, up to its end (`Placed`). `HistoryMeetsLive` follows.

For prompts, `Shows` counts: as many messages without a uuid as known prompts without an echo,
for each text, and one message under each uuid. An echo turns one of the first into one of the second
and takes a prompt off the other side, whichever of the equal messages it is matched with
(`CountsAdd`, `CountsRemove`); only an echo of a prompt that is not known takes away a message
that was not its own, and that is `taken`. What it needs of the inbox is `Foreign`: a window is never
sent its own prompt from `stdin`.

For answers, `Settled` says that the messages show what the given lines say, once and in their order,
and that only prompts come after a turn that is open. A window in the channel is behind the process: what is
on its way to it leads, event after event, from the state of the process it has heard of to the one
the process is in (`Leads`), and what it shows is what is settled plus the block that is being
streamed at that earlier state, if it saw its turn begin (`Follows`). The replayed part must not contain
that block (`Behind`). The three reducers that can meet a line that was said (`Patched`, `livePath`,
`replayPath`) each lead back to `Settled`; a block that was streamed only partly is the case
`cut`. A batch is a recursive function over the log, `Told` is the concatenation of a sequence of
sequences: both are reasoned about by induction on the length (see below).

Induction: the library states induction for a predicate, which the installed provers cannot
instantiate, but its theorem that every set has a minimal element under a well-founded relation is about sets.
`Induction` and `BoundedInduction` of `ChatWindowsProofs` follow from it, and make provable what
recursive functions and folds compute.

Theorems: `TypeCorrect` (in every proofs module), `SocketOrTimer`,
`BufferSuffix`, `EmitsReachNewest`, `ResumeMissesNothing`; `Uplink`, `Outcomes`,
`TtlSparesTheConnected`, `Downlink`; `NothingForeign`, `BroadcastsReach`,
`IndexesStayInStep`, `SubscriptionSurvives`, `ExpiredAreForgotten`, `SingleProcess`;
`ReplayMatchesTracker`, `ImplementsContract`; `OneProcessEach`, `JoinIsTold`,
`ExitedStaysClosed`; `NothingIsLost`, `HistoryInOrder`, `DeltasFindTheirTurn`;
`SubscriptionsInStep`, `TreesAreFresh`;
`NewestLink`, `CallsExecutedOnce`, `NothingLostSilently`, `ImplementsStream`;
`EveryLineOnce`, `PromptsShownOnce`, `LiveIsReplay`. The type invariants of
`ChannelSockets`, `ControlRequests`, `SessionLifecycle` and `Snapshots`, and `BufferIsSuffix`,
are proved and therefore not part of a run.

**Only model-checked:**

- The liveness properties (`OutboxFlushed`, `McpSettles`, `ExitArrives`, `EveryCallEnds`,
  `BufferDrains`, `SnapshotArrives`): liveness under fairness needs `ENABLED`, which the prover
  does not have.

Every safety invariant, action property and refinement that a run checks is also a theorem.

## Known divergences

Places where the code does something other than its documents, comments or tests say, or
than its users would expect. Each was met as a trace of a model, or while translating the
code, and traced back to the lines given. The first one has a run of its own, which must find the
violation (`TransportOneReconnect`). The properties are stated so that they hold of the code
as it is: where a divergence would break one, the exception is named in the property, in a
history variable, or in a constant of the run.

### Transport, channels, control requests

| What the code does | Where | What the text says |
|---|---|---|
| The wire numbering and the numbering of the ring buffer drift apart at the first replay. The greeting of an accept is sent, and sent again by the first resume: the client counts two where the ResumableSocket counts one, and its next resume skips the event emitted while it was away, without a refresh (`TransportOneReconnect`) | `ws-transport.ts:184`, `resumable-socket.ts:53` | "resume causes server to replay missed events" (`2026-04-27-migrate-transport-to-ws/specs/transport/spec.md:76`); "must stay in step" (`2026-05-07-resumable-middleware/design.md:57`, translated); `resumable-socket.test.ts:145` |
| A request in flight at a close never settles | `ws-client.ts:255` | exactly one response (`openspec/specs/transport/spec.md:28`) |
| The only client of a channel returns: it is subscribed, the runner stays unbound, it hears nothing | `channel-manager.ts:242` | reattachSocket restores the subscription (`2026-05-12-client-reconnect-resend`) |
| A join that found a channel dead and waited replaces the Channel that another join or a launch set up meanwhile: two processes of one channel (`overtaken`) | `channel-manager.ts:173` | "Channel already exists" (`channel-manager.ts:133`) |
| A request raised while nobody listens is recorded and replayed, not tracked: its answer is dropped | `history.ts:217` | "responds to permission/elicitation prompts over stdin" (`README.md:16`) |
| An event emitted between accept and the first resume, as `remote:status` is at every accept, arrives twice | `resumable-socket.ts:56`, `bin/server.ts:163` | events 1, 2, 3 in that order (`2026-04-27-…/specs/transport/spec.md:48`) |
| A close noticed after the return arms a timer nothing cancels: the registration of a connected client expires | `middleware/resumable.ts:78` | the session stays in the registry (`2026-05-07-…/specs/resumable-middleware/spec.md:38`) |
| After an expiry, resume on an empty buffer reports no gap | `resumable-socket.ts:46` | the client gets the gap signal (`2026-05-07-…/design.md:56`) |
| Two entries of `socketRefs` may hold one socket: a broadcast arrives twice | `channel-emitter.ts:153` | exactly once (comment at 230-231) |
| What a channel says while its client is away does not reach the ring buffer: the socket has left the channel | `channel-emitter.ts:168` | missed events can be replayed (`2026-05-12-…/tasks.md:5`) |
| A late close reads the socket's new id and detaches a connected client | `channel-emitter.ts:221` | `2026-05-12-…/tasks.md:18` |
| A close of the last other window during a join unbinds the runner the join has just bound | `connect.ts:301` | ensureBound, "re-wire" (`channel-manager.ts:67`) |
| A handler that ends after the TTL adds a dead socket for good | `channel-emitter.ts:152` | expireSocket removes it (172-173) |
| The exit of a process nobody watches does not mark its Channel | `channel.ts:362` | marked as exited (`channel-bind-runner.test.ts:124`) |
| An elicitation answered elsewhere stays on screen | web `handlers/permission.ts:47-55` | cancel_request synchronises the banners (`2026-03-31-cross-window-processing-sync/design.md:14`) |

Three more observations about control requests, which no text contradicts: a
hook callback is shown in every window and tracked by nobody, so that the decision, which
the web client sends as `chat:respond`, is dropped, while `chat:hook_respond`
(`message.ts:257`, `HandleHookRespond`), which the protocol has and no window of this
repository sends, is written to the process unchecked and as often as it comes (the
contract excepts it); an open_diff cancelled while its files are read is tracked afterwards; a
prompt raised between a join's read of the store and its registration is not shown
to the joining window.

### Summoner link and remote processes

| What the code does | Where | In the model |
|---|---|---|
| The close of an old connection of a summoner, noticed after a newer one replaced it, broadcasts `remote:status` false for a summoner that is connected | `apps/server/src/bin/server.ts:157` | `ServerClose` sets `status`; `CurrentIsNewest` promises only the other direction |
| A spawn whose link closes or whose 30 s pass is an error for the caller, though the process may have been started: nobody reads it or can kill it | `rpc-channel.ts:50`, `process-handler.ts:43` | `OkMeansExecuted` has no converse |
| A kill sent while the link is down is lost; the process runs on | `process-provider.ts:125` | `Kill` without a connection |
| Lines or the exit in flight on a connection that drops, or held by a summoner that restarts, never arrive: the stream does not end and the runner waits | `process-provider.ts:42` | `lost`, excepted by `NoSilentLoss` and `ExitArrives` |
| The function returned by `on()` detaches from the connection of that time; after a replacement the listener stays on the new one | `reconnectable-rpc.ts:68-77` | not modelled: listeners are those of running processes |
| The route of the summoner has the resumable middleware, but the `RpcChannel` is made on the bare socket of the connection: what was missed is not replayed | `apps/server/src/bin/server.ts:154` | `Accept` makes a new `RpcChannel` |

### Sessions and the recorder

| What the code does | Where | In the model |
|---|---|---|
| Two resumes of one session look for a live channel before their awaits and create one each after them | `connect.ts:373` | `excused` |
| A join of a channel id that belonged to a session starts its process again, while the session runs under another channel | `connect.ts:301` | `excused` |
| A channel restored by a join has no session id until `session:init`; a resume in that time does not find it | `connect.ts:373` | `excused` |
| The exit of a process whose runner is unbound is not heard; a resume takes its Channel for alive | `channel.ts:362` | `excused`, `Exit` while unbound |
| A response that comes while the runner is unbound is lost; the handler that waits fails after 30 s | `control-request-tracker.ts:60` | `Respond` while unbound; `EveryCallEnds` by `Timeout` |
| A prompt for a channel whose process has exited is sent into nothing and announced as `busy` (a window holds a prompt back only while another is processed): the dead channel is listed as live | `message.ts:65`, web `SessionContext.tsx:117`, web `handlers/message.ts:210` | `Send`, `revived` |
| `session:update_state` announces whatever state it is given, of any channel | `session/command.ts:102` | `UpdateState`, `revived` |
| `app:init` answers with the channels that were alive before it awaited the settings; the list takes the answer for newer than the exit that came first | `app.ts:20`, web `SessionContext.tsx:164` | `InitAnswer`, `revived` |
| A title that came before the exit is announced, as `idle`, after an await that the exit may overtake | `message.ts:292` | `Title`, `revived` |
| A `session:created` lists a channel that has exited if the window has dropped it meanwhile (closed, or a fresh `app:init`) | web `SessionContext.tsx:105` | `Created`, `revived` |
| A session that is closed leaves the list and comes back as `exited`: the exit is announced after `session:dead` | `session/command.ts:28`, `connect.ts:354` | `Close`, then `Exit` |
| Overlapping flushes of the recorder's buffer write lines twice | `raw-recorder.ts:69` | `overlapped`, excepted by `OnceInOrder` |
| Buffered lines are not flushed by `session:init` but by the next line after it | `raw-recorder.ts:77` | `BufferDrains` is conditional on it |
| An append that fails in the primary database only counts as done, though all reads go to the primary | `composite-store.ts:27` | `NothingLost` speaks of each store by itself |

### Snapshots

| What the code does | Where | In the model |
|---|---|---|
| Subscriber ids are `sub-<n>` with a counter per window, but the broadcaster keeps them in one map: two windows that mount their n-th tree share an id, and one that unmounts takes the other's callback (compare "unwatch one subscriber does not stop delivery to the other", `watch-snapshot.test.ts`) | web `FsContext.tsx:92`, `broadcaster.ts:42,133` | `usurped`, which `WatchedIsDelivered` excepts; nothing else is excepted from it |
| A change noticed while a read is under way is dropped: no read follows | `broadcaster.ts:68` | `missed`: "changed during a read" |
| A read that outlives its entry stores its result in the entry that followed | `broadcaster.ts:72,110` | "read of an old entry" |
| A change while the watcher is being set up is not seen | `local-file-watcher.ts:61` | "watcher not ready" |
| A first read that fails is logged; the tree stays empty until the next change | `broadcaster.ts:123` | "read failed" |
| After a rebind, subscriptions are filed under the id of the earlier connection: a late close does not take them off | `fs.ts:121` | `overtaken` |
| A window that reconnected does not watch again | web `FsContext.tsx:92` | `Reconnect` leaves `held` alone |

### Windows

| What the code does | Where | In the model |
|---|---|---|
| A window that joins in the middle of a block shows the end of its text only: the whole message brings no text where there is some already | web `handlers/streaming.ts:341` | `past` |
| A refresh while events flow, or while the user types, drops the first batch of the history | `ChannelMessagesContext.tsx:390` | `past`, excepted by `HistoryMeetsLive` |
| With ten messages queued, the next one is shown and never sent | web `handlers/message.ts:211` | `Type`, which may leave a non-empty `up` alone |
| A joining window is not told of the prompts that the process has not echoed yet, once it has echoed any. If its user types the same text, the echo of the earlier prompt is taken for that of the later one: one message stands for both until the later one is echoed | `handlers/session/history.ts:68`, web `handlers/message.ts:30` | `taken`, excepted by `EachPromptOnce` |
| A line said between a join's last read and its registration is in neither | `history.ts:208` | `past` |

## Abstractions

Left out everywhere: payloads, formatting, logging, authentication, configuration.
Backoff delays, TTL lengths, debounce times and request timeouts are timers that may fire at
any time. Identifiers are numbers or model values.

- `ResumableTransport`: the heartbeat is its effect, noticing that the peer has gone.
  Requests from server to client exist in the transport and are used by nothing, so that they
  are left out.
- `ControlRequests`: a window keeps its connection during its own join, and the process
  does not exit (`SessionLifecycle` has exits).
- `RemoteProcesses`: stderr and exit codes are left out; the remote git and file system are
  one operation that takes time; `connection-loop.ts` is used by no program.
- `SessionLifecycle`: the model and permission mode of a session are left out, of its title that it is
  announced; `session:delete` and `terminal:open_claude`, which makes a channel as a launch does and announces it as `idle` after its own await, are left out.
- `EventRecorder`: the SQL is one append; classification is the kind of the line.
- `ChatWindows`: one block per answer; thinking blocks, citations, tool progress and usage are
  left out; of the filters of the history only the one for echoed prompts is modelled (`Filtered`), and the ten places of
  the queue of typed messages are left open, and a prompt sent at once may overtake any of those before
  it, the ones on their way too: no property depends on the order of a window's prompts.
- `Snapshots`: one directory and one of the three sources of an entry.

## Not modelled

- `RemoteBroadcaster` and `broadcaster-handler.ts`: the subscriptions of `Snapshots` once more,
  over the link of `RemoteProcesses`. They could be modelled and are not yet; that a second
  subscriber waits for the next change instead of being given the last snapshot
  (`remote-broadcaster.ts:38`) is known from reading.
- `fork`, `query`, `command`: clones of rows, reads, and one outbound request each.
- The remaining socket handlers (git, settings, plan, projects, plugins, terminal, usage):
  each calls a service and answers; no state is kept between calls.
- Bootstrap and authentication: done once, before `Accept`.
- The Socket.IO transport: an adapter to a library with its own delivery rules.
- Session store and transfer, git, file system, openspec and diff services: I/O on the state of
  the disk, which the models take as given.
- The message queue of a window (messages typed while the process works), usage, todos.
- Web UI, preferences, schemas, tables, scripts, deployment, test kit: rendering, declarations
  and formats without an order of events to get wrong.

Most of the repository's lines are of this last sort (components, zod schemas, conversions
between formats, fixtures), so that the share of lines with a model stays small although
the stateful parts of server, transport and summoner are covered.

## Plan

1. `RemoteBroadcaster` over `RemoteProcesses`' link.
2. The message queue of several windows, over `ChatWindows`.
3. `fork` in `SessionLifecycle`, once it has two sessions.
