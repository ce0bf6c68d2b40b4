------------------------------ MODULE ChatWindows ------------------------------
(***************************************************************************)
(* What the windows of one channel show of its conversation.  A window is  *)
(* given the conversation twice over: a joining one has the stored lines   *)
(* replayed in batches, one that is in the channel sees the process stream *)
(* each answer in chunks and then say it whole.  Both ways run through the *)
(* same reducers, which must not show a block twice or drop it.  A window  *)
(* shows what its user types at once, and must recognise it when the       *)
(* process echoes it.                                                      *)
(*                                                                         *)
(* A block is a number, its content the sequence of its pieces; a prompt   *)
(* is a number with a text that others may have too.  The lines the        *)
(* process reads and prints are one log, of which a prefix is stored.  A   *)
(* prompt that its window keeps while an answer is being given and one on  *)
(* its way to the server are both in up.  Connections are FIFO; Gap stands *)
(* for one that was lost for longer than the ring buffer reaches back (see *)
(* ResumableTransport).                                                    *)
(***************************************************************************)
EXTENDS Naturals, Sequences, FiniteSets, SequencesExt

CONSTANTS
  Windows,
  Texts,
  BatchSize,
  Pieces,        \* chunks of a block
  MaxInputs,   \* bound: prompts typed and connections lost for long, together
  MaxBlocks,     \* bound: blocks the process says
  MaxLag         \* bound: events on their way to a window, lines on their way to the store

ASSUME ConstantsAssumption ==
  /\ {MaxInputs, MaxBlocks} \subseteq Nat
  /\ {BatchSize, Pieces, MaxLag} \subseteq Nat \ {0}

VARIABLES
  log,       \* lines the process has read and printed, the chunks left out
  stored,    \* how many of them are in raw_events
  speech,    \* where the process is in its answer
  stdin,     \* prompts it has not taken up
  prompts,   \* the prompts typed so far
  up,        \* prompts queued in a window or on their way to the server
  inbox,     \* events on their way to a window
  members,   \* windows whose socket is in the channel
  call,      \* session:join handlers suspended at an await
  win,       \* the state of a window
  gaps,
  past       \* history: what became of a window

vars == <<log, stored, speech, stdin, prompts, up, inbox, members, call, win, gaps, past>>

BlockIds == 1..MaxBlocks
PromptIds == 1..MaxInputs
Rounds == 0..(MaxInputs + 1)

\* A line: a prompt written to stdin ("in") or echoed with a uuid, a block said whole, the
\* result of a tool, the result of the turn.
Line(type, n, kind) == [type |-> type, n |-> n, kind |-> kind]
Lines == [type : {"in", "echo", "said", "tool_result", "result"},
          n : Nat, kind : {"text", "tool", ""}]

\* A stream event, with the block the process is at then.
Stream(next, type, k) == [type |-> type, b |-> next.b, kind |-> next.kind, k |-> k]

\* The pieces of a block, of which a message shows those it has; id is that of a tool.
Block(kind, b, pieces) == [kind |-> kind, id |-> IF kind = "tool" THEN b ELSE 0, pieces |-> pieces]
Whole(b) == [k \in 1..Pieces |-> <<b, k>>]

\* A message of a window; uuid is 0 for a user message that was not echoed yet.
UserMessage(text, uuid) == [type |-> "user", text |-> text, uuid |-> uuid]
Turn(streaming, blocks) == [type |-> "turn", streaming |-> streaming, blocks |-> blocks]
Note(type, n) == [type |-> type, n |-> n]

Messages ==
  [type : {"user"}, text : Texts, uuid : 0..MaxInputs]
  \cup [type : {"turn"}, streaming : BOOLEAN,
        blocks : Seq([kind : {"text", "tool", ""}, id : Nat, pieces : Seq(Nat \X Nat)])]
  \cup [type : {"tool_result", "result"}, n : Nat]

\* What is sent to a window: a stream event, a line by its place in the log, a batch of
\* replayed lines, the answer to its join, the gap signal.
Events ==
  [type : {"start", "block", "chunk", "stop", "end"}, b : 0..MaxBlocks,
   kind : {"text", "tool", ""}, k : 0..Pieces]
  \cup [type : {"line"}, n : Nat]
  \cup [type : {"history"}, round : Rounds, rows : SUBSET Nat]
  \cup [type : {"joined", "refresh"}]

\* phase: where the handler is suspended.  pos: lines read, upto: lines of the last read.
NoCall == [phase |-> "none", round |-> 0, echo |-> FALSE, pos |-> 0, upto |-> 0]

\* typed: prompts its user typed since the last refresh.  given: lines applied since then.
\* missed: lines said between the last read of a join and its addSocketToChannel.
\* lossy: it lost events and is not refreshed yet; disturbed: meanwhile something was said
\* or typed, for which the code makes no provision.  cut: a chunk came without the ones
\* before it.  taken: the echo of a prompt it had not heard of was taken for that of another
\* of the same text.
TypeOK ==
  /\ log \in Seq(Lines) /\ stored \in 0..Len(log)
  /\ speech \in [at : {"idle", "between", "message", "block", "said", "tool"},
                 b : 0..MaxBlocks, kind : {"text", "tool", ""}, n : 0..Pieces]
  /\ stdin \in Seq(PromptIds)
  /\ prompts \in Seq([text : Texts, by : Windows])
  /\ up \in [Windows -> Seq(PromptIds)]
  /\ inbox \in [Windows -> Seq(Events)]
  /\ members \subseteq Windows
  /\ call \in [Windows -> [phase : {"none", "echo", "read", "rows"}, round : Rounds,
                           echo : BOOLEAN, pos : 0..stored, upto : 0..stored]]
  /\ win \in [Windows -> [msgs : Seq(Messages), tool : 0..MaxBlocks, replay : Rounds,
                          round : Rounds, ready : BOOLEAN]]
  /\ gaps \in Nat /\ gaps + Len(prompts) <= MaxInputs
  /\ past \in [Windows -> [typed : SUBSET PromptIds, given : SUBSET Nat, missed : SUBSET Nat,
                           taken : BOOLEAN, cut : BOOLEAN, lossy : BOOLEAN, disturbed : BOOLEAN]]

Init ==
  /\ log = <<>> /\ stored = 0
  /\ speech = [at |-> "idle", b |-> 0, kind |-> "", n |-> 0]
  /\ stdin = <<>> /\ prompts = <<>>
  /\ up = [w \in Windows |-> <<>>] /\ inbox = [w \in Windows |-> <<>>]
  /\ members = {} /\ call = [w \in Windows |-> NoCall] /\ gaps = 0
  /\ win = [w \in Windows |-> [msgs |-> <<>>, tool |-> 0, replay |-> 0, round |-> 0,
                               ready |-> FALSE]]
  /\ past = [w \in Windows |-> [typed |-> {}, given |-> {}, missed |-> {}, taken |-> FALSE,
                                cut |-> FALSE, lossy |-> FALSE, disturbed |-> FALSE]]

-----------------------------------------------------------------------------
(* The reducers of a window: v is [msgs, tool] *)

findStreamingTurn(ms) == SelectLastInSeq(ms, LAMBDA m : m.type = "turn" /\ m.streaming)

EnsureTurn(ms) == IF findStreamingTurn(ms) # 0 THEN ms ELSE Append(ms, Turn(TRUE, <<>>))

\* The blocks of the streaming turn, which is there, and what becomes of them.
StreamingBlocks(ms) == ms[findStreamingTurn(ms)].blocks

InTurn(ms, blocks) == [ms EXCEPT ![findStreamingTurn(ms)].blocks = blocks]

LastOf(blocks, kind) == SelectLastInSeq(blocks, LAMBDA x : x.kind = kind)

onMessageStart(v) == [v EXCEPT !.msgs = Append(@, Turn(TRUE, <<>>))]

\* (mutant: the end of the stream leaves the turn streaming)
onStreamEndNot(v) == v

onStreamEnd(v) ==
  LET i == findStreamingTurn(v.msgs)
  IN IF i = 0 THEN v ELSE [v EXCEPT !.msgs[i].streaming = FALSE]

onBlockStart(v, e) ==
  LET ms == EnsureTurn(v.msgs)
  IN [v EXCEPT !.msgs = InTurn(ms, Append(StreamingBlocks(ms), Block(e.kind, e.b, <<>>))),
               !.tool = IF e.kind = "tool" THEN e.b ELSE @]

onBlockStop(v) == [v EXCEPT !.tool = 0]

onTextChunk(v, e) ==
  LET ms == EnsureTurn(v.msgs)
      bs == StreamingBlocks(ms)
  IN [v EXCEPT !.msgs = InTurn(ms,
        IF LastOf(bs, "text") = 0
        THEN Append(bs, Block("text", e.b, <<<<e.b, e.k>>>>))
        ELSE [bs EXCEPT ![LastOf(bs, "text")].pieces = Append(@, <<e.b, e.k>>)])]

onInputJsonChunk(v, e) ==
  LET bs == StreamingBlocks(v.msgs)
  IN IF v.tool = 0 \/ findStreamingTurn(v.msgs) = 0 THEN v
     ELSE [v EXCEPT !.msgs = InTurn(@,
             [i \in DOMAIN bs |-> IF bs[i].id = v.tool
                                  THEN [bs[i] EXCEPT !.pieces = Append(@, <<e.b, e.k>>)]
                                  ELSE bs[i]])]

\* patchToolUseAcrossTurns: the last turn that shows the tool, 0 for none.
TurnOfTool(ms, b) ==
  SelectLastInSeq(ms, LAMBDA m : m.type = "turn" /\ \E i \in DOMAIN m.blocks : m.blocks[i].id = b)

Patched(ms, b) ==
  [ms EXCEPT ![TurnOfTool(ms, b)].blocks =
     [i \in DOMAIN @ |-> IF @[i].id = b THEN [@[i] EXCEPT !.pieces = Whole(b)] ELSE @[i]]]

\* livePath: text is taken to have been streamed if the turn has any.
livePath(ms, b, kind) ==
  LET bs == StreamingBlocks(ms)
  IN InTurn(ms, IF kind = "text" /\ LastOf(bs, "text") # 0
                THEN bs ELSE Append(bs, Block(kind, b, Whole(b))))

replayPath(ms, b, kind) == Append(ms, Turn(FALSE, <<Block(kind, b, Whole(b))>>))

onMessageAssistant(v, b, kind) ==
  [v EXCEPT !.msgs =
     IF kind = "tool" /\ TurnOfTool(@, b) # 0 THEN Patched(@, b)
     ELSE IF findStreamingTurn(@) # 0 THEN livePath(@, b, kind)
     ELSE replayPath(@, b, kind)]

\* deduplicateUserMessage, from the end: the same echo, or the same text not echoed yet.
MatchOf(ms, text, uuid) ==
  SelectLastInSeq(ms, LAMBDA m : m.type = "user" /\ (m.uuid = uuid \/ (m.text = text /\ m.uuid = 0)))

\* (mutant: a message of the same text is taken for it though it is another's echo)
onMessageUserByText(v, text, uuid) ==
  IF uuid # 0 /\ \E i \in DOMAIN v.msgs : v.msgs[i].type = "user" /\ v.msgs[i].text = text
  THEN v ELSE [v EXCEPT !.msgs = Append(@, UserMessage(text, uuid))]

onMessageUser(v, text, uuid) ==
  LET i == MatchOf(v.msgs, text, uuid)
  IN IF uuid = 0 \/ i = 0 THEN [v EXCEPT !.msgs = Append(@, UserMessage(text, uuid))]
     ELSE [v EXCEPT !.msgs[i].uuid = uuid]

\* A line, live or replayed; a line of stdin comes without a uuid.
Reduced(v, line) ==
  CASE line.type = "in"   -> onMessageUser(v, prompts[line.n].text, 0)
    [] line.type = "echo" -> onMessageUser(v, prompts[line.n].text, line.n)
    [] line.type = "said" -> onMessageAssistant(v, line.n, line.kind)
    [] OTHER -> [v EXCEPT !.msgs = Append(@, Note(line.type, line.n))]

\* applyHistoryBatch: the lines of a batch, in their order.
Replayed(v, rows) ==
  LET f[n \in 0..Len(log)] ==
        IF n = 0 THEN v ELSE IF n \in rows THEN Reduced(f[n - 1], log[n]) ELSE f[n - 1]
  IN f[Len(log)]

Streamed(v, e) ==
  CASE e.type = "start" -> onMessageStart(v)
    [] e.type = "block" -> onBlockStart(v, e)
    [] e.type = "chunk" -> IF e.kind = "text" THEN onTextChunk(v, e) ELSE onInputJsonChunk(v, e)
    [] e.type = "stop"  -> onBlockStop(v)
    [] e.type = "end"   -> onStreamEnd(v)

-----------------------------------------------------------------------------
(* The process, and the server that passes on what it says *)

SendTo(ws, e) ==
  /\ inbox' = [w \in Windows |-> IF w \in ws THEN Append(inbox[w], e) ELSE inbox[w]]
  /\ past' = [w \in Windows |->
                IF w \in ws /\ past[w].lossy THEN [past[w] EXCEPT !.disturbed = TRUE] ELSE past[w]]

\* What the process has to say next, and the state it is in then; a line is recorded.
Say(next, e) ==
  /\ \A w \in members : Len(inbox[w]) < MaxLag
  /\ Len(log) - stored <= MaxLag
  /\ SendTo(members, e)
  /\ speech' = next
  /\ UNCHANGED <<stored, prompts, up, members, call, win, gaps>>

Utter(next, line) ==
  Say(next, [type |-> "line", n |-> Len(log) + 1]) /\ log' = Append(log, line)

Chunk(next, type, k) ==
  Say(next, Stream(next, type, k)) /\ UNCHANGED <<log, stdin>>

Echo ==
  /\ speech.at = "idle" /\ stdin # <<>>
  /\ Utter([speech EXCEPT !.at = "between"], Line("echo", Head(stdin), ""))
  /\ stdin' = Tail(stdin)

MessageStart ==
  /\ speech.at = "between" /\ speech.b < MaxBlocks
  /\ Chunk([speech EXCEPT !.at = "message", !.kind = ""], "start", 0)

BlockStart(kind) ==
  /\ speech.at = "message" /\ speech.b < MaxBlocks
  /\ Chunk([at |-> "block", b |-> speech.b + 1, kind |-> kind, n |-> 0], "block", 0)

BlockDelta ==
  /\ speech.at = "block" /\ speech.n < Pieces
  /\ Chunk([speech EXCEPT !.n = @ + 1], "chunk", speech.n + 1)

BlockSaid ==
  /\ speech.at = "block" /\ speech.n = Pieces
  /\ Utter([speech EXCEPT !.at = "said"], Line("said", speech.b, speech.kind))
  /\ UNCHANGED stdin

BlockStop == speech.at = "said" /\ Chunk([speech EXCEPT !.at = "message"], "stop", 0)

MessageStop ==
  /\ speech.at = "message" /\ speech.kind # ""
  /\ Chunk([speech EXCEPT !.at = IF speech.kind = "tool" THEN "tool" ELSE "between"], "end", 0)

ToolResult ==
  /\ speech.at = "tool"
  /\ Utter([speech EXCEPT !.at = "between"], Line("tool_result", speech.b, ""))
  /\ UNCHANGED stdin

TurnResult ==
  /\ speech.at = "between"
  /\ Utter([speech EXCEPT !.at = "idle"], Line("result", 0, ""))
  /\ UNCHANGED stdin

Speak ==
  \/ Echo \/ MessageStart \/ BlockStart("text") \/ BlockStart("tool") \/ BlockDelta
  \/ BlockSaid \/ BlockStop \/ MessageStop \/ ToolResult \/ TurnResult

\* The next line has reached the store.
Store ==
  /\ stored < Len(log) /\ stored' = stored + 1
  /\ UNCHANGED <<log, speech, stdin, prompts, up, inbox, members, call, win, gaps, past>>

Others(w) == members \ {w}

\* handleSend: the prompt is written to stdin and shown to the other windows.
HandleSend(w) ==
  /\ up[w] # <<>>
  /\ LET p == Head(up[w])
     IN /\ log' = Append(log, Line("in", p, ""))
        /\ stdin' = Append(stdin, p)
        /\ SendTo(Others(w), [type |-> "line", n |-> Len(log) + 1])
  /\ up' = [up EXCEPT ![w] = Tail(@)]
  /\ UNCHANGED <<stored, speech, prompts, members, call, win, gaps>>

-----------------------------------------------------------------------------
(* Joining *)

\* joinSession: the effect of readyToJoin, and of a refresh.
Joining(w, r) ==
  call' = [call EXCEPT ![w] = [NoCall EXCEPT !.phase = "echo", !.round = r]]

Join(w) ==
  /\ win[w].round = 0
  /\ Joining(w, 1)
  /\ win' = [win EXCEPT ![w].round = 1]
  /\ UNCHANGED <<log, stored, speech, stdin, prompts, up, inbox, members, gaps, past>>

\* hasUserEcho: prompts of stdin are replayed only if the process echoes none.
AskEcho(w) ==
  /\ call[w].phase = "echo"
  /\ call' = [call EXCEPT ![w].phase = "read",
                          ![w].echo = \E i \in 1..stored : log[i].type \in {"echo", "tool_result"}]
  /\ UNCHANGED <<log, stored, speech, stdin, prompts, up, inbox, members, win, gaps, past>>

\* (mutant: a batch is taken to be full)
UptoFull(c) == c.pos + BatchSize

Upto(c) == IF stored > c.pos + BatchSize THEN c.pos + BatchSize ELSE stored

\* The database answers with the next rows after the cursor.
Read(w) ==
  /\ call[w].phase = "read"
  /\ call' = [call EXCEPT ![w].phase = "rows", ![w].upto = Upto(call[w])]
  /\ UNCHANGED <<log, stored, speech, stdin, prompts, up, inbox, members, win, gaps, past>>

\* (mutant: the results of tools are dropped too)
FilteredResults(c) ==
  {n \in (c.pos + 1)..c.upto : ~(c.echo /\ log[n].type \in {"in", "tool_result"})}

\* filterReplayEvents
Filtered(c) == {n \in (c.pos + 1)..c.upto : ~(c.echo /\ log[n].type = "in")}

\* session:history for the rows; an empty read is passed on only if it is the first.  A
\* short one is the last: the socket is added and the join answered.
Deliver(w) ==
  LET c == call[w]
      rows == IF c.upto > c.pos \/ c.pos = 0
              THEN <<[type |-> "history", round |-> c.round, rows |-> Filtered(c)]>> ELSE <<>>
      last == c.upto - c.pos < BatchSize
  IN /\ c.phase = "rows"
     /\ inbox' = [inbox EXCEPT ![w] = @ \o rows \o IF last THEN <<[type |-> "joined"]>> ELSE <<>>]
     /\ IF last
        THEN /\ call' = [call EXCEPT ![w] = NoCall]
             /\ members' = members \cup {w}
             /\ past' = [past EXCEPT ![w].missed = (c.upto + 1)..Len(log)]
        ELSE /\ call' = [call EXCEPT ![w].phase = "read", ![w].pos = c.upto]
             /\ UNCHANGED <<members, past>>
     /\ UNCHANGED <<log, stored, speech, stdin, prompts, up, win, gaps>>

-----------------------------------------------------------------------------
(* A window *)

\* A chunk that continues a block whose pieces before it the window does not show.
Cuts(v, e) ==
  e.type = "chunk" /\ e.kind = "text" /\ e.k > 1 /\
  ~\E i \in DOMAIN v.msgs : v.msgs[i].type = "turn" /\
      \E j \in DOMAIN v.msgs[i].blocks : Contains(v.msgs[i].blocks[j].pieces, <<e.b, e.k - 1>>)

\* The prompts of a set of lines, and those of them that it has the echo of.
PromptsOf(lines) == {log[n].n : n \in {m \in lines : log[m].type \in {"in", "echo"}}}
EchoedIn(lines) == {log[n].n : n \in {m \in lines : log[m].type = "echo"}}

\* The prompts a window has shown or been told of since the last refresh.
Known(w) == past[w].typed \cup PromptsOf(past[w].given)

\* An echo of a prompt the window does not know is taken for that of one it shows.
Takes(w, line) ==
  /\ line.type = "echo" /\ line.n \notin Known(w)
  /\ MatchOf(win[w].msgs, prompts[line.n].text, line.n) # 0

ReceiveStream(w, e) ==
  /\ e.type \in {"start", "block", "chunk", "stop", "end"}
  /\ win' = [win EXCEPT ![w] = Streamed(@, e)]
  /\ past' = [past EXCEPT ![w].cut = @ \/ Cuts(win[w], e)]
  /\ UNCHANGED call

ReceiveLine(w, e) ==
  /\ e.type = "line"
  /\ win' = [win EXCEPT ![w] = Reduced(@, log[e.n])]
  /\ past' = [past EXCEPT ![w].given = @ \cup {e.n}, ![w].taken = @ \/ Takes(w, log[e.n])]
  /\ UNCHANGED call

\* session:history: shouldApplyBatch, then applyHistoryBatch unless it is the first one
\* and there are messages already.
ReceiveHistory(w, e) ==
  LET first == win[w].replay = 0
      skipped == (~first /\ win[w].replay # e.round) \/ (first /\ win[w].msgs # <<>>)
      rows == IF skipped THEN {} ELSE e.rows
  IN /\ e.type = "history"
     /\ win' = [win EXCEPT ![w] = [Replayed(@, rows) EXCEPT
                                  !.replay = IF first THEN e.round ELSE win[w].replay]]
     /\ past' = [past EXCEPT ![w].given = @ \cup rows]
     /\ UNCHANGED call

\* onJoinSuccess: the conversation is shown, and the user can type.
ReceiveJoined(w, e) ==
  /\ e.type = "joined"
  /\ win' = [win EXCEPT ![w].ready = TRUE]
  /\ past' = [past EXCEPT ![w].lossy = @ /\ past[w].disturbed]
  /\ UNCHANGED call

\* onRefreshRequired
ReceiveRefresh(w, e) ==
  /\ e.type = "refresh"
  /\ win' = [win EXCEPT ![w].msgs = <<>>, ![w].replay = 0, ![w].round = @ + 1]
  /\ Joining(w, win[w].round + 1)
  /\ past' = [past EXCEPT ![w].typed = {}, ![w].given = {}, ![w].taken = FALSE,
                            ![w].cut = FALSE]

Receive(w) ==
  /\ inbox[w] # <<>>
  /\ LET e == Head(inbox[w])
     IN \/ ReceiveStream(w, e) \/ ReceiveLine(w, e) \/ ReceiveHistory(w, e)
        \/ ReceiveJoined(w, e) \/ ReceiveRefresh(w, e)
  /\ inbox' = [inbox EXCEPT ![w] = Tail(@)]
  /\ UNCHANGED <<log, stored, speech, stdin, prompts, up, members, gaps>>

\* sendMessage: the prompt is shown, and sent at once or kept for a later result; a queue
\* that is full shows and forgets it.  One sent at once while the window's status is not
\* 'processing' overtakes those that are kept.  The queue and the way are one sequence, so
\* here it may overtake any number of them.
Type(w, text) ==
  LET p == Len(prompts) + 1
  IN /\ win[w].ready /\ p + gaps <= MaxInputs
     /\ prompts' = Append(prompts, [text |-> text, by |-> w])
     /\ win' = [win EXCEPT ![w].msgs = Append(@, UserMessage(text, 0))]
     /\ \/ \E i \in 1..(Len(up[w]) + 1) : up' = [up EXCEPT ![w] = InsertAt(@, i, p)]
        \/ up[w] # <<>> /\ UNCHANGED up
     /\ past' = [past EXCEPT ![w].typed = @ \cup {p}, ![w].disturbed = past[w].lossy]
     /\ UNCHANGED <<log, stored, speech, stdin, inbox, members, call, gaps>>

\* The connection of a window was lost for long: the events on their way to it are gone,
\* its subscription is restored and it is told to refresh.
Gap(w) ==
  /\ w \in members /\ call[w] = NoCall /\ inbox[w] # <<>> /\ gaps + Len(prompts) < MaxInputs
  /\ gaps' = gaps + 1
  /\ inbox' = [inbox EXCEPT ![w] = <<[type |-> "refresh"]>>]
  /\ past' = [past EXCEPT ![w].lossy = TRUE, ![w].disturbed = FALSE]
  /\ UNCHANGED <<log, stored, speech, stdin, prompts, up, members, call, win>>

Next ==
  \/ Speak \/ Store
  \/ \E w \in Windows :
       HandleSend(w) \/ Join(w) \/ AskEcho(w) \/ Read(w) \/ Deliver(w) \/ Receive(w) \/ Gap(w)
  \/ \E w \in Windows, t \in Texts : Type(w, t)

Spec == Init /\ [][Next]_vars

-----------------------------------------------------------------------------
(* Properties *)

Shown(m) ==
  IF m.type = "turn" THEN [i \in DOMAIN m.blocks |-> m.blocks[i].pieces]
  ELSE IF m.type = "user" THEN <<>> ELSE <<<<m.type, m.n>>>>

Says(line) == IF line.type = "said" THEN Whole(line.n) ELSE <<line.type, line.n>>

\* What the process says in a set of lines, in the order of the log.
Told(lines) ==
  FlattenSeq([n \in DOMAIN log |->
                IF n \in lines /\ log[n].type \notin {"in", "echo"} THEN <<Says(log[n])>> ELSE <<>>])

\* The process is inside a message, or the end of the message is on its way to w.
InMessage(w) ==
  speech.at \in {"message", "block", "said"} \/ \E i \in DOMAIN inbox[w] : inbox[w][i].type = "end"

\* Whether it was streamed or replayed, a window shows every line of the process it was
\* given once, whole and in the order of the log, and no turn is left streaming; a message
\* that is still being said may show more.
\* A window that began to listen inside a block, or was disturbed while it was refreshed,
\* may show less.
LiveMatchesReplay ==
  \A w \in Windows :
    \/ past[w].lossy \/ past[w].cut
    \/ findStreamingTurn(win[w].msgs) # 0 /\ InMessage(w)
    \/ findStreamingTurn(win[w].msgs) = 0 /\
       FlattenSeq([i \in DOMAIN win[w].msgs |-> Shown(win[w].msgs[i])]) = Told(past[w].given)

\* The lines an event brings, and those that were brought before the i-th event of an inbox
\* or are by the ones ahead of it.
LinesOf(e) == IF e.type = "line" THEN {e.n} ELSE IF e.type = "history" THEN e.rows ELSE {}
Before(w, i) == past[w].given \cup UNION {LinesOf(inbox[w][j]) : j \in 1..(i - 1)}

\* A window in the channel that lost no event, or was refreshed undisturbed, was given, or
\* will be, every line the process printed, once and in the order of the log, but for those
\* printed between the last read of its join and the registration of its socket.
HistoryMeetsLive ==
  \A w \in members :
    past[w].lossy \/
    /\ \A n \in 1..Len(log) :
         log[n].type = "in" \/ n \in past[w].missed \/ n \in Before(w, Len(inbox[w]) + 1)
    /\ \A i \in DOMAIN inbox[w] : \A n \in LinesOf(inbox[w][i]), m \in Before(w, i) : m < n

\* Messages of the user that a window shows, echoed as uuid or, if that is 0, not yet.
Showing(w, t, uuid) ==
  {i \in DOMAIN win[w].msgs : win[w].msgs[i] = UserMessage(t, uuid)}

\* Prompts of a text that a window knows and has no echo of.
Unechoed(w, t) == {p \in Known(w) \ EchoedIn(past[w].given) : prompts[p].text = t}

\* Such a window shows each prompt whose echo it was given once, under the uuid of the echo,
\* and nothing else under it; of those that were not echoed it shows as many of a text as it
\* knows, though their texts are the same.  Only if the echo of a prompt it did not know was
\* taken for one of these does it show less, until their own echoes come.
EachPromptOnce ==
  \A w \in Windows :
    past[w].lossy \/
    /\ \A p \in EchoedIn(past[w].given) :
         Cardinality(Showing(w, prompts[p].text, p)) = 1
    /\ \A t \in Texts :
         /\ Cardinality(Showing(w, t, 0)) <= Cardinality(Unechoed(w, t))
         /\ past[w].taken \/ Cardinality(Showing(w, t, 0)) = Cardinality(Unechoed(w, t))
    /\ \A i \in DOMAIN win[w].msgs :
         win[w].msgs[i].type = "user" =>
           win[w].msgs[i].uuid \in {0} \cup EchoedIn(past[w].given)
=============================================================================
