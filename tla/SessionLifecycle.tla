-------------------------- MODULE SessionLifecycle --------------------------
(***************************************************************************)
(* From a conversation to a process and back: session:launch starts a new  *)
(* session, session:resume a process for a stored one, session:join        *)
(* attaches a window to a channel and restores it from the store if its    *)
(* process is gone.  Each starts its process with an initialize request    *)
(* that is settled by the response, by the exit or by its timer, whichever *)
(* comes first and is heard.                                               *)
(*                                                                         *)
(* Here are the identities and the order of events; the sockets of a       *)
(* channel are in ChannelSockets, so that a runner is unbound at any time  *)
(* (its last window left) and bound again by a join.  A Channel and its    *)
(* runner are one number, which is also the id of a new channel and the    *)
(* name of a launched session; session 0 is stored under channel id 0 from *)
(* an earlier run of the server.  The settings requests of a launch are    *)
(* one.  A line of the process and what it sets off are one step.          *)
(***************************************************************************)
EXTENDS Naturals, FiniteSets

CONSTANTS
  MaxRunners,   \* bound: processes
  MaxCalls,     \* bound: launches, resumes and joins
  Entry         \* the channel id whose place in a window's session list is followed

ASSUME ConstantsAssumption ==
  MaxRunners \in Nat /\ MaxCalls \in Nat /\ Entry \in 0..MaxRunners

VARIABLES
  spawned,   \* runners so far
  ch,        \* the Channel of a runner
  channels,  \* ChannelManager.channels: the runner of a channel id, 0 for none
  row,       \* the stored sessions
  gone,      \* the CLI has no conversation of session 0 any more
  calls,     \* handlers and init chains suspended at an await
  started,   \* calls so far
  shown,     \* what the session list of a window shows of Entry
  lists,     \* whether Entry is live, as read by an app:init that is not answered yet
  titles,    \* runners of Entry whose generated title is about to be announced
  (* history *)
  excused,   \* pairs of processes of one session the code is known to start
  bare,      \* channels of a resume whose commands a join was not told
  revived    \* dead channels listed as live again in a way the code does not look for

listVars == <<shown, lists, titles, revived>>
vars == <<spawned, ch, channels, row, gone, calls, started, listVars, excused, bare>>

Runners == 1..MaxRunners
Ids == 0..MaxRunners
Sessions == 0..MaxRunners

\* exited: _exited.  known: sessionId is set.  ready: readyPromise.  cmds: metaCache has
\* the slash commands.  req: the request whose response is awaited.
Channel == [sess : Sessions, id : Ids, by : {"none", "launch", "resume", "join"},
            process : {"none", "running", "exited"}, exited : BOOLEAN, bound : BOOLEAN,
            known : BOOLEAN, ready : {"pending", "ok", "failed"}, cmds : BOOLEAN,
            req : {"none", "init", "set"}]

NoChannel == [sess |-> 0, id |-> 0, by |-> "none", process |-> "none", exited |-> FALSE,
              bound |-> FALSE, known |-> FALSE, ready |-> "ok", cmds |-> FALSE, req |-> "none"]

\* since, blind: when the handler looked for a live process, how many there were, and
\* those of a launch or join whose sessionId was not known.
Call == [no : 1..MaxCalls, op : {"launch", "resume", "join"},
         pc : {"look", "init", "set", "apply", "ready"},
         key : Ids, since : Ids, blind : SUBSET Runners, n : Ids]

Row == [id : Ids, status : {"none", "active", "dead"}]

TypeOK ==
  /\ spawned \in 0..MaxRunners
  /\ ch \in [Runners -> Channel]
  /\ channels \in [Ids -> Ids]
  /\ row \in [Sessions -> Row]
  /\ gone \in BOOLEAN
  /\ calls \subseteq Call
  /\ started \in 0..MaxCalls
  /\ shown \in {"none", "live", "exited"}
  /\ lists \subseteq BOOLEAN
  /\ excused \subseteq Runners \X Runners
  /\ {titles, bare, revived} \subseteq SUBSET Runners

Init ==
  /\ spawned = 0 /\ started = 0
  /\ ch = [n \in Runners |-> NoChannel]
  /\ channels = [i \in Ids |-> 0]
  /\ row = [s \in Sessions |-> [id |-> 0, status |-> IF s = 0 THEN "active" ELSE "none"]]
  /\ gone \in BOOLEAN
  /\ calls = {}
  /\ shown = "none"
  /\ lists = {} /\ titles = {}
  /\ excused = {} /\ bare = {} /\ revived = {}

-----------------------------------------------------------------------------
(* Channels and processes *)

Spawned == 1..spawned
Running(n) == ch[n].process = "running"
Alive(n) == n # 0 /\ ~ch[n].exited

\* A second process of a session that the code does not prevent: the first was started
\* while the handler awaited, or its sessionId was not known yet, or a join looks only
\* for its own channel id, or the first had lost its place in channels.
Unprevented(s, id, op, since, blind) ==
  {m \in Spawned : Running(m) /\ ch[m].sess = s
     /\ \/ m > since \/ channels[ch[m].id] # m
        \/ op = "join" /\ ch[m].id # id
        \/ op = "resume" /\ m \in blind}

\* (mutant: the session id is left to session:init)
KnowsLate(op) == FALSE

\* onBeforeSpawn of a resume sets the sessionId, the others wait for session:init.
KnowsAtOnce(op) == op = "resume"

\* setupChannel, spawn and the initialize request.  join leaves readyPromise as it is.
Spawn(s, id, op, since, blind) ==
  LET n == spawned + 1 IN
  /\ n <= MaxRunners /\ spawned' = n
  /\ ch' = [ch EXCEPT ![n] =
       [sess |-> s, id |-> id, by |-> op, process |-> "running", exited |-> FALSE,
        bound |-> TRUE, known |-> KnowsAtOnce(op),
        ready |-> IF op = "join" THEN "ok" ELSE "pending", cmds |-> FALSE, req |-> "init"]]
  /\ channels' = [channels EXCEPT ![id] = n]
  /\ excused' = excused \cup (Unprevented(s, id, op, since, blind) \X {n})

-----------------------------------------------------------------------------
(* One entry of a window's session list *)

\* session:states as SessionContext applies it, whatever it is said of the channel.
ListedLive(id) == shown' = IF id = Entry THEN "live" ELSE shown

\* Noted where the server does not look whether the process has exited.
Noted(id) ==
  revived' = revived \cup {n \in Spawned : id = Entry /\ n = channels[id] /\ ch[n].exited}

\* (mutant: session:created puts a channel that is listed back to launching)
CreatedAnew(id) ==
  IF shown = "none" THEN ListedLive(id) /\ Noted(id) ELSE ListedLive(id) /\ UNCHANGED revived

\* session:created, to every window; handleCreated keeps what is listed.
Created(id) ==
  IF shown = "none" THEN ListedLive(id) /\ Noted(id) ELSE UNCHANGED <<shown, revived>>

\* handleSend, whether or not the process has exited.
Send(id) ==
  /\ channels[id] # 0
  /\ ListedLive(id) /\ Noted(id)
  /\ UNCHANGED <<spawned, ch, channels, row, gone, calls, started, lists, titles, excused,
                 bare>>

\* handleUpdateState, of any id a window knows.
UpdateState(id) ==
  /\ id = 0 \/ channels[id] # 0
  /\ ListedLive(id) /\ Noted(id)
  /\ UNCHANGED <<spawned, ch, channels, row, gone, calls, started, lists, titles, excused,
                 bare>>

\* A message:result, or a settings update of the CLI.
Line(n) ==
  /\ Running(n) /\ ch[n].bound
  /\ ListedLive(ch[n].id)
  /\ UNCHANGED <<spawned, ch, channels, row, gone, calls, started, lists, titles, excused,
                 bare, revived>>

\* generateTitleIfNeeded: the process has made a title, announced after an await.
TitleCame(n) ==
  /\ Running(n) /\ ch[n].bound /\ ch[n].id = Entry
  /\ titles' = titles \cup {n}
  /\ UNCHANGED <<spawned, ch, channels, row, gone, calls, started, shown, lists, excused,
                 bare, revived>>

Title(n) ==
  /\ n \in titles /\ titles' = titles \ {n}
  /\ ListedLive(ch[n].id) /\ Noted(ch[n].id)
  /\ UNCHANGED <<spawned, ch, channels, row, gone, calls, started, lists, excused, bare>>

\* handleClose kills the process, whose exit is Exit, and takes the channel off the list.
Close(id) ==
  /\ channels[id] # 0
  /\ shown' = IF id = Entry THEN "none" ELSE shown
  /\ UNCHANGED <<spawned, ch, channels, row, gone, calls, started, lists, titles, excused,
                 bare, revived>>

\* app:init of a window that connects: the live channels are read, then the settings are
\* awaited, then the answer takes the place of the list.
InitStart ==
  /\ lists = {} /\ lists' = {Alive(channels[Entry])}
  /\ UNCHANGED <<spawned, ch, channels, row, gone, calls, started, shown, titles, excused,
                 bare, revived>>

InitAnswer(live) ==
  /\ lists' = lists \ {live}
  /\ IF live THEN ListedLive(Entry) /\ Noted(Entry) ELSE shown' = "none" /\ UNCHANGED revived
  /\ UNCHANGED <<spawned, ch, channels, row, gone, calls, started, titles, excused, bare>>

-----------------------------------------------------------------------------
(* Settling an outbound request *)

Move(c, d) == calls' = (calls \ {c}) \cup {d}
Answer(c) == calls' = calls \ {c}

Waiting(n) == {c \in calls : c.n = n /\ c.pc \in {"init", "set"}}

\* (mutant: the ready promise is that of the initialize request alone)
ReadyOnInitAny(c) == TRUE

\* createEager's readyPromise; a resume has replaced it by its whole chain.
ReadyOnInit(c) == c.op = "launch"

\* The request of call c resolves: c goes on, a launch with its settings if it has any.
Resolved(c) ==
  LET n == c.n IN
  \/ /\ c.op = "launch" /\ c.pc = "init"
     /\ Move(c, [c EXCEPT !.pc = "set"])
     /\ ch' = [ch EXCEPT ![n].req = "set", ![n].ready = "ok"]
  \/ /\ Move(c, [c EXCEPT !.pc = IF c.op = "join" THEN "ready" ELSE "apply"])
     /\ ch' = [ch EXCEPT ![n].req = "none",
                         ![n].ready = IF c.pc = "init" /\ ReadyOnInit(c) THEN "ok" ELSE @]

\* markDeadIfMissing: after a resume, when the process said that it has no conversation.
Marked(c, missing) == c.op = "resume" /\ missing

\* (mutant: the handler of a rejected request does not go on)
RejectedCallsStuck(W) == (calls \ W) \cup {[c EXCEPT !.pc = "failed"] : c \in W}

\* A rejected setting is logged and the launch goes on; everything else ends.
RejectedCalls(W) ==
  (calls \ W) \cup {[c EXCEPT !.pc = "apply"] : c \in {d \in W : d.pc = "set"}}

\* The request of runner n rejects; e says whether the process has exited.
Rejected(n, e, missing) ==
  /\ calls' = RejectedCalls(Waiting(n))
  /\ ch' = [ch EXCEPT ![n].req = "none",
                      ![n].process = IF e THEN "exited" ELSE @,
                      ![n].exited = e \/ @,
                      ![n].ready = IF ch[n].req = "init" /\ ch[n].by # "join" THEN "failed" ELSE @]
  /\ row' = IF \E c \in Waiting(n) : Marked(c, missing)
            THEN [row EXCEPT ![ch[n].sess].status = "dead"] ELSE row

\* The process answers.  Unheard, the answer is lost and the request waits for its timer.
Respond(n) ==
  /\ Running(n) /\ ch[n].req # "none" /\ ch[n].bound
  /\ ~(gone /\ ch[n].sess = 0)
  /\ \E c \in Waiting(n) : Resolved(c)
  /\ UNCHANGED <<spawned, channels, row, gone, started, listVars, excused, bare>>

\* The 30 s timer of sendOutbound.
Timeout(n) ==
  /\ n \in Spawned /\ ch[n].req # "none"
  /\ Rejected(n, FALSE, FALSE)
  /\ UNCHANGED <<spawned, channels, gone, started, listVars, excused, bare>>

\* The process exits, one without a conversation after saying so.  Heard, the exit marks
\* the channel, rejects its request and closes it in every window.
Exit(n) ==
  /\ Running(n)
  /\ IF ch[n].bound
     THEN /\ Rejected(n, TRUE, gone /\ ch[n].sess = 0)
          /\ shown' = IF ch[n].id = Entry THEN "exited" ELSE shown
     ELSE /\ ch' = [ch EXCEPT ![n].process = "exited"]
          /\ UNCHANGED <<calls, row, shown>>
  /\ UNCHANGED <<spawned, channels, gone, started, lists, titles, revived, excused, bare>>

\* session:init: the sessionId is known, the row is written, windows see the session.
SessionInit(n) ==
  /\ Running(n) /\ ch[n].bound /\ ~(gone /\ ch[n].sess = 0)
  /\ ch' = [ch EXCEPT ![n].known = TRUE]
  /\ row' = [row EXCEPT ![ch[n].sess] = [id |-> ch[n].id, status |-> "active"]]
  /\ ListedLive(ch[n].id)
  /\ UNCHANGED <<spawned, channels, gone, calls, started, lists, titles, revived, excused, bare>>

\* The last socket of the channel goes away (ChannelSockets).
Unbind(n) ==
  /\ Running(n) /\ ch[n].bound
  /\ ch' = [ch EXCEPT ![n].bound = FALSE]
  /\ UNCHANGED <<spawned, channels, row, gone, calls, started, listVars, excused, bare>>

-----------------------------------------------------------------------------
(* Handlers *)

Start(op, pc, key, n) ==
  /\ started < MaxCalls /\ started' = started + 1
  /\ calls' = calls \cup {[no |-> started + 1, op |-> op, pc |-> pc, key |-> key,
                           since |-> 0, blind |-> {}, n |-> n]}

\* A handler that will start a process after an await.  The bound on processes counts
\* those that are going to be started.
Look(op, key) ==
  /\ started < MaxCalls /\ started' = started + 1
  /\ spawned + Cardinality({c \in calls : c.pc = "look"}) < MaxRunners
  /\ calls' = calls \cup {[no |-> started + 1, op |-> op, pc |-> "look", key |-> key,
                           since |-> spawned, n |-> 0,
                           blind |-> {m \in Spawned : ch[m].by # "resume" /\ ~ch[m].known}]}

\* handleLaunch: a new session in a new channel.
Launch ==
  /\ spawned + Cardinality({c \in calls : c.pc = "look"}) < MaxRunners
  /\ Start("launch", "init", 0, spawned + 1)
  /\ Spawn(spawned + 1, spawned + 1, "launch", spawned, {})
  /\ UNCHANGED <<row, gone, listVars, bare>>

\* findAliveBySessionId.
LiveOf(s) ==
  {n \in Spawned : channels[ch[n].id] = n /\ Alive(n) /\ ch[n].known /\ ch[n].sess = s}

\* handleResume up to the read of the row; a live channel is answered at once.
Resume(s) ==
  /\ row[s].status # "none"
  /\ IF LiveOf(s) # {}
     THEN /\ started < MaxCalls /\ started' = started + 1
          /\ UNCHANGED calls
     ELSE Look("resume", s)
  /\ UNCHANGED <<spawned, ch, channels, row, gone, listVars, excused, bare>>

\* The row is there: the channel is created, announced and acknowledged; the rest of
\* the call is the chain that readies it.
ResumeCreate(c) ==
  /\ c.op = "resume" /\ c.pc = "look"
  /\ Move(c, [c EXCEPT !.pc = "init", !.n = spawned + 1, !.since = 0, !.blind = {}])
  /\ Spawn(c.key, spawned + 1, "resume", c.since, c.blind)
  /\ Created(spawned + 1)
  /\ UNCHANGED <<row, gone, started, lists, titles, bare>>

\* handleJoin: a live channel as it is, else ChannelManager.join.
Join(id) ==
  /\ IF Alive(channels[id]) THEN Start("join", "ready", id, channels[id])
                            ELSE Look("join", id)
  /\ UNCHANGED <<spawned, ch, channels, row, gone, listVars, excused, bare>>

\* resolveSessionId: of the channel there is, or of the row that names its id.
SessionsOf(id) ==
  IF channels[id] # 0 /\ ch[channels[id]].known THEN {ch[channels[id]].sess}
  ELSE {s \in Sessions : row[s].status # "none" /\ row[s].id = id}

\* join after its reads: no session or no row of it, or a process under the old id.
JoinRestore(c) ==
  /\ c.op = "join" /\ c.pc = "look"
  /\ \/ /\ \A s \in SessionsOf(c.key) : row[s].status = "none"
        /\ Answer(c)
        /\ UNCHANGED <<spawned, ch, channels, excused>>
     \/ \E s \in SessionsOf(c.key) :
          /\ row[s].status # "none"
          /\ Spawn(s, c.key, "join", c.since, c.blind)
          /\ Move(c, [c EXCEPT !.pc = "init", !.n = spawned + 1, !.since = 0, !.blind = {}])
  /\ UNCHANGED <<row, gone, started, listVars, bare>>

\* A join after readyPromise: the runner is bound again and the window gets the state.
JoinReady(c) ==
  /\ c.op = "join" /\ c.pc = "ready" /\ ch[c.n].ready # "pending"
  /\ Answer(c)
  /\ IF ch[c.n].ready = "ok"
     THEN /\ ch' = [ch EXCEPT ![c.n].bound = TRUE]
          /\ bare' = IF ch[c.n].by = "resume" /\ ~ch[c.n].cmds THEN bare \cup {c.n} ELSE bare
     ELSE UNCHANGED <<ch, bare>>
  /\ UNCHANGED <<spawned, channels, row, gone, started, listVars, excused>>

\* applyInitResponseAndBroadcast has stored the models, or failed to: a launch is
\* announced and acknowledged, a resume is ready.
Apply(c) ==
  /\ c.pc = "apply"
  /\ Answer(c)
  /\ \/ /\ ch' = [ch EXCEPT ![c.n].cmds = TRUE, ![c.n].ready = "ok"]
        /\ IF c.op = "launch" THEN Created(ch[c.n].id) ELSE UNCHANGED <<shown, revived>>
     \/ /\ ch' = [ch EXCEPT ![c.n].ready = IF c.op = "resume" THEN "failed" ELSE @]
        /\ UNCHANGED <<shown, revived>>
  /\ UNCHANGED <<spawned, channels, row, gone, started, lists, titles, excused, bare>>

Next ==
  \/ Launch
  \/ \E s \in Sessions : Resume(s)
  \/ \E id \in Ids : Join(id)
  \/ \E c \in calls : ResumeCreate(c) \/ JoinRestore(c) \/ JoinReady(c) \/ Apply(c)
  \/ \E n \in Runners : Respond(n) \/ Timeout(n) \/ Exit(n) \/ SessionInit(n) \/ Unbind(n)
  \/ \E id \in Ids : Send(id) \/ UpdateState(id) \/ Close(id)
  \/ \E n \in Runners : Line(n) \/ TitleCame(n) \/ Title(n)
  \/ InitStart \/ \E live \in lists : InitAnswer(live)

Spec == Init /\ [][Next]_vars

Progress(k) ==
  \E c \in calls : c.no = k /\ (ResumeCreate(c) \/ JoinRestore(c) \/ JoinReady(c) \/ Apply(c))

\* Databases answer and timers fire; a process need not answer, nor exit.
FairSpec ==
  /\ Spec
  /\ \A n \in Runners : WF_vars(Timeout(n))
  /\ \A k \in 1..MaxCalls : WF_vars(Progress(k))

-----------------------------------------------------------------------------
(* Properties *)

\* One conversation, one process: two processes of a session run at once only if the
\* second was started in one of the four ways the code does not look for.
OneProcessPerSession ==
  \A b \in Spawned : \A a \in 1..(b - 1) :
    Running(a) /\ Running(b) /\ ch[a].sess = ch[b].sess => <<a, b>> \in excused

\* A window that joins a resumed channel is told its commands: it waits for the whole
\* chain of the resume, and the chain that failed answers it with an error.
JoinSeesCommands == bare = {}

\* A channel whose process is known to have exited is not listed as live, whichever came
\* first, the exit or what a suspended handler announces, unless a window wrote to it, a
\* list read or a title made before the exit came after it, or it was announced to a
\* window that had dropped it.
ClosedStaysClosed ==
  LET n == channels[Entry] IN
    n # 0 /\ ch[n].exited /\ (\A m \in Spawned : ch[m].id = Entry => m = n)
      => shown # "live" \/ n \in revived

\* Every handler comes to its answer and every chain to its end, whatever the process
\* does: by the response, the exit or the timer.
EveryCallEnds ==
  \A k \in 1..MaxCalls : (\E c \in calls : c.no = k) ~>
    ~\E c \in calls : c.no = k
=============================================================================
