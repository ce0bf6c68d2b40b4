------------------------ MODULE RemoteProcessesProofs ------------------------
(***************************************************************************)
(* Theorems about RemoteProcesses, for every set of processes and          *)
(* operations, every size of the outbox, and any number of connections,    *)
(* lines and crashes.                                                      *)
(***************************************************************************)
EXTENDS RemoteProcesses, SequenceTheorems, TLAPS

Message == Event \cup Response

LEMMA Bounds ==
  /\ OutboxLimit \in Nat /\ OutboxLimit >= 1 /\ MaxConns \in Nat /\ MaxConns >= 1
  /\ MaxLines \in Nat /\ MaxRestarts \in Nat
BY ConstantsAssumption DEF ConstantsAssumption

-----------------------------------------------------------------------------
(* Types of the operators the actions are built from *)

\* What a message of the summoner is.
LEMMA EventFields ==
  ASSUME NEW e \in Event
  PROVE  /\ e.p \in Procs
         /\ e.kind \in {"line", "exit"}
         /\ e.kind = "line" => e.n \in 1..MaxLines
BY DEF Event

LEMMA MessageFields ==
  ASSUME NEW m \in Message
  PROVE  /\ m.kind # "response" => m \in Event
         /\ m.kind = "response" => m.id \in Nat /\ m.ok \in BOOLEAN
<1>1. CASE m \in Event
  BY <1>1, EventFields
<1>2. CASE m \in Response
  BY <1>2 DEF Response
<1> QED
  BY <1>1, <1>2 DEF Message

LEMMA RequestFields ==
  ASSUME NEW r \in Request
  PROVE  /\ r.id \in Nat
         /\ r.call[1] = "op" => r.call \in Calls
         /\ r.call[1] = "spawn" => r.call \in Calls /\ r.call[2] \in Procs
         /\ r.call[1] = "kill" => r.call[2] \in Procs /\ r.call \notin Calls
BY DEF Request, Calls, Notices

LEMMA EventsOfType ==
  ASSUME NEW s \in Seq(Message)
  PROVE  EventsOf(s) \subseteq Procs
<1>1. \A i \in DOMAIN s : s[i] \in Message
  BY ElementOfSeq DEF Message
<1> QED
  BY <1>1, MessageFields, EventFields DEF EventsOf

LEMMA InitType == Init => TypeOK
<1> SUFFICES ASSUME Init PROVE TypeOK
  OBVIOUS
<1>1. /\ 0 \in 0..MaxConns /\ 0 \in 0..MaxLines /\ 0 \in 0..MaxRestarts
      /\ 0 <= OutboxLimit /\ 1 \in Nat /\ 0 \in Nat
  BY Bounds
<1>2. outbox \in Seq(Event) /\ Len(outbox) <= OutboxLimit
  BY <1>1, EmptySeq DEF Init
<1>3. /\ up \in [Conns -> Seq(Event \cup Response)]
      /\ down \in [Conns -> Seq(Request)]
      /\ yielded \in [Procs -> Seq(1..MaxLines)]
  BY EmptySeq DEF Init
<1>4. status \in BOOLEAN /\ wsOpen \in BOOLEAN
  BY DEF Init
<1> QED
  BY <1>1, <1>2, <1>3, <1>4 DEF Init, TypeOK

LEMMA FailType ==
  ASSUME TypeOK, NEW X, Fail(X)
  PROVE  /\ outcome' \in [Calls -> {"none", "pending", "ok", "failed"}]
         /\ stream' \in [Procs -> {"none", "open", "exited", "aborted"}]
BY DEF TypeOK, Fail

LEMMA SendType ==
  ASSUME TypeOK, NEW id \in Nat, NEW x \in Calls \cup Notices, Send(id, x)
  PROVE  down' \in [Conns -> Seq(Request)]
<1>1. [id |-> id, call |-> x] \in Request
  BY DEF Request
<1>2. \A c \in Conns : Append(down[c], [id |-> id, call |-> x]) \in Seq(Request)
  BY <1>1, AppendProperties DEF TypeOK
<1> QED
  BY <1>2 DEF TypeOK, Send

LEMMA DeliverType ==
  ASSUME TypeOK, NEW s \in Seq(Event), Deliver(s)
  PROVE  up' \in [Conns -> Seq(Event \cup Response)] /\ lost' \subseteq Procs
<1>1. s \in Seq(Message)
  BY DEF Message
<1>2. \A c \in Conns : up[c] \o s \in Seq(Message)
  BY <1>1, ConcatProperties DEF TypeOK, Message
<1>3. up' \in [Conns -> Seq(Event \cup Response)]
  <2>1. up \in [Conns -> Seq(Message)]
    BY DEF TypeOK, Message
  <2>2. up' \in [Conns -> Seq(Message)]
    BY <1>2, <2>1 DEF Deliver
  <2> QED
    BY <2>2 DEF Message
<1>4. lost' = lost \/ lost' = lost \cup EventsOf(s)
  BY DEF Deliver
<1>5. EventsOf(s) \subseteq Procs /\ lost \subseteq Procs
  BY <1>1, EventsOfType DEF TypeOK
<1> QED
  BY <1>3, <1>4, <1>5

LEMMA EmitType ==
  ASSUME TypeOK, NEW e \in Event, Emit(e)
  PROVE  /\ up' \in [Conns -> Seq(Event \cup Response)] /\ lost' \subseteq Procs
         /\ outbox' \in Seq(Event) /\ Len(outbox') <= OutboxLimit
<1>1. CASE wsOpen
  <2>1. <<e>> \in Seq(Event)
    OBVIOUS
  <2> QED
    BY <1>1, <2>1, DeliverType DEF Emit, TypeOK
<1>2. CASE ~wsOpen /\ Len(outbox) >= OutboxLimit
  <2>1. outbox \in Seq(Event) /\ outbox # <<>> /\ Len(outbox) <= OutboxLimit
    BY <1>2, Bounds, EmptySeq DEF TypeOK
  <2>2. /\ Head(outbox) \in Event /\ Tail(outbox) \in Seq(Event)
        /\ Len(Tail(outbox)) = Len(outbox) - 1
    BY <2>1, HeadTailProperties
  <2>3. outbox' = Append(Tail(outbox), e) /\ lost' = lost \cup {Head(outbox).p} /\ up' = up
    BY <1>2 DEF Emit
  <2>4. outbox' \in Seq(Event) /\ Len(outbox') = Len(outbox)
    BY <2>1, <2>2, <2>3, AppendProperties, LenProperties
  <2> QED
    BY <2>1, <2>2, <2>3, <2>4, EventFields DEF TypeOK
<1>3. CASE ~wsOpen /\ ~(Len(outbox) >= OutboxLimit)
  <2>1. outbox' = Append(outbox, e) /\ lost' = lost /\ up' = up
    BY <1>3 DEF Emit
  <2>2. outbox' \in Seq(Event) /\ Len(outbox') = Len(outbox) + 1
    BY <2>1, AppendProperties DEF TypeOK
  <2> QED
    BY <1>3, <2>1, <2>2, Bounds, LenProperties DEF TypeOK
<1> QED
  BY <1>1, <1>2, <1>3

LEMMA RespondType ==
  ASSUME TypeOK, NEW c, NEW id \in Nat, NEW ok \in BOOLEAN, Respond(c, id, ok)
  PROVE  up' \in [Conns -> Seq(Event \cup Response)]
<1> DEFINE m == [kind |-> "response", id |-> id, ok |-> ok]
<1>1. m \in Message
  BY DEF Message, Response
<1> HIDE DEF m
<1>2. \A d \in Conns : Append(up[d], m) \in Seq(Message)
  BY <1>1, AppendProperties DEF TypeOK, Message
<1> QED
  BY <1>2 DEF TypeOK, Respond, Message, m

\* The first message of a queue, and what is left.
LEMMA TakeType ==
  ASSUME NEW S, NEW s \in Seq(S), s # <<>>
  PROVE  Head(s) \in S /\ Tail(s) \in Seq(S)
BY HeadTailProperties
-----------------------------------------------------------------------------
(* Types *)

LEMMA CallType ==
  ASSUME TypeOK, NEW x \in Calls, Call(x)
  PROVE  TypeOK'
<1>1. CASE current = 0
  BY <1>1, FailType DEF TypeOK, Call, summonerVars, historyVars
<1>2. CASE current # 0
  <2>1. current \in Conns /\ nextId[current] \in Nat
    BY <1>2, Bounds DEF TypeOK, Conns
  <2>2. down' \in [Conns -> Seq(Request)]
    BY <1>2, <2>1, SendType DEF Call
  <2>3. /\ pending' \in [Conns -> SUBSET (Nat \X Calls)]
        /\ nextId' \in [Conns -> Nat]
        /\ outcome' \in [Calls -> {"none", "pending", "ok", "failed"}]
        /\ stream' \in [Procs -> {"none", "open", "exited", "aborted"}]
    <3>1. /\ pending \in [Conns -> SUBSET (Nat \X Calls)]
          /\ nextId \in [Conns -> Nat]
          /\ outcome \in [Calls -> {"none", "pending", "ok", "failed"}]
          /\ stream \in [Procs -> {"none", "open", "exited", "aborted"}]
      BY DEF TypeOK
    <3>2. pending[current] \cup {<<nextId[current], x>>} \in SUBSET (Nat \X Calls)
      BY <2>1, <3>1
    <3> QED
      BY <1>2, <2>1, <3>1, <3>2 DEF Call
  <2> QED
    BY <2>2, <2>3 DEF TypeOK, Call, summonerVars, historyVars
<1> QED
  BY <1>1, <1>2

LEMMA KillType ==
  ASSUME TypeOK, NEW p \in Procs, Kill(p)
  PROVE  TypeOK'
<1>1. nextId' \in [Conns -> Nat] /\ down' \in [Conns -> Seq(Request)]
  <2>1. CASE current = 0
    BY <2>1 DEF TypeOK, Kill
  <2>2. CASE current # 0
    <3>1. current \in Conns /\ nextId[current] \in Nat
      BY <2>2, Bounds DEF TypeOK, Conns
    <3>2. <<"kill", p>> \in Notices
      BY DEF Notices
    <3> QED
      <4>1. /\ nextId' = [nextId EXCEPT ![current] = @ + 1]
            /\ Send(nextId[current], <<"kill", p>>)
        BY <2>2 DEF Kill
      <4>2. down' \in [Conns -> Seq(Request)]
        BY <3>1, <3>2, <4>1, SendType
      <4>3. nextId' \in [Conns -> Nat]
        BY <3>1, <4>1 DEF TypeOK
      <4> QED
        BY <4>2, <4>3
  <2> QED
    BY <2>1, <2>2
<1> QED
  BY <1>1 DEF TypeOK, Kill, summonerVars, historyVars

LEMMA CallTimeoutType ==
  ASSUME TypeOK, NEW c \in Conns, CallTimeout(c)
  PROVE  TypeOK'
<1>1. pending' \in [Conns -> SUBSET (Nat \X Calls)]
  <2>1. pending \in [Conns -> SUBSET (Nat \X Calls)]
    BY DEF TypeOK
  <2> QED
    BY <2>1 DEF CallTimeout
<1>2. /\ outcome' \in [Calls -> {"none", "pending", "ok", "failed"}]
      /\ stream' \in [Procs -> {"none", "open", "exited", "aborted"}]
  BY FailType DEF CallTimeout
<1> QED
  BY <1>1, <1>2 DEF TypeOK, CallTimeout, summonerVars, historyVars

LEMMA AcceptType ==
  ASSUME TypeOK, Accept
  PROVE  TypeOK'
<1>1. accepted' \in 0..MaxConns /\ current' \in 0..MaxConns /\ ws' \in 0..MaxConns
      /\ srvOpen' \subseteq 1..accepted'
  BY Bounds DEF TypeOK, Accept
<1>2. \A c \in Conns : EventsOf(up[c]) \subseteq Procs
  BY EventsOfType DEF TypeOK, Message
<1>3. lost' \subseteq Procs
  BY <1>2 DEF TypeOK, Accept
<1>4. status' \in BOOLEAN /\ wsOpen' \in BOOLEAN
  BY DEF TypeOK, Accept
<1> QED
  BY <1>1, <1>3, <1>4 DEF TypeOK, Accept

LEMMA HandleOpenType ==
  ASSUME TypeOK, HandleOpen
  PROVE  TypeOK'
<1>1. up' \in [Conns -> Seq(Event \cup Response)] /\ lost' \subseteq Procs
  BY DeliverType DEF TypeOK, HandleOpen
<1>2. outbox' \in Seq(Event) /\ Len(outbox') <= OutboxLimit
  BY Bounds, EmptySeq DEF HandleOpen
<1> QED
  BY <1>1, <1>2 DEF TypeOK, HandleOpen, serverVars

LEMMA ClientCloseType ==
  ASSUME TypeOK, ClientClose
  PROVE  TypeOK'
<1>1. down' \in [Conns -> Seq(Request)]
  BY EmptySeq DEF TypeOK, ClientClose
<1>2. ws' \in 0..MaxConns
  BY Bounds DEF ClientClose
<1>4. wsOpen' \in BOOLEAN
  BY DEF ClientClose
<1>3. UNCHANGED <<srvOpen, current, status, pending, nextId, outcome, stream, outbox, process,
                  working, accepted, up, printed, yielded, executed, lost, restarts>>
  BY DEF ClientClose, serverVars, historyVars
<1> QED
  BY <1>1, <1>2, <1>3, <1>4 DEF TypeOK

LEMMA ServerCloseType ==
  ASSUME TypeOK, NEW c \in Conns, ServerClose(c)
  PROVE  TypeOK'
<1>1. lost' \subseteq Procs
  <2>1. EventsOf(up[c]) \subseteq Procs
    BY EventsOfType DEF TypeOK, Message
  <2> QED
    BY <2>1 DEF TypeOK, ServerClose
<1>2. up' \in [Conns -> Seq(Event \cup Response)]
  BY EmptySeq DEF TypeOK, ServerClose
<1>3. /\ outcome' \in [Calls -> {"none", "pending", "ok", "failed"}]
      /\ stream' \in [Procs -> {"none", "open", "exited", "aborted"}]
  BY FailType DEF ServerClose
<1>4. pending' \in [Conns -> SUBSET (Nat \X Calls)] /\ current' \in 0..MaxConns
      /\ srvOpen' \subseteq 1..accepted
  BY Bounds DEF TypeOK, ServerClose, Detached
<1>5. status' \in BOOLEAN
  BY DEF ServerClose, BroadcastOnClose
<1> QED
  BY <1>1, <1>2, <1>3, <1>4, <1>5 DEF TypeOK, ServerClose, summonerVars

LEMMA RestartType ==
  ASSUME TypeOK, Restart
  PROVE  TypeOK'
<1>1. down' \in [Conns -> Seq(Request)] /\ outbox' \in Seq(Event) /\ Len(outbox') <= OutboxLimit
  BY Bounds, EmptySeq DEF TypeOK, Restart
<1>2. lost' \subseteq Procs
  <2>1. outbox \in Seq(Message)
    BY DEF TypeOK, Message
  <2>2. EventsOf(outbox) \subseteq Procs
    BY <2>1, EventsOfType
  <2> QED
    BY <2>2 DEF TypeOK, Restart
<1>3. restarts' \in 0..MaxRestarts /\ ws' \in 0..MaxConns
  BY Bounds DEF TypeOK, Restart
<1>4. process' \in [Procs -> {"none", "running", "killed", "gone"}]
  BY DEF TypeOK, Restart
<1> QED
  BY <1>1, <1>2, <1>3, <1>4 DEF TypeOK, Restart, serverVars

LEMMA PrintLineType ==
  ASSUME TypeOK, NEW p \in Procs, PrintLine(p)
  PROVE  TypeOK'
<1> DEFINE e == [kind |-> "line", p |-> p, n |-> printed'[p]]
<1>1. printed' \in [Procs -> 0..MaxLines] /\ printed'[p] \in 1..MaxLines
  BY Bounds DEF TypeOK, PrintLine
<1>2. e \in Event
  BY <1>1 DEF Event
<1>3. Emit(e)
  BY DEF PrintLine
<1> HIDE DEF e
<1>4. /\ up' \in [Conns -> Seq(Event \cup Response)] /\ lost' \subseteq Procs
      /\ outbox' \in Seq(Event) /\ Len(outbox') <= OutboxLimit
  BY <1>2, <1>3, EmitType
<1> QED
  BY <1>1, <1>4 DEF TypeOK, PrintLine, serverVars

LEMMA ExitType ==
  ASSUME TypeOK, NEW p \in Procs, Exit(p)
  PROVE  TypeOK'
<1> DEFINE e == [kind |-> "exit", p |-> p]
<1>1. e \in Event
  BY DEF Event
<1>2. Emit(e)
  BY DEF Exit
<1> HIDE DEF e
<1>3. /\ up' \in [Conns -> Seq(Event \cup Response)] /\ lost' \subseteq Procs
      /\ outbox' \in Seq(Event) /\ Len(outbox') <= OutboxLimit
  BY <1>1, <1>2, EmitType
<1> QED
  BY <1>3 DEF TypeOK, Exit, serverVars

LEMMA HandleRequestType ==
  ASSUME TypeOK, wsOpen => ws # 0, HandleRequest
  PROVE  TypeOK'
<1> DEFINE r == Head(down[ws])
<1>1. ws \in Conns /\ r \in Request /\ Tail(down[ws]) \in Seq(Request)
  BY Bounds, TakeType DEF TypeOK, HandleRequest, Conns
<1>2. down' \in [Conns -> Seq(Request)]
  BY <1>1 DEF TypeOK, HandleRequest
<1>3. /\ process' \in [Procs -> {"none", "running", "killed", "gone"}]
      /\ executed' \in [Calls -> Nat]
      /\ working' \subseteq [conn : Conns, id : Nat, call : Calls]
      /\ up' \in [Conns -> Seq(Event \cup Response)]
  <2>1. CASE r.call[1] = "op"
    <3>1. r.call \in Calls /\ r.id \in Nat
      BY <1>1, <2>1, RequestFields
    <3>2. /\ working' = working \cup {[conn |-> ws, id |-> r.id, call |-> r.call]}
          /\ UNCHANGED <<process, executed, up>>
      BY <2>1 DEF HandleRequest
    <3> QED
      BY <1>1, <3>1, <3>2 DEF TypeOK
  <2>2. CASE r.call[1] = "spawn"
    <3>1. r.call \in Calls /\ r.call[2] \in Procs /\ r.id \in Nat
      BY <1>1, <2>2, RequestFields
    <3>2. /\ \/ /\ process' = [process EXCEPT ![r.call[2]] = "running"]
                /\ executed' = [executed EXCEPT ![r.call] = @ + 1]
             \/ UNCHANGED <<process, executed>>
          /\ Respond(ws, r.id, TRUE) \/ Respond(ws, r.id, FALSE)
          /\ working' = working
      BY <2>2 DEF HandleRequest
    <3>3. up' \in [Conns -> Seq(Event \cup Response)]
      BY <3>1, <3>2, RespondType
    <3>4. process \in [Procs -> {"none", "running", "killed", "gone"}]
          /\ executed \in [Calls -> Nat]
      BY DEF TypeOK
    <3>5. process' \in [Procs -> {"none", "running", "killed", "gone"}]
          /\ executed' \in [Calls -> Nat]
      BY <3>1, <3>2, <3>4
    <3> QED
      BY <3>2, <3>3, <3>5 DEF TypeOK
  <2>3. CASE r.call[1] = "kill"
    BY <1>1, <2>3, RequestFields DEF TypeOK, HandleRequest
  <2> QED
    BY <2>1, <2>2, <2>3 DEF HandleRequest
<1> QED
  BY <1>2, <1>3 DEF TypeOK, HandleRequest, serverVars

LEMMA OperatedType ==
  ASSUME TypeOK, Operated
  PROVE  TypeOK'
<1> PICK w \in working, ok \in BOOLEAN :
      /\ working' = working \ {w}
      /\ executed' = IF ok THEN [executed EXCEPT ![w.call] = @ + 1] ELSE executed
      /\ IF MayAnswer(w) THEN Respond(ws, w.id, ok) ELSE UNCHANGED up
  BY DEF Operated
<1>1. w.id \in Nat /\ w.call \in Calls
  BY DEF TypeOK
<1>2. up' \in [Conns -> Seq(Event \cup Response)]
  <2>1. CASE MayAnswer(w)
    BY <1>1, <2>1, RespondType
  <2>2. CASE ~MayAnswer(w)
    BY <2>2 DEF TypeOK
  <2> QED
    BY <2>1, <2>2
<1>3. executed' \in [Calls -> Nat]
  BY <1>1 DEF TypeOK
<1> QED
  BY <1>2, <1>3 DEF TypeOK, Operated, serverVars

LEMMA ReceiveType ==
  ASSUME TypeOK, NEW c \in Conns, Receive(c)
  PROVE  TypeOK'
<1> DEFINE m == Head(up[c])
<1>1. m \in Message /\ Tail(up[c]) \in Seq(Event \cup Response)
  BY TakeType DEF TypeOK, Receive, Message
<1>2. up' \in [Conns -> Seq(Event \cup Response)]
  BY <1>1 DEF TypeOK, Receive
<1>3. /\ yielded' \in [Procs -> Seq(1..MaxLines)]
      /\ stream' \in [Procs -> {"none", "open", "exited", "aborted"}]
      /\ outcome' \in [Calls -> {"none", "pending", "ok", "failed"}]
      /\ pending' \in [Conns -> SUBSET (Nat \X Calls)]
  <2>1. CASE ReceiveEvent(c)
    <3>1. m \in Event /\ m.p \in Procs /\ (m.kind = "line" => m.n \in 1..MaxLines)
      BY <1>1, <2>1, MessageFields, EventFields DEF ReceiveEvent
    <3>2. m.kind = "line" => Append(yielded[m.p], m.n) \in Seq(1..MaxLines)
      BY <3>1, AppendProperties DEF TypeOK
    <3> QED
      BY <2>1, <3>1, <3>2 DEF TypeOK, ReceiveEvent
  <2>2. CASE ReceiveResponse(c)
    BY <2>2, FailType DEF TypeOK, ReceiveResponse
  <2> QED
    BY <2>1, <2>2 DEF Receive
<1> QED
  BY <1>2, <1>3 DEF TypeOK, Receive, summonerVars
-----------------------------------------------------------------------------
(* The newest connection *)

\* The summoner is on the newest connection or on none, and holds events back only
\* while it is on none that is open.  Nothing is on its way to a server that has closed.
Link ==
  /\ ws \in {0, accepted}
  /\ wsOpen => ws # 0 /\ outbox = <<>>
  /\ \A c \in Conns : c \notin srvOpen => up[c] = <<>>
  /\ \A c \in Conns : c > accepted => down[c] = <<>>

LEMMA TypeOKStep ==
  ASSUME TypeOK, Link, CurrentIsNewest, [Next]_vars
  PROVE  TypeOK'
<1>0. wsOpen => ws # 0
  BY DEF Link
<1>1. CASE Accept \/ HandleOpen \/ ClientClose \/ Restart
  BY <1>1, AcceptType, HandleOpenType, ClientCloseType, RestartType
<1>2. CASE HandleRequest \/ Operated
  BY <1>0, <1>2, HandleRequestType, OperatedType
<1>3. ASSUME NEW p \in Procs, Spawn(p) \/ Kill(p) \/ PrintLine(p) \/ Exit(p)
      PROVE  TypeOK'
  <2>1. <<"spawn", p>> \in Calls
    BY DEF Calls
  <2> QED
    BY <1>3, <2>1, CallType, KillType, PrintLineType, ExitType DEF Spawn
<1>4. ASSUME NEW o \in Ops, Operate(o)
      PROVE  TypeOK'
  <2>1. <<"op", o>> \in Calls
    BY DEF Calls
  <2> QED
    BY <1>4, <2>1, CallType DEF Operate
<1>5. ASSUME NEW c \in Conns, ServerClose(c) \/ Receive(c) \/ CallTimeout(c)
      PROVE  TypeOK'
  BY <1>5, ServerCloseType, ReceiveType, CallTimeoutType
<1>6. CASE UNCHANGED vars
  BY <1>6 DEF TypeOK, vars, serverVars, summonerVars, historyVars
<1> QED
  BY <1>1, <1>2, <1>3, <1>4, <1>5, <1>6 DEF Next

\* What is added to a connection is added to one the server has not closed.
LEMMA DeliverOpen ==
  ASSUME TypeOK, Link, NEW s, Deliver(s)
  PROVE  \A c \in Conns : c \notin srvOpen => up'[c] = <<>>
BY DEF TypeOK, Link, Deliver

LEMMA RespondOpen ==
  ASSUME TypeOK, Link, NEW d, NEW id, NEW ok, Respond(d, id, ok)
  PROVE  \A c \in Conns : c \notin srvOpen => up'[c] = <<>>
BY DEF TypeOK, Link, Respond

LEMMA LinkStep ==
  ASSUME TypeOK, Link, CurrentIsNewest, [Next]_vars
  PROVE  Link' /\ CurrentIsNewest'
<1>1. CASE Accept
  <2>1. accepted \in Nat /\ accepted < MaxConns /\ srvOpen \subseteq 1..accepted
    BY <1>1 DEF TypeOK, Accept
  <2>2. accepted' = accepted + 1 /\ srvOpen' = srvOpen \cup {accepted + 1}
        /\ current' = accepted + 1 /\ ws' = accepted + 1
        /\ wsOpen' = wsOpen /\ outbox' = outbox /\ up' = up /\ down' = down /\ ws = 0
    BY <1>1 DEF Accept
  <2>3. ~wsOpen
    BY <2>2 DEF Link
  <2> QED
    BY <1>1, <2>1, <2>2, <2>3 DEF Link, CurrentIsNewest, Conns
<1>2. CASE HandleOpen
  <2>1. \A c \in Conns : c \notin srvOpen => up'[c] = <<>>
    BY <1>2, DeliverOpen DEF HandleOpen
  <2> QED
    BY <1>2, <2>1 DEF Link, CurrentIsNewest, HandleOpen, serverVars
<1>3. CASE ClientClose
  BY <1>3 DEF TypeOK, Link, CurrentIsNewest, ClientClose, serverVars
<1>4. CASE Restart
  BY <1>4 DEF Link, CurrentIsNewest, Restart, serverVars
<1>5. CASE HandleRequest
  <2>1. \A c \in Conns : c \notin srvOpen => up'[c] = <<>>
    BY <1>5, RespondOpen DEF HandleRequest, Link
  <2>2. \A c \in Conns : c > accepted => down'[c] = <<>>
    BY <1>5 DEF TypeOK, Link, HandleRequest, Conns
  <2> QED
    BY <1>5, <2>1, <2>2 DEF Link, CurrentIsNewest, HandleRequest, serverVars
<1>6. CASE Operated
  <2>1. \A c \in Conns : c \notin srvOpen => up'[c] = <<>>
    BY <1>6, RespondOpen DEF Operated, Link
  <2> QED
    BY <1>6, <2>1 DEF Link, CurrentIsNewest, Operated, serverVars
<1>7. ASSUME NEW x \in Calls, Call(x)
      PROVE  Link' /\ CurrentIsNewest'
  BY <1>7 DEF TypeOK, Link, CurrentIsNewest, Call, Send, summonerVars
<1>8. ASSUME NEW p \in Procs, Kill(p)
      PROVE  Link' /\ CurrentIsNewest'
  BY <1>8 DEF TypeOK, Link, CurrentIsNewest, Kill, Send, summonerVars
<1>9. ASSUME NEW p \in Procs, PrintLine(p) \/ Exit(p)
      PROVE  Link' /\ CurrentIsNewest'
  <2>1. PICK e : Emit(e)
    BY <1>9 DEF PrintLine, Exit
  <2>2. \A c \in Conns : c \notin srvOpen => up'[c] = <<>>
    BY <2>1, DeliverOpen DEF Emit, Link
  <2>3. wsOpen' = wsOpen /\ (wsOpen => outbox' = outbox)
    BY <1>9, <2>1 DEF PrintLine, Exit, Emit
  <2> QED
    BY <1>9, <2>2, <2>3 DEF Link, CurrentIsNewest, PrintLine, Exit, serverVars
<1>10. ASSUME NEW c \in Conns, ServerClose(c)
       PROVE  Link' /\ CurrentIsNewest'
  BY <1>10 DEF TypeOK, Link, CurrentIsNewest, ServerClose, Detached, BroadcastOnClose, summonerVars,
               Conns
<1>11. ASSUME NEW c \in Conns, Receive(c)
       PROVE  Link' /\ CurrentIsNewest'
  BY <1>11 DEF TypeOK, Link, CurrentIsNewest, Receive, summonerVars
<1>12. ASSUME NEW c \in Conns, CallTimeout(c)
       PROVE  Link' /\ CurrentIsNewest'
  BY <1>12 DEF Link, CurrentIsNewest, CallTimeout, summonerVars
<1>13. CASE UNCHANGED vars
  BY <1>13 DEF Link, CurrentIsNewest, vars, serverVars, summonerVars
<1>14. /\ \A p \in Procs : <<"spawn", p>> \in Calls
       /\ \A o \in Ops : <<"op", o>> \in Calls
  BY DEF Calls
<1> QED
  BY <1>1, <1>2, <1>3, <1>4, <1>5, <1>6, <1>7, <1>8, <1>9, <1>10, <1>11, <1>12, <1>13, <1>14
     DEF Next, Spawn, Operate

-----------------------------------------------------------------------------
(* Calls and their answers *)

\* Whatever is pending under a number is the call that was sent with it.
Names(c, id, y) == id < nextId[c] /\ \A x \in Calls : <<id, x>> \in pending[c] => x = y

\* A call that was made and that the summoner has not done yet.
Unserved(x) == executed[x] = 0 /\ outcome[x] # "none"

RequestsNamed ==
  /\ \A c \in Conns : \A i \in DOMAIN down[c] :
       /\ Names(c, down[c][i].id, down[c][i].call)
       /\ down[c][i].call \in Calls =>
            /\ Unserved(down[c][i].call)
            /\ \A w \in working : w.call # down[c][i].call
  /\ \A c, d \in Conns : \A i \in DOMAIN down[c], j \in DOMAIN down[d] :
       down[c][i].call = down[d][j].call /\ down[c][i].call \in Calls => c = d /\ i = j

WorkingNamed ==
  /\ \A w \in working : Names(w.conn, w.id, w.call) /\ Unserved(w.call)
  /\ \A w, v \in working : w.call = v.call => w = v

AnswersEarned ==
  \A c \in Conns : \A i \in DOMAIN up[c] :
    up[c][i].kind = "response" =>
      /\ up[c][i].id < nextId[c]
      /\ up[c][i].ok => \A x \in Calls : <<up[c][i].id, x>> \in pending[c] => executed[x] = 1

PendingNumbered == \A c \in Conns : \A q \in pending[c] : q[1] < nextId[c]

ExecutedWhenMade == \A x \in Calls : executed[x] = 1 => outcome[x] # "none"

Served ==
  /\ RequestsNamed /\ WorkingNamed /\ AnswersEarned
  /\ PendingNumbered /\ ExecutedWhenMade /\ OkMeansExecuted

\* A step that sends, executes and answers nothing: it may forget requests and answers,
\* and settle calls, those that were executed even with success.
LEMMA ForgettingServed ==
  ASSUME TypeOK, Served,
         nextId' = nextId, executed' = executed, working' \subseteq working,
         \A c \in Conns : down'[c] = down[c] \/ down'[c] = <<>>,
         \A c \in Conns : pending'[c] \subseteq pending[c],
         \A x \in Calls : /\ outcome[x] # "none" => outcome'[x] # "none"
                          /\ outcome'[x] = "ok" => outcome[x] = "ok" \/ executed[x] = 1,
         \A c \in Conns : \A i \in DOMAIN up'[c] :
           up'[c][i].kind = "response" => \E j \in DOMAIN up[c] : up[c][j] = up'[c][i]
  PROVE  Served'
<1>1. RequestsNamed'
  BY DEF Served, RequestsNamed, Names, Unserved
<1>2. WorkingNamed'
  <2>1. \A w \in working : w.conn \in Conns /\ w.call \in Calls
    BY DEF TypeOK
  <2> QED
    BY <2>1 DEF Served, WorkingNamed, Names, Unserved
<1>3. AnswersEarned'
  <2> SUFFICES ASSUME NEW c \in Conns, NEW i \in DOMAIN up'[c], up'[c][i].kind = "response"
               PROVE  /\ up'[c][i].id < nextId[c]
                      /\ up'[c][i].ok => \A x \in Calls :
                           <<up'[c][i].id, x>> \in pending'[c] => executed[x] = 1
    BY Zenon DEF AnswersEarned
  <2>1. PICK j \in DOMAIN up[c] : up[c][j] = up'[c][i]
    OBVIOUS
  <2>2. up[c][j].kind = "response"
    BY <2>1
  <2>3. /\ up[c][j].id < nextId[c]
        /\ up[c][j].ok => \A x \in Calls : <<up[c][j].id, x>> \in pending[c] => executed[x] = 1
    BY <2>2, Zenon DEF Served, AnswersEarned
  <2> QED
    BY <2>1, <2>3, Zenon
<1>4. PendingNumbered' /\ ExecutedWhenMade' /\ OkMeansExecuted'
  BY DEF Served, PendingNumbered, ExecutedWhenMade, OkMeansExecuted
<1> QED
  BY <1>1, <1>2, <1>3, <1>4 DEF Served

\* Events are no answers.
LEMMA DeliverAnswers ==
  ASSUME TypeOK, NEW s \in Seq(Event), Deliver(s)
  PROVE  \A c \in Conns : \A i \in DOMAIN up'[c] :
           up'[c][i].kind = "response" => \E j \in DOMAIN up[c] : up[c][j] = up'[c][i]
<1> SUFFICES ASSUME NEW c \in Conns, NEW i \in DOMAIN up'[c], up'[c][i].kind = "response"
             PROVE  \E j \in DOMAIN up[c] : up[c][j] = up'[c][i]
  OBVIOUS
<1>1. up[c] \in Seq(Message)
  BY DEF TypeOK, Message
<1>2. CASE up'[c] = up[c]
  BY <1>2
<1>3. CASE up'[c] = up[c] \o s
  <2>1. CASE i <= Len(up[c])
    BY <1>1, <1>3, <2>1, ConcatProperties
  <2>2. CASE ~(i <= Len(up[c]))
    <3>1. i - Len(up[c]) \in 1..Len(s) /\ up'[c][i] = s[i - Len(up[c])]
      BY <1>1, <1>3, <2>2, ConcatProperties
    <3>2. s[i - Len(up[c])] \in Event
      BY <3>1, ElementOfSeq
    <3> QED
      BY <3>1, <3>2, EventFields
  <2> QED
    BY <2>1, <2>2
<1>4. up'[c] = up[c] \/ up'[c] = up[c] \o s
  <2>1. up \in [Conns -> Seq(Message)]
    BY DEF TypeOK, Message
  <2> QED
    BY <2>1 DEF Deliver
<1> QED
  BY <1>2, <1>3, <1>4

LEMMA EmitAnswers ==
  ASSUME TypeOK, NEW e \in Event, Emit(e)
  PROVE  \A c \in Conns : \A i \in DOMAIN up'[c] :
           up'[c][i].kind = "response" => \E j \in DOMAIN up[c] : up[c][j] = up'[c][i]
<1>1. CASE wsOpen
  <2>1. <<e>> \in Seq(Event)
    OBVIOUS
  <2> QED
    BY <1>1, <2>1, DeliverAnswers DEF Emit
<1>2. CASE ~wsOpen
  BY <1>2 DEF Emit
<1> QED
  BY <1>1, <1>2

LEMMA FailOutcome ==
  ASSUME TypeOK, NEW X, Fail(X)
  PROVE  \A x \in Calls : /\ outcome[x] # "none" => outcome'[x] # "none"
                          /\ outcome'[x] = "ok" => outcome[x] = "ok"
BY DEF Fail

LEMMA AppendIndex ==
  ASSUME NEW S, NEW s \in Seq(S), NEW e \in S, NEW i \in DOMAIN Append(s, e)
  PROVE  \/ i \in DOMAIN s /\ Append(s, e)[i] = s[i]
         \/ i = Len(s) + 1 /\ Append(s, e)[i] = e
BY AppendProperties, LenProperties

LEMMA TailIndex ==
  ASSUME NEW S, NEW s \in Seq(S), s # <<>>, NEW i \in DOMAIN Tail(s)
  PROVE  /\ i \in Nat /\ i + 1 \in DOMAIN s /\ i + 1 # 1 /\ Tail(s)[i] = s[i + 1]
         /\ 1 \in DOMAIN s /\ Head(s) = s[1]
BY HeadTailProperties, LenProperties

\* A request is sent under a new number: by a call made now, or without anybody
\* waiting for its outcome.
LEMMA SendingServed ==
  ASSUME TypeOK, Served, NEW cc \in Conns, NEW y \in Calls \cup Notices,
         down' = [down EXCEPT ![cc] = Append(@, [id |-> nextId[cc], call |-> y])],
         nextId' = [nextId EXCEPT ![cc] = @ + 1],
         \A c \in Conns : \A q \in pending'[c] :
           q \in pending[c] \/ (c = cc /\ q = <<nextId[cc], y>> /\ y \in Calls),
         y \in Calls => outcome[y] = "none",
         \A x \in Calls : outcome'[x] = IF x = y THEN "pending" ELSE outcome[x],
         up' = up, working' = working, executed' = executed
  PROVE  Served'
<1> DEFINE new == [id |-> nextId[cc], call |-> y]
<1>1. /\ \A c \in Conns : nextId[c] \in Nat /\ nextId'[c] \in Nat /\ nextId'[c] >= nextId[c]
      /\ nextId'[cc] = nextId[cc] + 1
  BY DEF TypeOK
<1>2. \A c \in Conns : \A i \in DOMAIN down'[c] :
        \/ i \in DOMAIN down[c] /\ down'[c][i] = down[c][i]
        \/ c = cc /\ i = Len(down[cc]) + 1 /\ down'[c][i] = new
  <2> SUFFICES ASSUME NEW c \in Conns, NEW i \in DOMAIN down'[c]
               PROVE  \/ i \in DOMAIN down[c] /\ down'[c][i] = down[c][i]
                      \/ c = cc /\ i = Len(down[cc]) + 1 /\ down'[c][i] = new
    OBVIOUS
  <2>1. new \in Request /\ down[cc] \in Seq(Request)
    BY <1>1 DEF Request, TypeOK
  <2>2. CASE c = cc
    <3>1. down'[c] = Append(down[cc], new)
      BY <2>2 DEF TypeOK
    <3> HIDE DEF new
    <3> QED
      BY <2>1, <2>2, <3>1, AppendIndex
  <2>3. CASE c # cc
    BY <2>3 DEF TypeOK
  <2> QED
    BY <2>2, <2>3
<1>3. \A c \in Conns : \A id \in Nat : id < nextId[c] =>
        \A z : Names(c, id, z) => Names(c, id, z)'
  BY <1>1 DEF Names
<1>4. y \in Calls => executed[y] = 0
  BY DEF TypeOK, Served, ExecutedWhenMade, OkMeansExecuted
<1>5. \A x \in Calls : (Unserved(x) => x # y) /\ (Unserved(x) => Unserved(x)')
  BY DEF Unserved
<1>6. \A c \in Conns : \A i \in DOMAIN down[c] :
        /\ down[c][i].id \in Nat
        /\ Names(c, down[c][i].id, down[c][i].call)
        /\ down[c][i].call \in Calls => Unserved(down[c][i].call)
  BY ElementOfSeq, RequestFields DEF TypeOK, Served, RequestsNamed
<1>7. \A id, z : id = nextId[cc] /\ z = y => Names(cc, id, z)'
  <2> SUFFICES ASSUME NEW id, NEW z, id = nextId[cc], z = y
               PROVE  Names(cc, id, z)'
    OBVIOUS
  <2>1. id < nextId'[cc]
    BY <1>1
  <2>2. \A x : <<id, x>> \in pending[cc] => id < nextId[cc]
    BY DEF Served, PendingNumbered
  <2>3. \A x \in Calls : <<id, x>> \in pending'[cc] => x = z
    BY <1>1, <2>2
  <2> QED
    BY <2>1, <2>3 DEF Names
<1>8. y \in Calls => Unserved(y)'
  BY <1>4 DEF Unserved
<1>9. \A w \in working : /\ w.conn \in Conns /\ w.id \in Nat /\ w.call \in Calls
                         /\ Names(w.conn, w.id, w.call) /\ Unserved(w.call)
  BY DEF TypeOK, Served, WorkingNamed
<1>10. RequestsNamed'
  <2>1. ASSUME NEW c \in Conns, NEW i \in DOMAIN down'[c]
        PROVE  /\ Names(c, down[c][i].id, down[c][i].call)'
               /\ (down[c][i].call)' \in Calls =>
                     /\ Unserved(down[c][i].call)'
                     /\ \A w \in working : w.call # (down[c][i].call)'
    <3>1. CASE i \in DOMAIN down[c] /\ down'[c][i] = down[c][i]
      <4>1. Names(c, down[c][i].id, down[c][i].call)'
        <5>1. down[c][i].id \in Nat /\ down[c][i].id < nextId[c]
              /\ Names(c, down[c][i].id, down[c][i].call)
          BY <1>6, <3>1 DEF Names
        <5>2. \A id, z : id = down[c][i].id /\ z = down[c][i].call => Names(c, id, z)'
          BY <1>3, <5>1
        <5> QED
          BY <3>1, <5>2
      <4>2. down[c][i].call \in Calls => \A w \in working : w.call # down[c][i].call
        BY <3>1 DEF Served, RequestsNamed
      <4> QED
        BY <1>5, <1>6, <3>1, <4>1, <4>2
    <3>2. CASE c = cc /\ down'[c][i] = new
      <4>1. down'[c][i].id = nextId[cc] /\ down'[c][i].call = y
        BY <3>2
      <4>2. Names(c, down[c][i].id, down[c][i].call)'
        BY <1>7, <3>2, <4>1
      <4>3. y \in Calls => \A w \in working : w.call # y
        BY <1>5, <1>9
      <4>4. y \in Calls => \A z : z = y => Unserved(z)'
        BY <1>8 DEF Unserved
      <4> QED
        BY <4>1, <4>2, <4>3, <4>4
    <3> QED
      BY <1>2, <3>1, <3>2
  <2>2. ASSUME NEW c \in Conns, NEW d \in Conns, NEW i \in DOMAIN down'[c],
               NEW j \in DOMAIN down'[d], down'[c][i].call = down'[d][j].call,
               down'[c][i].call \in Calls
        PROVE  c = d /\ i = j
    <3>1. CASE i \in DOMAIN down[c] /\ down'[c][i] = down[c][i]
               /\ j \in DOMAIN down[d] /\ down'[d][j] = down[d][j]
      BY <2>2, <3>1 DEF Served, RequestsNamed
    <3>2. \A k \in DOMAIN down[c] : down[c][k].call \in Calls => down[c][k].call # new.call
      BY <1>5, <1>6
    <3>3. \A k \in DOMAIN down[d] : down[d][k].call \in Calls => down[d][k].call # new.call
      BY <1>5, <1>6
    <3> HIDE DEF new
    <3> QED
      BY <1>2, <2>2, <3>1, <3>2, <3>3
  <2> QED
    BY <2>1, <2>2 DEF RequestsNamed
<1>11. WorkingNamed'
  <2>1. \A w \in working : Names(w.conn, w.id, w.call)' /\ Unserved(w.call)'
    BY <1>3, <1>5, <1>9 DEF Names
  <2> QED
    BY <2>1 DEF Served, WorkingNamed
<1>12. AnswersEarned'
  <2> SUFFICES ASSUME NEW c \in Conns, NEW i \in DOMAIN up[c], up[c][i].kind = "response"
               PROVE  /\ up[c][i].id < nextId'[c]
                      /\ up[c][i].ok => \A x \in Calls :
                           <<up[c][i].id, x>> \in pending'[c] => executed[x] = 1
    BY Zenon DEF AnswersEarned
  <2>1. /\ up[c][i].id < nextId[c]
        /\ up[c][i].ok => \A x \in Calls : <<up[c][i].id, x>> \in pending[c] => executed[x] = 1
    BY Zenon DEF Served, AnswersEarned
  <2>2. up[c][i].id \in Nat
    <3>1. up[c] \in Seq(Message)
      BY DEF TypeOK, Message
    <3> QED
      BY <3>1, ElementOfSeq, MessageFields
  <2>3. up[c][i].id < nextId'[c]
    BY <1>1, <2>1, <2>2
  <2>4. \A x \in Calls : <<up[c][i].id, x>> \in pending'[c] => <<up[c][i].id, x>> \in pending[c]
    BY <1>1, <2>1, <2>2
  <2> QED
    BY <2>1, <2>3, <2>4, Zenon
<1>13. PendingNumbered'
  BY <1>1 DEF TypeOK, Served, PendingNumbered
<1>14. ExecutedWhenMade' /\ OkMeansExecuted'
  BY <1>4 DEF Served, ExecutedWhenMade, OkMeansExecuted
<1> QED
  BY <1>10, <1>11, <1>12, <1>13, <1>14 DEF Served

\* An answer is added to a connection, or to none.
LEMMA RespondAnswers ==
  ASSUME TypeOK, Served, NEW c \in Conns, NEW id \in Nat, NEW ok \in BOOLEAN,
         Respond(c, id, ok), id < nextId[c],
         nextId' = nextId, pending' = pending,
         \A x \in Calls : executed[x] = 1 => executed'[x] = 1,
         ok = TRUE => \A x \in Calls : <<id, x>> \in pending[c] => executed'[x] = 1
  PROVE  AnswersEarned'
<1> DEFINE m == [kind |-> "response", id |-> id, ok |-> ok]
<1>1. ASSUME NEW d \in Conns, NEW i \in DOMAIN up[d], up[d][i].kind = "response"
      PROVE  /\ up[d][i].id < nextId'[d]
             /\ up[d][i].ok => \A x \in Calls :
                  <<up[d][i].id, x>> \in pending'[d] => executed'[x] = 1
  <2>1. /\ up[d][i].id < nextId[d]
        /\ up[d][i].ok => \A x \in Calls : <<up[d][i].id, x>> \in pending[d] => executed[x] = 1
    BY <1>1, Zenon DEF Served, AnswersEarned
  <2> QED
    BY <2>1, Zenon
<1>2. \A d \in Conns : up'[d] = up[d] \/ (d = c /\ up'[d] = Append(up[c], m))
  <2>1. up \in [Conns -> Seq(Message)]
    BY DEF TypeOK, Message
  <2> QED
    BY <2>1 DEF Respond
<1>3. up[c] \in Seq(Message) /\ m \in Message
  BY DEF TypeOK, Message, Response
<1>4. m.id = id /\ m.ok = ok
  OBVIOUS
<1> HIDE DEF m
<1> SUFFICES ASSUME NEW d \in Conns, NEW i \in DOMAIN up'[d], up'[d][i].kind = "response"
             PROVE  /\ up'[d][i].id < nextId'[d]
                    /\ up'[d][i].ok => \A x \in Calls :
                         <<up'[d][i].id, x>> \in pending'[d] => executed'[x] = 1
  BY Zenon DEF AnswersEarned
<1>5. CASE i \in DOMAIN up[d] /\ up'[d][i] = up[d][i]
  <2>1. up[d][i].kind = "response"
    BY <1>5
  <2> QED
    BY <1>1, <1>5, <2>1, Zenon
<1>6. CASE d = c /\ up'[d][i] = m
  <2>1. up'[d][i].id = id /\ id < nextId'[d]
    BY <1>4, <1>6
  <2>2. up'[d][i].ok = ok
    BY <1>4, <1>6, Zenon
  <2>3. ASSUME up'[d][i].ok, NEW x \in Calls, <<up'[d][i].id, x>> \in pending'[d]
        PROVE  executed'[x] = 1
    <3>1. ok = TRUE
      BY <2>2, <2>3, Zenon
    <3>2. <<id, x>> \in pending[c]
      BY <1>6, <2>1, <2>3
    <3> QED
      BY <3>1, <3>2
  <2> QED
    BY <2>1, <2>3
<1>7. CASE up'[d] = up[d]
  BY <1>5, <1>7
<1>8. CASE d = c /\ up'[d] = Append(up[c], m)
  <2>1. i \in DOMAIN Append(up[c], m)
    BY <1>8
  <2>2. \/ i \in DOMAIN up[c] /\ Append(up[c], m)[i] = up[c][i]
        \/ Append(up[c], m)[i] = m
    BY <1>3, <2>1, AppendIndex
  <2> QED
    BY <1>5, <1>6, <1>8, <2>2
<1> QED
  BY <1>2, <1>7, <1>8

\* The summoner takes the next request from its connection.
LEMMA TakenRequest ==
  ASSUME TypeOK, Served, NEW c \in Conns, down[c] # <<>>,
         down' = [down EXCEPT ![c] = Tail(@)]
  PROVE  /\ Head(down[c]) \in Request
         /\ Names(c, Head(down[c]).id, Head(down[c]).call)
         /\ Head(down[c]).call \in Calls =>
              /\ Unserved(Head(down[c]).call)
              /\ \A w \in working : w.call # Head(down[c]).call
         /\ \A d \in Conns : \A i \in DOMAIN down'[d] :
              /\ Names(d, down'[d][i].id, down'[d][i].call)
              /\ down'[d][i].call \in Calls =>
                   /\ down'[d][i].call # Head(down[c]).call
                   /\ Unserved(down'[d][i].call)
                   /\ \A w \in working : w.call # down'[d][i].call
         /\ \A d, e \in Conns : \A i \in DOMAIN down'[d], j \in DOMAIN down'[e] :
              down'[d][i].call = down'[e][j].call /\ down'[d][i].call \in Calls => d = e /\ i = j
<1> DEFINE at(d, i) == IF d = c THEN i + 1 ELSE i
<1>1. down[c] \in Seq(Request)
  BY DEF TypeOK
<1>2. 1 \in DOMAIN down[c] /\ Head(down[c]) = down[c][1] /\ Head(down[c]) \in Request
  BY <1>1, HeadTailProperties, LenProperties, EmptySeq
<1>3. \A d \in Conns : \A i \in DOMAIN down'[d] :
        /\ at(d, i) \in DOMAIN down[d] /\ down'[d][i] = down[d][at(d, i)]
        /\ d = c => i \in Nat /\ at(d, i) # 1
  <2>1. \A i \in DOMAIN Tail(down[c]) :
          i \in Nat /\ i + 1 \in DOMAIN down[c] /\ i + 1 # 1 /\ Tail(down[c])[i] = down[c][i + 1]
    BY <1>1, TailIndex
  <2>2. \A d \in Conns : down'[d] = IF d = c THEN Tail(down[c]) ELSE down[d]
    BY DEF TypeOK
  <2> QED
    BY <2>1, <2>2
<1>4. \A d, e \in Conns : \A i \in DOMAIN down'[d], j \in DOMAIN down'[e] :
        d = e /\ at(d, i) = at(e, j) => i = j
  BY <1>3
<1> HIDE DEF at
<1>5. \A d, e \in Conns : \A i \in DOMAIN down[d], j \in DOMAIN down[e] :
        down[d][i].call = down[e][j].call /\ down[d][i].call \in Calls => d = e /\ i = j
  BY DEF Served, RequestsNamed
<1>6. \A d \in Conns : \A i \in DOMAIN down[d] :
        /\ Names(d, down[d][i].id, down[d][i].call)
        /\ down[d][i].call \in Calls =>
             /\ Unserved(down[d][i].call)
             /\ \A w \in working : w.call # down[d][i].call
  BY DEF Served, RequestsNamed
<1>7. /\ Names(c, Head(down[c]).id, Head(down[c]).call)
      /\ Head(down[c]).call \in Calls =>
           /\ Unserved(Head(down[c]).call)
           /\ \A w \in working : w.call # Head(down[c]).call
  BY <1>2, <1>6
<1>8. ASSUME NEW d \in Conns, NEW i \in DOMAIN down'[d]
      PROVE  /\ Names(d, down'[d][i].id, down'[d][i].call)
             /\ down'[d][i].call \in Calls =>
                  /\ down'[d][i].call # Head(down[c]).call
                  /\ Unserved(down'[d][i].call)
                  /\ \A w \in working : w.call # down'[d][i].call
  <2>1. at(d, i) \in DOMAIN down[d] /\ down'[d][i] = down[d][at(d, i)]
    BY <1>3
  <2>2. down'[d][i].call \in Calls => down'[d][i].call # Head(down[c]).call
    BY <1>2, <1>3, <1>5, <2>1
  <2> QED
    BY <1>6, <2>1, <2>2
<1>9. ASSUME NEW d \in Conns, NEW e \in Conns, NEW i \in DOMAIN down'[d], NEW j \in DOMAIN down'[e],
             down'[d][i].call = down'[e][j].call, down'[d][i].call \in Calls
      PROVE  d = e /\ i = j
  <2>1. d = e /\ at(d, i) = at(e, j)
    BY <1>3, <1>5, <1>9
  <2> QED
    BY <1>4, <2>1
<1> QED
  BY <1>2, <1>7, <1>8, <1>9

\* Names does not depend on what is sent or served.
LEMMA NamesKept ==
  ASSUME nextId' = nextId, pending' = pending,
         NEW c, NEW id, NEW y, Names(c, id, y)
  PROVE  \A i, z : i = id /\ z = y => Names(c, i, z)'
BY DEF Names

LEMMA HandleRequestServed ==
  ASSUME TypeOK, Link, Served, HandleRequest
  PROVE  Served'
<1> DEFINE r == Head(down[ws])
<1>1. wsOpen /\ ws # 0 /\ ws \in Conns /\ down[ws] # <<>>
      /\ down' = [down EXCEPT ![ws] = Tail(@)]
      /\ nextId' = nextId /\ pending' = pending /\ outcome' = outcome
  BY DEF TypeOK, Link, HandleRequest, Conns, serverVars
<1>2. /\ r \in Request
      /\ Names(ws, r.id, r.call)
      /\ r.call \in Calls => Unserved(r.call) /\ \A w \in working : w.call # r.call
  BY <1>1, TakenRequest
<1>3. \A d \in Conns : \A i \in DOMAIN down'[d] :
        /\ Names(d, down'[d][i].id, down'[d][i].call)
        /\ down'[d][i].call \in Calls =>
             /\ down'[d][i].call # r.call
             /\ Unserved(down'[d][i].call)
             /\ \A w \in working : w.call # down'[d][i].call
  BY <1>1, TakenRequest
<1>4. \A d, e \in Conns : \A i \in DOMAIN down'[d], j \in DOMAIN down'[e] :
        down'[d][i].call = down'[e][j].call /\ down'[d][i].call \in Calls => d = e /\ i = j
  BY <1>1, TakenRequest
<1>5. r.id \in Nat /\ r.id < nextId[ws]
  BY <1>2, RequestFields DEF Names
<1> HIDE DEF r
<1>6. PendingNumbered'
  BY <1>1 DEF Served, PendingNumbered
<1>7. \A d \in Conns : \A i \in DOMAIN down'[d] : Names(d, down[d][i].id, down[d][i].call)'
  BY <1>1, <1>3 DEF Names
<1>8. CASE r.call[1] = "op"
  <2>1. /\ working' = working \cup {[conn |-> ws, id |-> r.id, call |-> r.call]}
        /\ UNCHANGED <<process, executed, up>>
    BY <1>8 DEF HandleRequest, r
  <2>2. r.call \in Calls
    BY <1>2, <1>8, RequestFields
  <2>3. \A x : Unserved(x) => Unserved(x)'
    BY <1>1, <2>1 DEF Unserved
  <2>4. RequestsNamed'
    <3>1. \A d \in Conns : \A i \in DOMAIN down'[d] :
            down'[d][i].call \in Calls =>
              Unserved(down[d][i].call)' /\ \A w \in working' : w.call # down'[d][i].call
      BY <1>1, <1>3, <2>1 DEF Unserved
    <3> QED
      BY <1>4, <1>7, <3>1 DEF RequestsNamed
  <2>5. WorkingNamed'
    <3>1. \A w \in working' : Names(w.conn, w.id, w.call) /\ Unserved(w.call)
      BY <1>2, <2>1, <2>2 DEF Served, WorkingNamed
    <3>2. \A w \in working' : Names(w.conn, w.id, w.call)' /\ Unserved(w.call)'
      BY <1>1, <2>1, <3>1 DEF Names, Unserved
    <3>3. \A w, v \in working' : w.call = v.call => w = v
      BY <1>2, <2>1, <2>2 DEF Served, WorkingNamed
    <3> QED
      BY <3>2, <3>3 DEF WorkingNamed
  <2>6. AnswersEarned' /\ ExecutedWhenMade' /\ OkMeansExecuted'
    BY <1>1, <2>1 DEF Served, AnswersEarned, ExecutedWhenMade, OkMeansExecuted
  <2> QED
    BY <1>6, <2>4, <2>5, <2>6 DEF Served
<1>9. CASE r.call[1] = "spawn"
  <2>1. /\ \/ /\ Respond(ws, r.id, TRUE)
              /\ executed' = [executed EXCEPT ![r.call] = @ + 1]
           \/ Respond(ws, r.id, FALSE) /\ executed' = executed
        /\ working' = working
    BY <1>9 DEF HandleRequest, r
  <2>2. r.call \in Calls /\ executed[r.call] = 0 /\ outcome[r.call] # "none"
    BY <1>2, <1>9, RequestFields DEF Unserved
  <2>3. /\ executed'[r.call] \in {0, 1}
        /\ \/ Respond(ws, r.id, FALSE)
           \/ Respond(ws, r.id, TRUE) /\ executed'[r.call] = 1
        /\ \A x \in Calls : x # r.call => executed'[x] = executed[x]
    <3>1. executed \in [Calls -> Nat]
      BY DEF TypeOK
    <3>2. CASE executed' = [executed EXCEPT ![r.call] = @ + 1] /\ Respond(ws, r.id, TRUE)
      <4>1. executed'[r.call] = 1 /\ \A x \in Calls : x # r.call => executed'[x] = executed[x]
        BY <2>2, <3>1, <3>2
      <4> QED
        BY <3>2, <4>1
    <3>3. CASE executed' = executed /\ Respond(ws, r.id, FALSE)
      BY <2>2, <3>3
    <3> QED
      BY <2>1, <3>2, <3>3
  <2>4. \A x \in Calls : Unserved(x) /\ x # r.call => Unserved(x)'
    BY <1>1, <2>3 DEF Unserved
  <2>5. RequestsNamed'
    <3>1. \A d \in Conns : \A i \in DOMAIN down'[d] :
            down'[d][i].call \in Calls =>
              Unserved(down[d][i].call)' /\ \A w \in working' : w.call # down'[d][i].call
      BY <1>1, <1>3, <2>1, <2>3 DEF Unserved
    <3> QED
      BY <1>4, <1>7, <3>1 DEF RequestsNamed
  <2>6. WorkingNamed'
    <3>1. \A w \in working : Names(w.conn, w.id, w.call) /\ Unserved(w.call) /\ w.call # r.call
                             /\ w.call \in Calls
      BY <1>2, <2>2 DEF TypeOK, Served, WorkingNamed
    <3>2. \A w \in working : Names(w.conn, w.id, w.call)' /\ Unserved(w.call)'
      BY <1>1, <2>1, <2>3, <3>1 DEF Names, Unserved
    <3> QED
      BY <2>1, <3>2 DEF Served, WorkingNamed
  <2>7. AnswersEarned'
    <3>1. \A x \in Calls : <<r.id, x>> \in pending[ws] => x = r.call
      BY <1>2 DEF Names
    <3>2. \A x \in Calls : executed[x] = 1 => executed'[x] = 1
      BY <2>2, <2>3
    <3>3. CASE Respond(ws, r.id, FALSE)
      BY <1>1, <1>5, <3>2, <3>3, RespondAnswers
    <3>4. CASE Respond(ws, r.id, TRUE) /\ executed'[r.call] = 1
      BY <1>1, <1>5, <3>1, <3>2, <3>4, RespondAnswers
    <3> QED
      BY <2>3, <3>3, <3>4
  <2>8. ExecutedWhenMade' /\ OkMeansExecuted'
    BY <1>1, <2>2, <2>3 DEF Served, ExecutedWhenMade, OkMeansExecuted
  <2> QED
    BY <1>6, <2>5, <2>6, <2>7, <2>8 DEF Served
<1>10. CASE r.call[1] = "kill"
  <2>1. UNCHANGED <<working, executed, up>>
    BY <1>10 DEF HandleRequest, r
  <2>2. RequestsNamed'
    <3>1. \A d \in Conns : \A i \in DOMAIN down'[d] :
            down'[d][i].call \in Calls =>
              Unserved(down[d][i].call)' /\ \A w \in working' : w.call # down'[d][i].call
      BY <1>1, <1>3, <2>1 DEF Unserved
    <3> QED
      BY <1>4, <1>7, <3>1 DEF RequestsNamed
  <2>3. WorkingNamed' /\ AnswersEarned' /\ ExecutedWhenMade' /\ OkMeansExecuted'
    BY <1>1, <2>1
       DEF Served, WorkingNamed, Names, Unserved, AnswersEarned, ExecutedWhenMade, OkMeansExecuted
  <2> QED
    BY <1>6, <2>2, <2>3 DEF Served
<1> QED
  BY <1>8, <1>9, <1>10 DEF HandleRequest, r

LEMMA OperatedServed ==
  ASSUME TypeOK, Link, Served, Operated
  PROVE  Served'
<1> PICK w \in working, ok \in BOOLEAN :
      /\ working' = working \ {w}
      /\ executed' = IF ok THEN [executed EXCEPT ![w.call] = @ + 1] ELSE executed
      /\ IF MayAnswer(w) THEN Respond(ws, w.id, ok) ELSE UNCHANGED up
  BY DEF Operated
<1>1. /\ w.conn \in Conns /\ w.id \in Nat /\ w.call \in Calls
      /\ Names(w.conn, w.id, w.call)
      /\ executed[w.call] = 0 /\ outcome[w.call] # "none"
  BY DEF TypeOK, Served, WorkingNamed, Unserved
<1>2. nextId' = nextId /\ pending' = pending /\ outcome' = outcome /\ down' = down
  BY DEF Operated, serverVars
<1>3. /\ ok = TRUE => executed'[w.call] = 1
      /\ \A x \in Calls : x # w.call => executed'[x] = executed[x]
      /\ executed'[w.call] \in {0, 1}
  <2>1. CASE ok = TRUE
    BY <1>1, <2>1 DEF TypeOK
  <2>2. CASE ok = FALSE
    BY <1>1, <2>2
  <2> QED
    BY <2>1, <2>2
<1>4. RequestsNamed'
  <2>1. \A d \in Conns : \A i \in DOMAIN down[d] :
          /\ Names(d, down[d][i].id, down[d][i].call)
          /\ down[d][i].call \in Calls =>
               /\ Unserved(down[d][i].call) /\ down[d][i].call # w.call
               /\ \A v \in working : v.call # down[d][i].call
    BY DEF Served, RequestsNamed
  <2>2. \A d \in Conns : \A i \in DOMAIN down[d] : Names(d, down[d][i].id, down[d][i].call)'
    BY <1>2, <2>1 DEF Names
  <2>3. \A d \in Conns : \A i \in DOMAIN down[d] :
          down[d][i].call \in Calls => Unserved(down[d][i].call)'
    BY <1>2, <1>3, <2>1 DEF Unserved
  <2> QED
    BY <1>2, <2>1, <2>2, <2>3 DEF Served, RequestsNamed
<1>5. WorkingNamed'
  <2>1. \A v \in working' : v \in working /\ v.call \in Calls /\ v.call # w.call
    BY DEF TypeOK, Served, WorkingNamed
  <2>2. \A v \in working' : Names(v.conn, v.id, v.call) /\ Unserved(v.call)
    BY <2>1 DEF Served, WorkingNamed
  <2>3. \A v \in working' : Names(v.conn, v.id, v.call)' /\ Unserved(v.call)'
    BY <1>2, <1>3, <2>1, <2>2 DEF Names, Unserved
  <2> QED
    BY <2>1, <2>3 DEF Served, WorkingNamed
<1>6. AnswersEarned'
  <2>1. \A x \in Calls : executed[x] = 1 => executed'[x] = 1
    BY <1>1, <1>3
  <2>2. CASE MayAnswer(w)
    <3>1. ws = w.conn /\ Respond(ws, w.id, ok)
      BY <2>2 DEF MayAnswer
    <3>2. w.id < nextId[ws] /\ \A x \in Calls : <<w.id, x>> \in pending[ws] => x = w.call
      BY <1>1, <3>1 DEF Names
    <3>3. ok = TRUE => \A x \in Calls : <<w.id, x>> \in pending[ws] => executed'[x] = 1
      BY <1>3, <3>2
    <3> QED
      BY <1>1, <1>2, <2>1, <3>1, <3>2, <3>3, RespondAnswers
  <2>3. CASE ~MayAnswer(w)
    <3>1. up' = up
      BY <2>3
    <3> QED
      BY <1>2, <2>1, <3>1 DEF Served, AnswersEarned
  <2> QED
    BY <2>2, <2>3
<1>7. PendingNumbered' /\ ExecutedWhenMade' /\ OkMeansExecuted'
  BY <1>1, <1>2, <1>3 DEF Served, PendingNumbered, ExecutedWhenMade, OkMeansExecuted
<1> QED
  BY <1>4, <1>5, <1>6, <1>7 DEF Served

LEMMA ReceiveServed ==
  ASSUME TypeOK, Served, NEW c \in Conns, Receive(c)
  PROVE  Served'
<1> DEFINE m == Head(up[c])
<1>1. nextId' = nextId /\ executed' = executed /\ working' = working /\ down' = down
  BY DEF Receive, summonerVars
<1>2. up[c] \in Seq(Message) /\ up[c] # <<>> /\ up' = [up EXCEPT ![c] = Tail(@)]
  BY DEF TypeOK, Receive, Message
<1>3. \A d \in Conns : \A i \in DOMAIN up'[d] : \E j \in DOMAIN up[d] : up[d][j] = up'[d][i]
  <2> SUFFICES ASSUME NEW d \in Conns, NEW i \in DOMAIN up'[d]
               PROVE  \E j \in DOMAIN up[d] : up[d][j] = up'[d][i]
    OBVIOUS
  <2>1. CASE d = c
    <3>1. up'[d] = Tail(up[c])
      BY <1>2, <2>1 DEF TypeOK
    <3>2. i + 1 \in DOMAIN up[c] /\ Tail(up[c])[i] = up[c][i + 1]
      BY <1>2, <3>1, TailIndex
    <3> QED
      BY <2>1, <3>1, <3>2
  <2>2. CASE d # c
    BY <1>2, <2>2 DEF TypeOK
  <2> QED
    BY <2>1, <2>2
<1>4. 1 \in DOMAIN up[c] /\ m = up[c][1] /\ m \in Message
  BY <1>2, HeadTailProperties, LenProperties, EmptySeq
<1>5. (\A d \in Conns : pending'[d] \subseteq pending[d])
      /\ \A x \in Calls : /\ outcome[x] # "none" => outcome'[x] # "none"
                          /\ outcome'[x] = "ok" => outcome[x] = "ok" \/ executed[x] = 1
  <2>1. CASE ReceiveEvent(c)
    BY <2>1 DEF ReceiveEvent
  <2>2. CASE ReceiveResponse(c)
    <3> DEFINE X == {x \in pending[c] : x[1] = m.id}
    <3>1. m.kind = "response" /\ pending' = [pending EXCEPT ![c] = @ \ X]
      BY <2>2 DEF ReceiveResponse
    <3>2. \A d \in Conns : pending'[d] \subseteq pending[d]
      BY <3>1 DEF TypeOK
    <3>3. CASE m.ok
      <4>1. outcome' = [x \in Calls |-> IF <<m.id, x>> \in X THEN "ok" ELSE outcome[x]]
        BY <2>2, <3>3 DEF ReceiveResponse
      <4>2. m.ok => \A x \in Calls : <<m.id, x>> \in pending[c] => executed[x] = 1
        BY <1>4, <3>1, Zenon DEF Served, AnswersEarned
      <4>3. \A x \in Calls : <<m.id, x>> \in pending[c] => executed[x] = 1
        BY <3>3, <4>2, Zenon
      <4> QED
        BY <3>2, <4>1, <4>3
    <3>4. CASE ~m.ok
      <4>1. Fail({x[2] : x \in X})
        BY <2>2, <3>4 DEF ReceiveResponse
      <4> QED
        BY <3>2, <4>1, FailOutcome
    <3> QED
      BY <3>3, <3>4
  <2> QED
    BY <2>1, <2>2 DEF Receive
<1> QED
  BY <1>1, <1>3, <1>5, ForgettingServed

LEMMA CallServed ==
  ASSUME TypeOK, Link, Served, NEW x \in Calls, Call(x)
  PROVE  Served'
<1>1. nextId \in [Conns -> Nat] /\ pending \in [Conns -> SUBSET (Nat \X Calls)]
      /\ up' = up /\ working' = working /\ executed' = executed
  BY DEF TypeOK, Call, summonerVars, historyVars
<1>2. CASE current = 0
  <2>1. Fail({x}) /\ UNCHANGED <<pending, nextId, down>>
    BY <1>2 DEF Call
  <2> QED
    BY <1>1, <2>1, FailOutcome, ForgettingServed
<1>3. CASE current # 0
  <2>1. current \in Conns
    BY <1>3, Bounds DEF TypeOK, Conns
  <2>2. /\ outcome[x] = "none"
        /\ outcome' = [outcome EXCEPT ![x] = "pending"]
        /\ pending' = [pending EXCEPT ![current] = @ \cup {<<nextId[current], x>>}]
        /\ nextId' = [nextId EXCEPT ![current] = @ + 1]
        /\ down' = [down EXCEPT ![current] = Append(@, [id |-> nextId[current], call |-> x])]
    BY <1>3 DEF Call, Send
  <2>3. \A y \in Calls : outcome'[y] = IF y = x THEN "pending" ELSE outcome[y]
    BY <2>2 DEF TypeOK
  <2>4. \A c \in Conns : \A q \in pending'[c] :
          q \in pending[c] \/ (c = current /\ q = <<nextId[current], x>> /\ x \in Calls)
    BY <1>1, <2>1, <2>2
  <2> QED
    BY <1>1, <2>1, <2>2, <2>3, <2>4, SendingServed
<1> QED
  BY <1>2, <1>3

LEMMA KillServed ==
  ASSUME TypeOK, Served, NEW p \in Procs, Kill(p)
  PROVE  Served'
<1>1. /\ pending' = pending /\ outcome' = outcome
      /\ up' = up /\ working' = working /\ executed' = executed
  BY DEF Kill, summonerVars, historyVars
<1>2. CASE current = 0
  <2>1. nextId' = nextId /\ down' = down
    BY <1>2 DEF Kill
  <2> QED
    BY <1>1, <2>1, ForgettingServed
<1>3. CASE current # 0
  <2>1. current \in Conns
    BY <1>3, Bounds DEF TypeOK, Conns
  <2>2. <<"kill", p>> \in Notices /\ <<"kill", p>> \notin Calls
    BY DEF Notices, Calls
  <2>3. /\ nextId' = [nextId EXCEPT ![current] = @ + 1]
        /\ down' = [down EXCEPT ![current] =
                      Append(@, [id |-> nextId[current], call |-> <<"kill", p>>])]
    BY <1>3 DEF Kill, Send
  <2>4. \A y \in Calls : outcome'[y] = IF y = <<"kill", p>> THEN "pending" ELSE outcome[y]
    BY <1>1, <2>2
  <2> QED
    BY <1>1, <2>1, <2>2, <2>3, <2>4, SendingServed
<1> QED
  BY <1>2, <1>3

\* Connections come and go, events are emitted, calls time out.
LEMMA OtherServed ==
  ASSUME TypeOK, Link, Served,
         \/ Accept \/ HandleOpen \/ ClientClose \/ Restart
         \/ \E p \in Procs : PrintLine(p) \/ Exit(p)
         \/ \E c \in Conns : ServerClose(c) \/ CallTimeout(c)
         \/ UNCHANGED vars
  PROVE  Served'
<1> DEFINE Calm ==
      /\ nextId' = nextId /\ executed' = executed /\ working' \subseteq working
      /\ \A c \in Conns : down'[c] = down[c] \/ down'[c] = <<>>
      /\ \A c \in Conns : pending'[c] \subseteq pending[c]
      /\ \A x \in Calls : /\ outcome[x] # "none" => outcome'[x] # "none"
                          /\ outcome'[x] = "ok" => outcome[x] = "ok"
<1> DEFINE Answers == \A c \in Conns : \A i \in DOMAIN up'[c] :
      up'[c][i].kind = "response" => \E j \in DOMAIN up[c] : up[c][j] = up'[c][i]
<1>1. CASE Accept \/ UNCHANGED vars
  BY <1>1, ForgettingServed DEF Accept, vars, serverVars, summonerVars, historyVars
<1>2. CASE HandleOpen
  <2>1. Calm
    BY <1>2 DEF HandleOpen, serverVars
  <2>2. Answers
    BY <1>2, DeliverAnswers DEF HandleOpen, TypeOK
  <2> QED
    BY <2>1, <2>2, ForgettingServed
<1>3. CASE ClientClose
  <2>1. Calm /\ up' = up
    BY <1>3 DEF TypeOK, ClientClose, serverVars, historyVars
  <2> QED
    BY <2>1, ForgettingServed
<1>4. CASE Restart
  <2>1. Calm /\ up' = up
    BY <1>4 DEF Restart, serverVars
  <2> QED
    BY <2>1, ForgettingServed
<1>5. ASSUME NEW p \in Procs, PrintLine(p) \/ Exit(p)
      PROVE  Served'
  <2>1. Calm
    BY <1>5 DEF PrintLine, Exit, serverVars
  <2>2. PICK e \in Event : Emit(e)
    <3>1. CASE PrintLine(p)
      <4>1. printed'[p] \in 1..MaxLines
        BY <3>1, Bounds DEF TypeOK, PrintLine
      <4>2. [kind |-> "line", p |-> p, n |-> printed'[p]] \in Event
        BY <4>1 DEF Event
      <4> QED
        BY <3>1, <4>2 DEF PrintLine
    <3>2. CASE Exit(p)
      BY <3>2 DEF Exit, Event
    <3> QED
      BY <1>5, <3>1, <3>2
  <2>3. Answers
    BY <2>2, EmitAnswers
  <2> QED
    BY <2>1, <2>3, ForgettingServed
<1>6. ASSUME NEW c \in Conns, ServerClose(c)
      PROVE  Served'
  <2>1. Fail({x[2] : x \in pending[c]})
    BY <1>6 DEF ServerClose
  <2>2. Calm
    BY <1>6, <2>1, FailOutcome DEF TypeOK, ServerClose, summonerVars
  <2>3. up' = [up EXCEPT ![c] = <<>>]
    BY <1>6 DEF ServerClose
  <2>4. \A d \in Conns : up'[d] = up[d] \/ up'[d] = <<>>
    BY <2>3 DEF TypeOK
  <2>5. Answers
    BY <2>4
  <2> QED
    BY <2>2, <2>5, ForgettingServed
<1>7. ASSUME NEW c \in Conns, CallTimeout(c)
      PROVE  Served'
  <2>1. PICK x \in pending[c] : pending' = [pending EXCEPT ![c] = @ \ {x}] /\ Fail({x[2]})
    BY <1>7 DEF CallTimeout
  <2>2. Calm /\ up' = up
    BY <1>7, <2>1, FailOutcome DEF TypeOK, CallTimeout, summonerVars, historyVars
  <2> QED
    BY <2>2, ForgettingServed
<1> QED
  BY <1>1, <1>2, <1>3, <1>4, <1>5, <1>6, <1>7

LEMMA ServedStep ==
  ASSUME TypeOK, Link, Served, [Next]_vars
  PROVE  Served'
<1>1. /\ \A p \in Procs : <<"spawn", p>> \in Calls
      /\ \A o \in Ops : <<"op", o>> \in Calls
  BY DEF Calls
<1> QED
  BY <1>1, CallServed, KillServed, HandleRequestServed, OperatedServed, ReceiveServed, OtherServed
     DEF Next, Spawn, Operate

LEMMA InitServed == Init => Served /\ Link /\ CurrentIsNewest
<1> SUFFICES ASSUME Init PROVE Served /\ Link /\ CurrentIsNewest
  OBVIOUS
<1>1. Served
  BY DEF Init, Served, RequestsNamed, WorkingNamed, AnswersEarned, PendingNumbered,
         ExecutedWhenMade, OkMeansExecuted
<1>2. Link /\ CurrentIsNewest
  BY DEF Init, Link, CurrentIsNewest
<1> QED
  BY <1>1, <1>2

-----------------------------------------------------------------------------
(* Queues of events *)

\* The events in a queue; answers are none.
Evs(s) == {s[i] : i \in {j \in DOMAIN s : s[j].kind # "response"}}

\* An exit comes after every line.
Rank(m) == IF m.kind = "line" THEN m.n ELSE MaxLines + 1

Precedes(m, k) ==
  m.kind # "response" /\ k.kind # "response" /\ m.p = k.p => Rank(m) < Rank(k)

Ordered(s) == \A i, j \in DOMAIN s : i < j => Precedes(s[i], s[j])

\* Two queues, of which the first is read first.
Orderly(s, t) == Ordered(s) /\ Ordered(t) /\ \A m \in Evs(s), k \in Evs(t) : Precedes(m, k)

LEMMA EvsType ==
  ASSUME NEW s \in Seq(Message)
  PROVE  Evs(s) \subseteq Event
<1>1. \A i \in DOMAIN s : s[i] \in Message
  BY ElementOfSeq
<1> QED
  BY <1>1, MessageFields DEF Evs

LEMMA EvsOfQueue ==
  ASSUME NEW s \in Seq(Message), NEW m \in Evs(s)
  PROVE  m.p \in EventsOf(s)
BY DEF Evs, EventsOf

LEMMA EvsConcat ==
  ASSUME NEW s \in Seq(Message), NEW t \in Seq(Message)
  PROVE  Evs(s \o t) = Evs(s) \cup Evs(t)
<1>1. /\ Len(s) \in Nat /\ DOMAIN s = 1..Len(s) /\ DOMAIN t = 1..Len(t) /\ Len(t) \in Nat
      /\ DOMAIN (s \o t) = 1..(Len(s) + Len(t))
      /\ \A i \in 1..(Len(s) + Len(t)) :
           (s \o t)[i] = IF i <= Len(s) THEN s[i] ELSE t[i - Len(s)]
  BY ConcatProperties, LenProperties
<1>2. ASSUME NEW m \in Evs(s \o t) PROVE m \in Evs(s) \cup Evs(t)
  <2>1. PICK i \in DOMAIN (s \o t) : (s \o t)[i].kind # "response" /\ m = (s \o t)[i]
    BY <1>2 DEF Evs
  <2>2. CASE i <= Len(s)
    <3>1. i \in DOMAIN s /\ m = s[i]
      BY <1>1, <2>1, <2>2
    <3> QED
      BY <2>1, <3>1 DEF Evs
  <2>3. CASE ~(i <= Len(s))
    <3>1. i - Len(s) \in DOMAIN t /\ m = t[i - Len(s)]
      BY <1>1, <2>1, <2>3
    <3> QED
      BY <2>1, <3>1 DEF Evs
  <2> QED
    BY <2>2, <2>3
<1>3. ASSUME NEW m \in Evs(s) PROVE m \in Evs(s \o t)
  <2>1. PICK i \in DOMAIN s : s[i].kind # "response" /\ m = s[i]
    BY <1>3 DEF Evs
  <2>2. i \in DOMAIN (s \o t) /\ (s \o t)[i] = m
    BY <1>1, <2>1
  <2> QED
    BY <2>1, <2>2 DEF Evs
<1>4. ASSUME NEW m \in Evs(t) PROVE m \in Evs(s \o t)
  <2>1. PICK i \in DOMAIN t : t[i].kind # "response" /\ m = t[i]
    BY <1>4 DEF Evs
  <2>2. i + Len(s) \in DOMAIN (s \o t) /\ (s \o t)[i + Len(s)] = m
    BY <1>1, <2>1
  <2> QED
    BY <2>1, <2>2 DEF Evs
<1> QED
  BY <1>2, <1>3, <1>4

LEMMA EvsTail ==
  ASSUME NEW s \in Seq(Message), s # <<>>
  PROVE  /\ Evs(Tail(s)) \subseteq Evs(s)
         /\ Head(s).kind # "response" => Head(s) \in Evs(s)
         /\ \A m \in Evs(s) : m = Head(s) \/ m \in Evs(Tail(s))
<1>1. /\ Tail(s) \in Seq(Message) /\ Len(s) \in Nat /\ Len(s) # 0 /\ DOMAIN s = 1..Len(s)
      /\ DOMAIN Tail(s) = 1..(Len(s) - 1) /\ Head(s) = s[1]
      /\ \A i \in 1..(Len(s) - 1) : Tail(s)[i] = s[i + 1]
  BY HeadTailProperties, LenProperties, EmptySeq
<1>2. ASSUME NEW m \in Evs(Tail(s)) PROVE m \in Evs(s)
  <2>1. PICK i \in DOMAIN Tail(s) : Tail(s)[i].kind # "response" /\ m = Tail(s)[i]
    BY <1>2 DEF Evs
  <2>2. i + 1 \in DOMAIN s /\ s[i + 1] = m
    BY <1>1, <2>1
  <2> QED
    BY <2>1, <2>2 DEF Evs
<1>3. ASSUME NEW m \in Evs(s), m # Head(s) PROVE m \in Evs(Tail(s))
  <2>1. PICK i \in DOMAIN s : s[i].kind # "response" /\ m = s[i]
    BY <1>3 DEF Evs
  <2>2. i - 1 \in DOMAIN Tail(s) /\ Tail(s)[i - 1] = m
    BY <1>1, <1>3, <2>1
  <2> QED
    BY <2>1, <2>2 DEF Evs
<1>4. Head(s).kind # "response" => Head(s) \in Evs(s)
  BY <1>1 DEF Evs
<1> QED
  BY <1>2, <1>3, <1>4

LEMMA EvsOne ==
  ASSUME NEW e \in Event
  PROVE  Evs(<<e>>) = {e} /\ Evs(<<>>) = {} /\ Ordered(<<e>>) /\ Ordered(<<>>)
<1>1. e.kind # "response"
  BY EventFields
<1> QED
  BY <1>1 DEF Evs, Ordered

LEMMA EvsEmpty == Evs(<<>>) = {} /\ Ordered(<<>>)
BY DEF Evs, Ordered

LEMMA OrderedTail ==
  ASSUME NEW s \in Seq(Message), s # <<>>, Ordered(s)
  PROVE  /\ Ordered(Tail(s))
         /\ \A k \in Evs(Tail(s)) : Precedes(Head(s), k)
<1>1. /\ Tail(s) \in Seq(Message) /\ Len(s) \in Nat /\ Len(s) # 0 /\ DOMAIN s = 1..Len(s)
      /\ DOMAIN Tail(s) = 1..(Len(s) - 1) /\ Head(s) = s[1]
      /\ \A i \in 1..(Len(s) - 1) : Tail(s)[i] = s[i + 1]
  BY HeadTailProperties, LenProperties, EmptySeq
<1>2. \A i \in DOMAIN Tail(s) : i \in Nat /\ i + 1 \in DOMAIN s /\ 1 < i + 1 /\ 1 \in DOMAIN s
  BY <1>1
<1>3. Ordered(Tail(s))
  BY <1>1, <1>2 DEF Ordered
<1>4. \A i \in DOMAIN Tail(s) : Precedes(Head(s), Tail(s)[i])
  BY <1>1, <1>2 DEF Ordered
<1> QED
  BY <1>3, <1>4 DEF Evs

LEMMA OrderedConcat ==
  ASSUME NEW s \in Seq(Message), NEW t \in Seq(Message), Orderly(s, t)
  PROVE  Ordered(s \o t)
<1>1. /\ Len(s) \in Nat /\ DOMAIN s = 1..Len(s) /\ DOMAIN t = 1..Len(t) /\ Len(t) \in Nat
      /\ DOMAIN (s \o t) = 1..(Len(s) + Len(t))
      /\ \A i \in 1..(Len(s) + Len(t)) :
           (s \o t)[i] = IF i <= Len(s) THEN s[i] ELSE t[i - Len(s)]
  BY ConcatProperties, LenProperties
<1> SUFFICES ASSUME NEW i \in DOMAIN (s \o t), NEW j \in DOMAIN (s \o t), i < j
             PROVE  Precedes((s \o t)[i], (s \o t)[j])
  BY DEF Ordered
<1>2. CASE j <= Len(s)
  <2>1. i \in DOMAIN s /\ j \in DOMAIN s /\ (s \o t)[i] = s[i] /\ (s \o t)[j] = s[j]
    BY <1>1, <1>2
  <2> QED
    BY <2>1 DEF Orderly, Ordered
<1>3. CASE i <= Len(s) /\ ~(j <= Len(s))
  <2>1. /\ i \in DOMAIN s /\ j - Len(s) \in DOMAIN t
        /\ (s \o t)[i] = s[i] /\ (s \o t)[j] = t[j - Len(s)]
    BY <1>1, <1>3
  <2>2. s[i].kind # "response" => s[i] \in Evs(s)
    BY <2>1 DEF Evs
  <2>3. t[j - Len(s)].kind # "response" => t[j - Len(s)] \in Evs(t)
    BY <2>1 DEF Evs
  <2> QED
    BY <2>1, <2>2, <2>3 DEF Orderly, Precedes
<1>4. CASE ~(i <= Len(s))
  <2>1. /\ i - Len(s) \in DOMAIN t /\ j - Len(s) \in DOMAIN t /\ i - Len(s) < j - Len(s)
        /\ (s \o t)[i] = t[i - Len(s)] /\ (s \o t)[j] = t[j - Len(s)]
    BY <1>1, <1>4
  <2> QED
    BY <2>1 DEF Orderly, Ordered
<1> QED
  BY <1>1, <1>2, <1>3, <1>4

\* Reading the first queue, dropping the oldest of the second, moving the second behind
\* the first, and adding what comes after all of them, keep the order.
LEMMA OrderlyRead ==
  ASSUME NEW s \in Seq(Message), NEW t \in Seq(Message), s # <<>>, Orderly(s, t)
  PROVE  /\ Orderly(Tail(s), t)
         /\ Head(s).kind # "response" =>
              \A k \in Evs(Tail(s)) \cup Evs(t) : Precedes(Head(s), k)
BY EvsTail, OrderedTail DEF Orderly

LEMMA OrderlyDrop ==
  ASSUME NEW s \in Seq(Message), NEW t \in Seq(Message), t # <<>>, Orderly(s, t)
  PROVE  Orderly(s, Tail(t))
BY EvsTail, OrderedTail DEF Orderly

LEMMA OrderlyFlush ==
  ASSUME NEW s \in Seq(Message), NEW t \in Seq(Message), Orderly(s, t)
  PROVE  Orderly(s \o t, <<>>)
BY OrderedConcat, EvsEmpty DEF Orderly

LEMMA OrderlyAdd ==
  ASSUME NEW s \in Seq(Message), NEW t \in Seq(Message), Orderly(s, t), NEW e \in Event,
         \A m \in Evs(s) \cup Evs(t) : Precedes(m, e)
  PROVE  /\ Orderly(s, Append(t, e))
         /\ Evs(Append(t, e)) = Evs(t) \cup {e}
<1>1. e \in Message /\ <<e>> \in Seq(Message)
  BY DEF Message
<1>2. Append(t, e) = t \o <<e>>
  BY <1>1, AppendIsConcat
<1>3. Orderly(t, <<e>>)
  BY EvsOne DEF Orderly
<1>4. Ordered(t \o <<e>>) /\ Evs(t \o <<e>>) = Evs(t) \cup {e}
  BY <1>1, <1>3, OrderedConcat, EvsConcat, EvsOne
<1> QED
  BY <1>2, <1>4 DEF Orderly

-----------------------------------------------------------------------------
(* What is on its way to the server *)

\* What a LineStream may still be given: the events on the newest connection, then
\* those the summoner holds back.
Way == IF accepted = 0 THEN <<>> ELSE up[accepted]
Under == Evs(Way) \cup Evs(outbox)

InOrder == Orderly(Way, outbox)

\* An event under way tells of something that happened and that was not read.
UnderWay ==
  \A m \in Under :
    /\ m.kind = "line" =>
         m.n <= printed[m.p] /\ \A k \in DOMAIN yielded[m.p] : yielded[m.p][k] < m.n
    /\ m.kind = "exit" => process[m.p] = "gone"

YieldedPrinted == \A p \in Procs : \A k \in DOMAIN yielded[p] : yielded[p][k] <= printed[p]

\* As long as nothing of a process was dropped, its lines are with the runner or under
\* way.
NothingMissing ==
  \A p \in Procs \ lost : stream[p] \in {"none", "open"} =>
    /\ \A k \in DOMAIN yielded[p] : yielded[p][k] = k
    /\ \A n \in 1..printed[p] :
         n <= Len(yielded[p]) \/ \E m \in Under : m.kind = "line" /\ m.p = p /\ m.n = n

ExitedIsGone == \A p \in Procs : stream[p] = "exited" => process[p] = "gone"

\* A process runs because it was spawned, which was asked once.
SpawnedOnce ==
  \A p \in Procs :
    /\ process[p] # "none" => executed[<<"spawn", p>>] = 1
    /\ process[p] = "none" => printed[p] = 0
    /\ stream[p] = "none" <=> outcome[<<"spawn", p>>] = "none"

Streams == InOrder /\ UnderWay /\ YieldedPrinted /\ NothingMissing /\ ExitedIsGone /\ NoSilentLoss

LEMMA WayType ==
  ASSUME TypeOK
  PROVE  /\ Way \in Seq(Message) /\ outbox \in Seq(Message) /\ outbox \in Seq(Event)
         /\ Under \subseteq Event
<1>1. accepted # 0 => accepted \in Conns
  BY Bounds DEF TypeOK, Conns
<1>2. Way \in Seq(Message) /\ outbox \in Seq(Message) /\ outbox \in Seq(Event)
  BY <1>1, EmptySeq DEF TypeOK, Way, Message
<1> QED
  BY <1>2, EvsType DEF Under

\* Events that are not read stay under way, or their process is in lost, or nobody
\* listens for them any more.
LEMMA CarriedStreams ==
  ASSUME TypeOK, TypeOK', Streams, InOrder',
         Under' \subseteq Under,
         \A m \in Under : \/ m.p \in lost' \/ m \in Under'
                          \/ stream'[m.p] \notin {"none", "open"},
         lost \subseteq lost', printed' = printed, yielded' = yielded,
         \A p \in Procs : process[p] = "gone" => process'[p] = "gone",
         \A p \in Procs : stream'[p] \in {"none", "open"} => stream[p] \in {"none", "open"},
         \A p \in Procs : stream'[p] = "exited" => stream[p] = "exited"
  PROVE  Streams'
<1>1. Under \subseteq Event
  BY WayType
<1>2. \A m \in Under : m.p \in Procs
  BY <1>1, EventFields
<1>3. UnderWay' /\ YieldedPrinted'
  BY <1>2 DEF Streams, UnderWay, YieldedPrinted
<1>4. NothingMissing'
  <2> SUFFICES ASSUME NEW p \in Procs, p \notin lost', stream'[p] \in {"none", "open"}
               PROVE  /\ \A k \in DOMAIN yielded[p] : yielded[p][k] = k
                      /\ \A n \in 1..printed[p] :
                           \/ n <= Len(yielded[p])
                           \/ \E m \in Under' : m.kind = "line" /\ m.p = p /\ m.n = n
    BY DEF NothingMissing
  <2>1. /\ \A k \in DOMAIN yielded[p] : yielded[p][k] = k
        /\ \A n \in 1..printed[p] :
             \/ n <= Len(yielded[p])
             \/ \E m \in Under : m.kind = "line" /\ m.p = p /\ m.n = n
    BY DEF Streams, NothingMissing
  <2> QED
    BY <2>1
<1>5. ExitedIsGone' /\ NoSilentLoss'
  BY DEF Streams, ExitedIsGone, NoSilentLoss
<1> QED
  BY <1>3, <1>4, <1>5 DEF Streams

\* WsClient puts events on its connection, which is the newest one.
LEMMA DeliverCarries ==
  ASSUME TypeOK, Link, ws # 0, NEW s \in Seq(Event), Orderly(Way, s), Deliver(s),
         accepted' = accepted
  PROVE  /\ Orderly(Way', <<>>)
         /\ Evs(Way') \subseteq Evs(Way) \cup Evs(s)
         /\ \A m \in Evs(Way) \cup Evs(s) : m.p \in lost' \/ m \in Evs(Way')
         /\ lost \subseteq lost'
<1>1. ws = accepted /\ accepted # 0 /\ accepted \in Conns
  BY Bounds DEF TypeOK, Link, Conns
<1>2. Way = up[ws] /\ Way' = up'[ws]
  BY <1>1 DEF Way
<1>3. Way \in Seq(Message) /\ s \in Seq(Message)
  BY WayType DEF Message
<1>4. up \in [Conns -> Seq(Message)]
  BY DEF TypeOK, Message
<1>5. CASE ws \in srvOpen
  <2>1. Way' = Way \o s /\ lost' = lost
    BY <1>1, <1>2, <1>4, <1>5 DEF Deliver
  <2> QED
    BY <1>3, <2>1, OrderlyFlush, EvsConcat
<1>6. CASE ws \notin srvOpen
  <2>1. Way' = Way /\ lost' = lost \cup EventsOf(s) /\ Way = <<>>
    BY <1>1, <1>2, <1>6 DEF Deliver, Link
  <2>2. \A m \in Evs(s) : m.p \in lost'
    BY <1>3, <2>1, EvsOfQueue
  <2> QED
    BY <2>1, <2>2, EvsEmpty DEF Orderly
<1> QED
  BY <1>5, <1>6

\* WsClient.emit of an event that comes after all those under way.
LEMMA EmitCarries ==
  ASSUME TypeOK, Link, InOrder, NEW e \in Event, Emit(e), accepted' = accepted,
         \A m \in Under : Precedes(m, e)
  PROVE  /\ InOrder'
         /\ Under' \subseteq Under \cup {e}
         /\ \A m \in Under \cup {e} : m.p \in lost' \/ m \in Under'
         /\ lost \subseteq lost'
<1>0. Way \in Seq(Message) /\ outbox \in Seq(Message) /\ outbox \in Seq(Event)
  BY WayType
<1>1. CASE wsOpen
  <2>1. ws # 0 /\ outbox = <<>> /\ Deliver(<<e>>) /\ outbox' = <<>>
    BY <1>1 DEF Link, Emit
  <2>2. <<e>> \in Seq(Event) /\ Evs(<<e>>) = {e} /\ Evs(<<>>) = {}
    BY EvsOne
  <2>3. Orderly(Way, <<e>>)
    BY <2>2, EvsOne DEF InOrder, Orderly, Under
  <2>4. /\ Orderly(Way', <<>>)
        /\ Evs(Way') \subseteq Evs(Way) \cup {e}
        /\ \A m \in Evs(Way) \cup {e} : m.p \in lost' \/ m \in Evs(Way')
        /\ lost \subseteq lost'
    BY <2>1, <2>2, <2>3, DeliverCarries
  <2> QED
    BY <2>1, <2>2, <2>4 DEF InOrder, Under
<1>2. CASE ~wsOpen /\ Len(outbox) >= OutboxLimit
  <2>1. outbox' = Append(Tail(outbox), e) /\ lost' = lost \cup {Head(outbox).p} /\ up' = up
    BY <1>2 DEF Emit
  <2>2. outbox # <<>> /\ Tail(outbox) \in Seq(Message)
    BY <1>0, <1>2, Bounds, EmptySeq, HeadTailProperties
  <2>3. Way' = Way
    BY <2>1 DEF Way
  <2>4. Orderly(Way, Tail(outbox))
    BY <1>0, <2>2, OrderlyDrop DEF InOrder
  <2>5. /\ Evs(Tail(outbox)) \subseteq Evs(outbox)
        /\ \A m \in Evs(outbox) : m = Head(outbox) \/ m \in Evs(Tail(outbox))
    BY <1>0, <2>2, EvsTail
  <2>6. Orderly(Way, outbox') /\ Evs(outbox') = Evs(Tail(outbox)) \cup {e}
    <3>1. \A m \in Evs(Way) \cup Evs(Tail(outbox)) : Precedes(m, e)
      BY <2>5 DEF Under
    <3>2. PICK rest \in Seq(Message) : rest = Tail(outbox)
      BY <2>2
    <3>3. Orderly(Way, rest) /\ \A m \in Evs(Way) \cup Evs(rest) : Precedes(m, e)
      BY <2>4, <3>1, <3>2
    <3>4. Orderly(Way, Append(rest, e)) /\ Evs(Append(rest, e)) = Evs(rest) \cup {e}
      BY <1>0, <3>3, OrderlyAdd
    <3> QED
      BY <2>1, <3>2, <3>4
  <2>7. \A m \in Evs(outbox) : m.p \in lost' \/ m \in Evs(outbox')
    BY <2>1, <2>5, <2>6
  <2>8. lost \subseteq lost' /\ e \in Evs(outbox') /\ Evs(outbox') \subseteq Evs(outbox) \cup {e}
    BY <2>1, <2>5, <2>6
  <2> HIDE <2>1
  <2> QED
    BY <2>3, <2>6, <2>7, <2>8 DEF InOrder, Under
<1>3. CASE ~wsOpen /\ ~(Len(outbox) >= OutboxLimit)
  <2>1. outbox' = Append(outbox, e) /\ lost' = lost /\ up' = up
    BY <1>3 DEF Emit
  <2>2. Way' = Way
    BY <2>1 DEF Way
  <2>3. Orderly(Way, outbox') /\ Evs(outbox') = Evs(outbox) \cup {e}
    BY <1>0, <2>1, OrderlyAdd DEF Under, InOrder
  <2> QED
    BY <2>1, <2>2, <2>3 DEF InOrder, Under
<1> QED
  BY <1>1, <1>2, <1>3

\* An answer changes nothing for the events.
LEMMA RespondCarries ==
  ASSUME TypeOK, InOrder, NEW c, NEW id \in Nat, NEW ok \in BOOLEAN, Respond(c, id, ok),
         accepted' = accepted, outbox' = outbox
  PROVE  InOrder' /\ Under' = Under
<1> DEFINE m == [kind |-> "response", id |-> id, ok |-> ok]
<1>1. Way \in Seq(Message) /\ outbox \in Seq(Message)
  BY WayType
<1>2. m \in Message /\ m.kind = "response"
  BY DEF Message, Response
<1>3. Way' = Way \/ Way' = Append(Way, m)
  <2>1. CASE accepted = 0
    BY <2>1 DEF Way
  <2>2. CASE accepted # 0
    <3>1. accepted \in Conns
      BY <2>2, Bounds DEF TypeOK, Conns
    <3>2. up \in [Conns -> Seq(Message)]
      BY DEF TypeOK, Message
    <3> QED
      BY <2>2, <3>1, <3>2 DEF Way, Respond
  <2> QED
    BY <2>1, <2>2
<1> HIDE DEF m
<1>4. CASE Way' = Way
  BY <1>4 DEF InOrder, Under
<1>5. CASE Way' = Append(Way, m)
  <2>1. <<m>> \in Seq(Message) /\ Evs(<<m>>) = {} /\ Ordered(<<m>>)
    BY <1>2 DEF Evs, Ordered
  <2>2. Append(Way, m) = Way \o <<m>>
    BY <1>1, <1>2, AppendIsConcat
  <2>3. Orderly(Way, <<m>>)
    BY <2>1 DEF InOrder, Orderly
  <2>4. Ordered(Way') /\ Evs(Way') = Evs(Way)
    <3>1. Ordered(Way \o <<m>>) /\ Evs(Way \o <<m>>) = Evs(Way) \cup Evs(<<m>>)
      BY <1>1, <2>1, <2>3, OrderedConcat, EvsConcat
    <3>2. Way' = Way \o <<m>>
      BY <1>5, <2>2
    <3> HIDE <1>5
    <3> QED
      BY <2>1, <3>1, <3>2
  <2> QED
    BY <2>4 DEF InOrder, Orderly, Under
<1> QED
  BY <1>3, <1>4, <1>5

\* Rejected calls end streams, and begin none.
LEMMA FailStreams ==
  ASSUME TypeOK, NEW X, Fail(X)
  PROVE  \A p \in Procs :
           /\ stream'[p] = "none" <=> stream[p] = "none" /\ <<"spawn", p>> \notin X
           /\ outcome'[<<"spawn", p>>] = "none" <=>
                outcome[<<"spawn", p>>] = "none" /\ <<"spawn", p>> \notin X
           /\ stream'[p] \in {"none", "open"} => stream[p] \in {"none", "open"}
           /\ stream'[p] = "exited" => stream[p] = "exited"
           /\ stream[p] \in {"exited", "aborted"} => stream'[p] = stream[p]
<1>1. \A p \in Procs : <<"spawn", p>> \in Calls
  BY DEF Calls
<1> QED
  BY <1>1 DEF TypeOK, Fail

IInv == TypeOK /\ Link /\ CurrentIsNewest /\ Served /\ SpawnedOnce /\ Streams

\* Before its spawn is asked for a process does not run.
LEMMA NotAsked ==
  ASSUME TypeOK, Served, SpawnedOnce, NEW p \in Procs, stream[p] = "none"
  PROVE  process[p] = "none" /\ printed[p] = 0
<1>1. <<"spawn", p>> \in Calls /\ outcome[<<"spawn", p>>] = "none"
  BY DEF Calls, SpawnedOnce
<1> QED
  BY <1>1 DEF SpawnedOnce, Served, ExecutedWhenMade

-----------------------------------------------------------------------------
(* A process is spawned once *)

LEMMA HandleRequestSpawns ==
  ASSUME IInv, HandleRequest
  PROVE  /\ SpawnedOnce'
         /\ \A p \in Procs : process[p] = "gone" => process'[p] = "gone"
         /\ InOrder' /\ Under' = Under
<1> DEFINE r == Head(down[ws])
<1>1. /\ ws \in Conns /\ down[ws] # <<>> /\ down' = [down EXCEPT ![ws] = Tail(@)]
      /\ UNCHANGED <<stream, outcome, printed, accepted, outbox>>
  BY DEF IInv, TypeOK, Link, HandleRequest, Conns, serverVars
<1>2. r \in Request /\ (r.call \in Calls => Unserved(r.call))
  BY <1>1, TakenRequest DEF IInv
<1>3. /\ process \in [Procs -> {"none", "running", "killed", "gone"}]
      /\ executed \in [Calls -> Nat]
      /\ \A p \in Procs : <<"spawn", p>> \in Calls
      /\ r.id \in Nat
  BY <1>2, RequestFields DEF IInv, TypeOK, Calls
<1> HIDE DEF r
<1>4. CASE r.call[1] = "op"
  <2>1. UNCHANGED <<process, executed, up>>
    BY <1>4 DEF HandleRequest, r
  <2> QED
    BY <1>1, <2>1 DEF IInv, SpawnedOnce, Streams, InOrder, Under, Way
<1>5. CASE r.call[1] = "spawn"
  <2> DEFINE q == r.call[2]
  <2>1. \/ /\ process' = [process EXCEPT ![q] = "running"]
           /\ executed' = [executed EXCEPT ![r.call] = @ + 1]
           /\ Respond(ws, r.id, TRUE)
        \/ Respond(ws, r.id, FALSE) /\ UNCHANGED <<process, executed>>
    BY <1>5 DEF HandleRequest, r
  <2>2. q \in Procs /\ r.call = <<"spawn", q>> /\ executed[r.call] = 0
    BY <1>2, <1>5 DEF Request, Calls, Notices, Unserved
  <2> HIDE DEF q
  <2>3. process[q] = "none" /\ printed[q] = 0
    BY <2>2 DEF IInv, SpawnedOnce
  <2>4. InOrder' /\ Under' = Under
    BY <1>1, <1>3, <2>1, RespondCarries DEF IInv, Streams
  <2>5. CASE UNCHANGED <<process, executed>>
    BY <1>1, <2>4, <2>5 DEF IInv, SpawnedOnce
  <2>6. CASE /\ process' = [process EXCEPT ![q] = "running"]
             /\ executed' = [executed EXCEPT ![r.call] = @ + 1]
    <3>1. \A p \in Procs : p # q => <<"spawn", p>> # r.call
      BY <2>2
    <3>2. executed'[<<"spawn", q>>] = 1
          /\ \A p \in Procs : p # q => executed'[<<"spawn", p>>] = executed[<<"spawn", p>>]
      BY <1>3, <2>2, <2>6, <3>1
    <3>3. SpawnedOnce'
      BY <1>1, <1>3, <2>3, <2>6, <3>2 DEF IInv, SpawnedOnce
    <3> QED
      BY <1>3, <2>3, <2>4, <2>6, <3>3
  <2> QED
    BY <2>1, <2>5, <2>6
<1>6. CASE r.call[1] = "kill"
  <2>1. /\ process' = IF process[r.call[2]] = "running"
                      THEN [process EXCEPT ![r.call[2]] = "killed"] ELSE process
        /\ UNCHANGED <<executed, up>>
    BY <1>6 DEF HandleRequest, r
  <2>2. \A p \in Procs : /\ process'[p] = "none" <=> process[p] = "none"
                         /\ process[p] = "gone" => process'[p] = "gone"
    BY <1>3, <2>1
  <2> QED
    BY <1>1, <2>1, <2>2 DEF IInv, SpawnedOnce, Streams, InOrder, Under, Way
<1> QED
  BY <1>4, <1>5, <1>6 DEF HandleRequest, r

LEMMA OperatedSpawns ==
  ASSUME IInv, Operated
  PROVE  SpawnedOnce' /\ InOrder' /\ Under' = Under
<1> PICK w \in working, ok \in BOOLEAN :
      /\ executed' = IF ok THEN [executed EXCEPT ![w.call] = @ + 1] ELSE executed
      /\ IF MayAnswer(w) THEN Respond(ws, w.id, ok) ELSE UNCHANGED up
  BY DEF Operated
<1>1. UNCHANGED <<stream, outcome, process, printed, accepted, outbox>>
  BY DEF Operated, serverVars
<1>2. w.id \in Nat /\ w.call \in Calls /\ executed[w.call] = 0 /\ executed \in [Calls -> Nat]
  BY DEF IInv, TypeOK, Served, WorkingNamed, Unserved
<1>3. \A p \in Procs : executed[<<"spawn", p>>] = 1 => executed'[<<"spawn", p>>] = 1
  <2>1. \A p \in Procs : <<"spawn", p>> \in Calls
    BY DEF Calls
  <2>2. CASE ok = TRUE
    BY <1>2, <2>1, <2>2
  <2>3. CASE ok = FALSE
    BY <2>3
  <2> QED
    BY <2>2, <2>3
<1>4. SpawnedOnce'
  BY <1>1, <1>3 DEF IInv, SpawnedOnce
<1>5. InOrder' /\ Under' = Under
  <2>1. CASE MayAnswer(w)
    BY <1>1, <1>2, <2>1, RespondCarries DEF IInv, Streams
  <2>2. CASE ~MayAnswer(w)
    <3>1. up' = up
      BY <2>2
    <3> QED
      BY <1>1, <3>1 DEF IInv, Streams, InOrder, Under, Way
  <2> QED
    BY <2>1, <2>2
<1> QED
  BY <1>4, <1>5

LEMMA CallSpawns ==
  ASSUME IInv, NEW x \in Calls, Call(x)
  PROVE  /\ SpawnedOnce'
         /\ \A p \in Procs :
              /\ stream'[p] \in {"none", "open"} => stream[p] \in {"none", "open"}
              /\ stream'[p] = "exited" => stream[p] = "exited"
              /\ stream[p] \in {"exited", "aborted"} => stream'[p] = stream[p]
<1>1. UNCHANGED <<process, executed, printed>>
  BY DEF Call, summonerVars, historyVars
<1>2. CASE current = 0
  <2>1. Fail({x})
    BY <1>2 DEF Call
  <2>2. \A p \in Procs :
           /\ stream'[p] = "none" <=> stream[p] = "none" /\ <<"spawn", p>> \notin {x}
           /\ outcome'[<<"spawn", p>>] = "none" <=>
                outcome[<<"spawn", p>>] = "none" /\ <<"spawn", p>> \notin {x}
           /\ stream'[p] \in {"none", "open"} => stream[p] \in {"none", "open"}
           /\ stream'[p] = "exited" => stream[p] = "exited"
           /\ stream[p] \in {"exited", "aborted"} => stream'[p] = stream[p]
    BY <2>1, FailStreams DEF IInv
  <2> QED
    BY <1>1, <2>2 DEF IInv, SpawnedOnce
<1>3. CASE current # 0
  <2>1. /\ outcome[x] = "none"
        /\ outcome' = [outcome EXCEPT ![x] = "pending"]
        /\ stream' = [p \in Procs |-> IF x = <<"spawn", p>> THEN "open" ELSE stream[p]]
    BY <1>3 DEF Call
  <2>2. \A p \in Procs : <<"spawn", p>> \in Calls
    BY DEF Calls
  <2>3. \A p \in Procs : x = <<"spawn", p>> => stream[p] = "none"
    BY <2>1 DEF IInv, SpawnedOnce
  <2>4. \A p \in Procs : outcome'[<<"spawn", p>>] =
          IF x = <<"spawn", p>> THEN "pending" ELSE outcome[<<"spawn", p>>]
    BY <2>1, <2>2 DEF IInv, TypeOK
  <2> QED
    BY <1>1, <2>1, <2>3, <2>4 DEF IInv, SpawnedOnce
<1> QED
  BY <1>2, <1>3

LEMMA ReceiveResponseSpawns ==
  ASSUME IInv, NEW c \in Conns, Receive(c), ReceiveResponse(c)
  PROVE  /\ SpawnedOnce'
         /\ \A p \in Procs :
              /\ stream'[p] \in {"none", "open"} => stream[p] \in {"none", "open"}
              /\ stream'[p] = "exited" => stream[p] = "exited"
              /\ stream[p] \in {"exited", "aborted"} => stream'[p] = stream[p]
<1> DEFINE m == Head(up[c])
           X == {x \in pending[c] : x[1] = m.id}
<1>1. UNCHANGED <<process, executed, printed>>
  BY DEF Receive, summonerVars
<1>2. CASE m.ok
  <2>1. stream' = stream /\ m.kind = "response"
        /\ outcome' = [x \in Calls |-> IF <<m.id, x>> \in X THEN "ok" ELSE outcome[x]]
    BY <1>2 DEF ReceiveResponse
  <2>2. 1 \in DOMAIN up[c] /\ m = up[c][1]
    <3>1. up[c] \in Seq(Message) /\ up[c] # <<>>
      BY DEF IInv, TypeOK, Receive, Message
    <3> QED
      BY <3>1, HeadTailProperties, LenProperties, EmptySeq
  <2>3. m.ok => \A x \in Calls : <<m.id, x>> \in pending[c] => executed[x] = 1
    BY <2>1, <2>2, Zenon DEF IInv, Served, AnswersEarned
  <2>4. \A x \in Calls : <<m.id, x>> \in pending[c] => outcome[x] # "none"
    <3>1. \A x \in Calls : <<m.id, x>> \in pending[c] => executed[x] = 1
      BY <1>2, <2>3, Zenon
    <3> QED
      BY <3>1 DEF IInv, Served, ExecutedWhenMade
  <2>5. \A p \in Procs : <<"spawn", p>> \in Calls
    BY DEF Calls
  <2>6. \A x \in Calls : outcome'[x] = "none" <=> outcome[x] = "none"
    BY <2>1, <2>4
  <2> QED
    BY <1>1, <2>1, <2>5, <2>6 DEF IInv, SpawnedOnce
<1>3. CASE ~m.ok
  <2>1. Fail({x[2] : x \in X})
    BY <1>3 DEF ReceiveResponse
  <2>2. \A p \in Procs :
           /\ stream'[p] = "none" <=> stream[p] = "none" /\ <<"spawn", p>> \notin {x[2] : x \in X}
           /\ outcome'[<<"spawn", p>>] = "none" <=>
                outcome[<<"spawn", p>>] = "none" /\ <<"spawn", p>> \notin {x[2] : x \in X}
           /\ stream'[p] \in {"none", "open"} => stream[p] \in {"none", "open"}
           /\ stream'[p] = "exited" => stream[p] = "exited"
           /\ stream[p] \in {"exited", "aborted"} => stream'[p] = stream[p]
    BY <2>1, FailStreams DEF IInv
  <2> QED
    BY <1>1, <2>2 DEF IInv, SpawnedOnce
<1> QED
  BY <1>2, <1>3

\* Calls that fail because of a close or of the time they took.
LEMMA FailingSpawns ==
  ASSUME IInv, NEW X, Fail(X), UNCHANGED <<process, executed, printed>>
  PROVE  /\ SpawnedOnce'
         /\ \A p \in Procs :
              /\ stream'[p] \in {"none", "open"} => stream[p] \in {"none", "open"}
              /\ stream'[p] = "exited" => stream[p] = "exited"
              /\ stream[p] \in {"exited", "aborted"} => stream'[p] = stream[p]
<1>1. \A p \in Procs :
         /\ stream'[p] = "none" <=> stream[p] = "none" /\ <<"spawn", p>> \notin X
         /\ outcome'[<<"spawn", p>>] = "none" <=>
              outcome[<<"spawn", p>>] = "none" /\ <<"spawn", p>> \notin X
         /\ stream'[p] \in {"none", "open"} => stream[p] \in {"none", "open"}
         /\ stream'[p] = "exited" => stream[p] = "exited"
         /\ stream[p] \in {"exited", "aborted"} => stream'[p] = stream[p]
  BY FailStreams DEF IInv
<1> QED
  BY <1>1 DEF IInv, SpawnedOnce

\* Kill ends a stream that is open, so that its spawn was asked for.
LEMMA KillSpawns ==
  ASSUME IInv, NEW q \in Procs, Kill(q)
  PROVE  /\ SpawnedOnce'
         /\ \A p \in Procs :
              /\ stream'[p] \in {"none", "open"} => stream[p] \in {"none", "open"}
              /\ stream'[p] = "exited" => stream[p] = "exited"
              /\ stream[p] \in {"exited", "aborted"} => stream'[p] = stream[p]
<1>1. UNCHANGED <<process, executed, printed, outcome>>
  BY DEF Kill, summonerVars, historyVars
<1>2. stream[q] = "open" /\ stream' = [stream EXCEPT ![q] = "aborted"]
  BY DEF Kill
<1> QED
  BY <1>1, <1>2 DEF IInv, TypeOK, SpawnedOnce

\* Printing, exits and crashes are of processes that were spawned.
LEMMA ProcessSpawns ==
  ASSUME IInv, Restart \/ \E q \in Procs : PrintLine(q) \/ Exit(q)
  PROVE  /\ SpawnedOnce'
         /\ \A p \in Procs : process[p] = "gone" => process'[p] = "gone"
         /\ stream' = stream
<1>1. CASE Restart
  BY <1>1 DEF IInv, TypeOK, SpawnedOnce, Restart, serverVars
<1>2. ASSUME NEW q \in Procs, PrintLine(q)
      PROVE  /\ SpawnedOnce'
             /\ \A p \in Procs : process[p] = "gone" => process'[p] = "gone"
             /\ stream' = stream
  BY <1>2 DEF IInv, TypeOK, SpawnedOnce, PrintLine, serverVars
<1>3. ASSUME NEW q \in Procs, Exit(q)
      PROVE  /\ SpawnedOnce'
             /\ \A p \in Procs : process[p] = "gone" => process'[p] = "gone"
             /\ stream' = stream
  BY <1>3 DEF IInv, TypeOK, SpawnedOnce, Exit, serverVars
<1> QED
  BY <1>1, <1>2, <1>3

\* What was printed before the spawn is nothing, so nobody can have missed it.
LEMMA UnheardEnded ==
  ASSUME IInv, NEW m \in Under, stream[m.p] # "open"
  PROVE  stream[m.p] \in {"exited", "aborted"}
<1>1. m \in Event
  BY WayType DEF IInv
<1>2. m.p \in Procs /\ (m.kind = "line" => m.n \in 1..MaxLines) /\ m.kind \in {"line", "exit"}
  BY <1>1, EventFields
<1>3. stream[m.p] = "none" => FALSE
  <2> SUFFICES ASSUME stream[m.p] = "none" PROVE FALSE
    OBVIOUS
  <2>1. process[m.p] = "none" /\ printed[m.p] = 0
    BY <1>2, NotAsked DEF IInv
  <2>2. UnderWay
    BY DEF IInv, Streams
  <2>3. (m.kind = "line" => m.n <= printed[m.p]) /\ (m.kind = "exit" => process[m.p] = "gone")
    BY <2>2 DEF UnderWay
  <2> QED
    BY <1>2, <2>1, <2>3
<1> QED
  BY <1>2, <1>3 DEF IInv, TypeOK

-----------------------------------------------------------------------------
(* Calls and connections leave the order of the events alone *)

LEMMA SameWay ==
  ASSUME IInv, UNCHANGED <<accepted, up, outbox>>
  PROVE  InOrder' /\ Under' = Under
BY DEF IInv, Streams, InOrder, Under, Way

LEMMA CallStreams ==
  ASSUME IInv, TypeOK', NEW x \in Calls, Call(x)
  PROVE  SpawnedOnce' /\ Streams'
<1>1. UNCHANGED <<accepted, up, outbox, lost, printed, yielded, process>>
  BY DEF Call, summonerVars, historyVars
<1>2. InOrder' /\ Under' = Under
  BY <1>1, SameWay
<1>3. /\ SpawnedOnce'
      /\ \A p \in Procs : /\ stream'[p] \in {"none", "open"} => stream[p] \in {"none", "open"}
                          /\ stream'[p] = "exited" => stream[p] = "exited"
  BY CallSpawns
<1> QED
  BY <1>1, <1>2, <1>3, CarriedStreams DEF IInv

LEMMA KillStreams ==
  ASSUME IInv, TypeOK', NEW q \in Procs, Kill(q)
  PROVE  SpawnedOnce' /\ Streams'
<1>1. UNCHANGED <<accepted, up, outbox, lost, printed, yielded, process>>
  BY DEF Kill, summonerVars, historyVars
<1>2. InOrder' /\ Under' = Under
  BY <1>1, SameWay
<1>3. /\ SpawnedOnce'
      /\ \A p \in Procs : /\ stream'[p] \in {"none", "open"} => stream[p] \in {"none", "open"}
                          /\ stream'[p] = "exited" => stream[p] = "exited"
  BY KillSpawns
<1> QED
  BY <1>1, <1>2, <1>3, CarriedStreams DEF IInv

LEMMA CallTimeoutStreams ==
  ASSUME IInv, TypeOK', NEW c \in Conns, CallTimeout(c)
  PROVE  SpawnedOnce' /\ Streams'
<1>1. UNCHANGED <<accepted, up, outbox, lost, printed, yielded, process, executed>>
  BY DEF CallTimeout, summonerVars, historyVars
<1>2. InOrder' /\ Under' = Under
  BY <1>1, SameWay
<1>3. PICK X : Fail(X)
  BY DEF CallTimeout
<1>4. /\ SpawnedOnce'
      /\ \A p \in Procs : /\ stream'[p] \in {"none", "open"} => stream[p] \in {"none", "open"}
                          /\ stream'[p] = "exited" => stream[p] = "exited"
  BY <1>1, <1>3, FailingSpawns
<1> QED
  BY <1>1, <1>2, <1>4, CarriedStreams DEF IInv

LEMMA HandleRequestStreams ==
  ASSUME IInv, TypeOK', HandleRequest
  PROVE  SpawnedOnce' /\ Streams'
<1>1. UNCHANGED <<lost, printed, yielded, stream>>
  BY DEF HandleRequest, serverVars
<1>2. /\ SpawnedOnce' /\ InOrder' /\ Under' = Under
      /\ \A p \in Procs : process[p] = "gone" => process'[p] = "gone"
  BY HandleRequestSpawns
<1> QED
  BY <1>1, <1>2, CarriedStreams DEF IInv

LEMMA OperatedStreams ==
  ASSUME IInv, TypeOK', Operated
  PROVE  SpawnedOnce' /\ Streams'
<1>1. UNCHANGED <<lost, printed, yielded, stream, process>>
  BY DEF Operated, serverVars
<1>2. SpawnedOnce' /\ InOrder' /\ Under' = Under
  BY OperatedSpawns
<1> QED
  BY <1>1, <1>2, CarriedStreams DEF IInv

LEMMA ClientCloseStreams ==
  ASSUME IInv, TypeOK', ClientClose
  PROVE  SpawnedOnce' /\ Streams'
<1>1. /\ UNCHANGED <<accepted, up, outbox, lost, printed, yielded, process>>
      /\ UNCHANGED <<stream, outcome, executed>>
  BY DEF ClientClose, serverVars, historyVars
<1>2. InOrder' /\ Under' = Under
  BY <1>1, SameWay
<1>3. SpawnedOnce'
  BY <1>1 DEF IInv, SpawnedOnce
<1> QED
  BY <1>1, <1>2, <1>3, CarriedStreams DEF IInv

\* Nobody will read the connection that is replaced.
LEMMA AcceptStreams ==
  ASSUME IInv, TypeOK', Accept
  PROVE  SpawnedOnce' /\ Streams'
<1>1. /\ UNCHANGED <<up, outbox, printed, yielded, process, stream, outcome, executed>>
      /\ accepted' = accepted + 1 /\ accepted < MaxConns
      /\ lost' = lost \cup UNION {EventsOf(up[c]) : c \in Conns}
  BY DEF Accept
<1>2. accepted \in Nat /\ srvOpen \subseteq 1..accepted
  BY Bounds DEF IInv, TypeOK
<1>3. up[accepted + 1] = <<>>
  BY <1>1, <1>2, Bounds DEF IInv, Link, Conns
<1>4. Way' = <<>>
  BY <1>1, <1>2, <1>3 DEF Way
<1>5. Under' = Evs(outbox)
  BY <1>1, <1>4, EvsEmpty DEF Under
<1>6. \A m \in Evs(Way) : m.p \in lost'
  <2>1. CASE accepted = 0
    BY <2>1, EvsEmpty DEF Way
  <2>2. CASE accepted # 0
    <3>1. accepted \in Conns /\ Way = up[accepted] /\ Way \in Seq(Message)
      BY <1>1, <1>2, <2>2, WayType, Bounds DEF Conns, Way, IInv
    <3>2. EventsOf(up[accepted]) \subseteq lost'
      BY <1>1, <3>1
    <3> QED
      BY <3>1, <3>2, EvsOfQueue
  <2> QED
    BY <2>1, <2>2
<1>7. InOrder'
  BY <1>1, <1>4, EvsEmpty DEF IInv, Streams, InOrder, Orderly
<1>8. SpawnedOnce'
  BY <1>1 DEF IInv, SpawnedOnce
<1>9. lost \subseteq lost'
  BY <1>1
<1>10. Under' \subseteq Under /\ \A m \in Under : m.p \in lost' \/ m \in Under'
  BY <1>5, <1>6 DEF Under
<1> QED
  BY <1>1, <1>7, <1>8, <1>9, <1>10, CarriedStreams DEF IInv

\* The outbox is sent behind what is on the connection.
LEMMA HandleOpenStreams ==
  ASSUME IInv, TypeOK', HandleOpen
  PROVE  SpawnedOnce' /\ Streams'
<1>1. /\ UNCHANGED <<accepted, printed, yielded, process, stream, outcome, executed>>
      /\ ws # 0 /\ outbox' = <<>> /\ Deliver(outbox)
  BY DEF HandleOpen, serverVars
<1>2. outbox \in Seq(Event) /\ Orderly(Way, outbox)
  BY WayType DEF IInv, Streams, InOrder
<1>3. /\ Orderly(Way', <<>>)
      /\ Evs(Way') \subseteq Evs(Way) \cup Evs(outbox)
      /\ \A m \in Evs(Way) \cup Evs(outbox) : m.p \in lost' \/ m \in Evs(Way')
      /\ lost \subseteq lost'
  BY <1>1, <1>2, DeliverCarries DEF IInv
<1>4. InOrder' /\ Under' = Evs(Way')
  BY <1>1, <1>3, EvsEmpty DEF InOrder, Under
<1>5. SpawnedOnce'
  BY <1>1 DEF IInv, SpawnedOnce
<1>6. Under' \subseteq Under /\ \A m \in Under : m.p \in lost' \/ m \in Under'
  BY <1>3, <1>4 DEF Under
<1> QED
  BY <1>1, <1>3, <1>4, <1>5, <1>6, CarriedStreams DEF IInv

\* What was on a connection the server closes is dropped.
LEMMA ServerCloseStreams ==
  ASSUME IInv, TypeOK', NEW c \in Conns, ServerClose(c)
  PROVE  SpawnedOnce' /\ Streams'
<1>1. /\ UNCHANGED <<accepted, outbox, printed, yielded, process, executed>>
      /\ up' = [up EXCEPT ![c] = <<>>]
      /\ lost' = lost \cup EventsOf(up[c])
  BY DEF ServerClose, summonerVars
<1>2. PICK X : Fail(X)
  BY DEF ServerClose
<1>3. /\ SpawnedOnce'
      /\ \A p \in Procs : /\ stream'[p] \in {"none", "open"} => stream[p] \in {"none", "open"}
                          /\ stream'[p] = "exited" => stream[p] = "exited"
  BY <1>1, <1>2, FailingSpawns
<1>4. /\ InOrder' /\ Under' \subseteq Under
      /\ \A m \in Under : m.p \in lost' \/ m \in Under'
  <2>1. Way \in Seq(Message) /\ DOMAIN up = Conns /\ InOrder
    BY WayType DEF IInv, TypeOK, Streams
  <2>2. CASE c = accepted
    <3>1. Way = up[c] /\ Way' = <<>>
      BY <1>1, <2>1, <2>2, Bounds DEF Way, Conns
    <3>2. \A m \in Evs(Way) : m.p \in lost'
      BY <1>1, <2>1, <3>1, EvsOfQueue
    <3> QED
      BY <1>1, <2>1, <3>1, <3>2, EvsEmpty DEF Under, InOrder, Orderly
  <2>3. CASE c # accepted
    <3>1. Way' = Way
      BY <1>1, <2>1, <2>3 DEF Way
    <3> QED
      BY <1>1, <2>1, <3>1 DEF Under, InOrder
  <2> QED
    BY <2>2, <2>3
<1>5. lost \subseteq lost'
  BY <1>1
<1> QED
  BY <1>1, <1>3, <1>4, <1>5, CarriedStreams DEF IInv

LEMMA RestartStreams ==
  ASSUME IInv, TypeOK', Restart
  PROVE  SpawnedOnce' /\ Streams'
<1>1. /\ UNCHANGED <<accepted, up, printed, yielded>>
      /\ outbox' = <<>> /\ EventsOf(outbox) \subseteq lost' /\ lost \subseteq lost'
  BY DEF Restart
<1>2. /\ SpawnedOnce' /\ stream' = stream
      /\ \A p \in Procs : process[p] = "gone" => process'[p] = "gone"
  BY ProcessSpawns
<1>3. Way' = Way
  BY <1>1 DEF Way
<1>4. InOrder'
  BY <1>1, <1>3, EvsEmpty DEF IInv, Streams, InOrder, Orderly
<1>5. Under' = Evs(Way)
  BY <1>1, <1>3, EvsEmpty DEF Under
<1>6. \A m \in Evs(outbox) : m.p \in lost'
  BY <1>1, WayType, EvsOfQueue DEF IInv
<1>7. Under' \subseteq Under /\ \A m \in Under : m.p \in lost' \/ m \in Under'
  BY <1>5, <1>6 DEF Under
<1> QED
  BY <1>1, <1>2, <1>4, <1>7, CarriedStreams DEF IInv

-----------------------------------------------------------------------------
(* What a process emits *)

\* A new line, or the exit, comes after all that is under way.
LEMMA NewestEvent ==
  ASSUME IInv, NEW p \in Procs, NEW e \in Event, e.p = p, process[p] \in {"running", "killed"},
         e.kind = "line" => e.n = printed[p] + 1
  PROVE  \A m \in Under : Precedes(m, e)
<1> SUFFICES ASSUME NEW m \in Under, m.p = p
             PROVE  Rank(m) < Rank(e)
  BY DEF Precedes
<1>1. UnderWay
  BY DEF IInv, Streams
<1>2. (m.kind = "line" => m.n <= printed[p]) /\ m.kind # "exit"
  BY <1>1 DEF UnderWay
<1>3. m \in Event
  BY WayType DEF IInv
<1>4. m.kind = "line" /\ m.n \in 1..MaxLines /\ m.n <= printed[p]
  BY <1>2, <1>3, EventFields
<1>5. printed[p] \in Nat /\ MaxLines \in Nat
  BY Bounds DEF IInv, TypeOK
<1> QED
  BY <1>4, <1>5 DEF Rank

LEMMA PrintLineStreams ==
  ASSUME IInv, TypeOK', NEW p \in Procs, PrintLine(p)
  PROVE  SpawnedOnce' /\ Streams'
<1> DEFINE e == [kind |-> "line", p |-> p, n |-> printed'[p]]
<1>1. /\ UNCHANGED <<accepted, yielded, process, stream>>
      /\ process[p] = "running" /\ printed' = [printed EXCEPT ![p] = @ + 1] /\ Emit(e)
  BY DEF PrintLine, serverVars
<1>2. printed \in [Procs -> 0..MaxLines] /\ printed' \in [Procs -> 0..MaxLines] /\ MaxLines \in Nat
  BY Bounds DEF IInv, TypeOK
<1>3. printed'[p] = printed[p] + 1 /\ \A q \in Procs : q # p => printed'[q] = printed[q]
  BY <1>1, <1>2
<1>4. e \in Event /\ e.p = p /\ e.kind = "line" /\ e.n = printed[p] + 1
  BY <1>2, <1>3 DEF Event
<1> HIDE DEF e
<1>5. \A m \in Under : Precedes(m, e)
  BY <1>1, <1>4, NewestEvent
<1>6. /\ InOrder'
      /\ Under' \subseteq Under \cup {e}
      /\ \A m \in Under \cup {e} : m.p \in lost' \/ m \in Under'
      /\ lost \subseteq lost'
  BY <1>1, <1>4, <1>5, EmitCarries DEF IInv, Streams
<1>7. /\ UnderWay /\ YieldedPrinted /\ NothingMissing /\ ExitedIsGone /\ NoSilentLoss
      /\ Under \subseteq Event
  BY WayType DEF IInv, Streams
<1>8. \A q \in Procs : /\ printed[q] \in Nat /\ printed'[q] \in Nat /\ printed[q] <= printed'[q]
                       /\ \A k \in DOMAIN yielded[q] : yielded[q][k] \in Nat
  <2>1. \A q \in Procs : printed[q] \in Nat /\ printed'[q] \in Nat /\ printed[q] <= printed'[q]
    BY <1>2, <1>3
  <2>2. \A q \in Procs : \A k \in DOMAIN yielded[q] : yielded[q][k] \in 1..MaxLines
    <3>1. \A q \in Procs : yielded[q] \in Seq(1..MaxLines)
      BY DEF IInv, TypeOK
    <3>2. ASSUME NEW q \in Procs, NEW k \in DOMAIN yielded[q]
          PROVE  yielded[q][k] \in 1..MaxLines
      <4>1. yielded[q] \in Seq(1..MaxLines) /\ k \in 1..Len(yielded[q])
        BY <3>1, LenProperties
      <4> QED
        BY <4>1, ElementOfSeq
    <3> QED
      BY <3>2
  <2> QED
    BY <1>2, <2>1, <2>2
<1>9. UnderWay'
  <2>1. ASSUME NEW m \in Under
        PROVE  /\ m.kind = "line" => /\ m.n <= printed'[m.p]
                                     /\ \A k \in DOMAIN yielded[m.p] : yielded[m.p][k] < m.n
               /\ m.kind = "exit" => process[m.p] = "gone"
    <3>1. m.p \in Procs /\ (m.kind = "line" => m.n \in 1..MaxLines)
      BY <1>7, EventFields
    <3>2. /\ m.kind = "line" => /\ m.n <= printed[m.p]
                                /\ \A k \in DOMAIN yielded[m.p] : yielded[m.p][k] < m.n
          /\ m.kind = "exit" => process[m.p] = "gone"
      BY <1>7 DEF UnderWay
    <3> QED
      BY <1>8, <3>1, <3>2
  <2>2. /\ e.n <= printed'[p]
        /\ \A k \in DOMAIN yielded[p] : yielded[p][k] < e.n
    <3>1. \A k \in DOMAIN yielded[p] : yielded[p][k] <= printed[p]
      BY <1>7 DEF YieldedPrinted
    <3> QED
      BY <1>3, <1>4, <1>8, <3>1
  <2> QED
    BY <1>1, <1>4, <1>6, <2>1, <2>2 DEF UnderWay
<1>10. YieldedPrinted'
  <2> SUFFICES ASSUME NEW q \in Procs, NEW k \in DOMAIN yielded[q]
               PROVE  yielded[q][k] <= printed'[q]
    BY <1>1 DEF YieldedPrinted
  <2>1. yielded[q][k] <= printed[q]
    BY <1>7 DEF YieldedPrinted
  <2> QED
    BY <1>8, <2>1
<1>11. NothingMissing'
  <2> SUFFICES ASSUME NEW q \in Procs, q \notin lost', stream[q] \in {"none", "open"}
               PROVE  /\ \A k \in DOMAIN yielded[q] : yielded[q][k] = k
                      /\ \A n \in 1..printed'[q] :
                           \/ n <= Len(yielded[q])
                           \/ \E m \in Under' : m.kind = "line" /\ m.p = q /\ m.n = n
    BY <1>1 DEF NothingMissing
  <2>1. /\ \A k \in DOMAIN yielded[q] : yielded[q][k] = k
        /\ \A n \in 1..printed[q] :
             n <= Len(yielded[q]) \/ \E m \in Under : m.kind = "line" /\ m.p = q /\ m.n = n
    BY <1>6, <1>7 DEF NothingMissing
  <2>2. \A m \in Under \cup {e} : m.p = q => m \in Under'
    BY <1>6
  <2>3. ASSUME NEW n \in 1..printed'[q], ~(n <= Len(yielded[q]))
        PROVE  \E m \in Under' : m.kind = "line" /\ m.p = q /\ m.n = n
    <3>1. CASE n \in 1..printed[q]
      BY <2>1, <2>2, <2>3, <3>1
    <3>2. CASE n \notin 1..printed[q]
      <4>1. q = p /\ n = printed[p] + 1
        BY <1>3, <1>8, <2>3, <3>2
      <4> QED
        BY <1>4, <2>2, <4>1
    <3> QED
      BY <3>1, <3>2
  <2> QED
    BY <2>1, <2>3
<1>12. ExitedIsGone'
  BY <1>1, <1>7 DEF ExitedIsGone
<1>13. NoSilentLoss'
  <2> SUFFICES ASSUME NEW q \in Procs, stream[q] = "exited", q \notin lost'
               PROVE  Len(yielded[q]) = printed'[q]
    BY <1>1 DEF NoSilentLoss
  <2>1. q # p
    BY <1>1, <1>7 DEF ExitedIsGone
  <2> QED
    BY <1>3, <1>6, <1>7, <2>1 DEF NoSilentLoss
<1> QED
  BY <1>6, <1>9, <1>10, <1>11, <1>12, <1>13, ProcessSpawns DEF Streams

LEMMA ExitStreams ==
  ASSUME IInv, TypeOK', NEW p \in Procs, Exit(p)
  PROVE  SpawnedOnce' /\ Streams'
<1> DEFINE e == [kind |-> "exit", p |-> p]
<1>1. /\ UNCHANGED <<accepted, yielded, printed, stream>>
      /\ process[p] \in {"running", "killed"} /\ process' = [process EXCEPT ![p] = "gone"]
      /\ Emit(e)
  BY DEF Exit, serverVars
<1>2. /\ process'[p] = "gone"
      /\ \A q \in Procs : process[q] = "gone" => process'[q] = "gone"
  BY <1>1 DEF IInv, TypeOK
<1>3. e \in Event /\ e.p = p /\ e.kind = "exit"
  BY DEF Event
<1> HIDE DEF e
<1>4. \A m \in Under : Precedes(m, e)
  BY <1>1, <1>3, NewestEvent
<1>5. /\ InOrder'
      /\ Under' \subseteq Under \cup {e}
      /\ \A m \in Under \cup {e} : m.p \in lost' \/ m \in Under'
      /\ lost \subseteq lost'
  BY <1>1, <1>3, <1>4, EmitCarries DEF IInv, Streams
<1>6. /\ UnderWay /\ YieldedPrinted /\ NothingMissing /\ ExitedIsGone /\ NoSilentLoss
      /\ \A m \in Under : m.p \in Procs
  BY WayType, EventFields DEF IInv, Streams
<1>7. UnderWay'
  BY <1>1, <1>2, <1>3, <1>5, <1>6 DEF UnderWay
<1>8. YieldedPrinted'
  BY <1>1, <1>6 DEF YieldedPrinted
<1>9. NothingMissing'
  <2> SUFFICES ASSUME NEW q \in Procs, q \notin lost', stream[q] \in {"none", "open"}
               PROVE  /\ \A k \in DOMAIN yielded[q] : yielded[q][k] = k
                      /\ \A n \in 1..printed[q] :
                           \/ n <= Len(yielded[q])
                           \/ \E m \in Under' : m.kind = "line" /\ m.p = q /\ m.n = n
    BY <1>1 DEF NothingMissing
  <2>1. /\ \A k \in DOMAIN yielded[q] : yielded[q][k] = k
        /\ \A n \in 1..printed[q] :
             n <= Len(yielded[q]) \/ \E m \in Under : m.kind = "line" /\ m.p = q /\ m.n = n
    BY <1>5, <1>6 DEF NothingMissing
  <2>2. \A m \in Under : m.p = q => m \in Under'
    BY <1>5
  <2> QED
    BY <2>1, <2>2
<1>10. ExitedIsGone' /\ NoSilentLoss'
  BY <1>1, <1>2, <1>5, <1>6 DEF ExitedIsGone, NoSilentLoss
<1> QED
  BY <1>5, <1>7, <1>8, <1>9, <1>10, ProcessSpawns DEF Streams

-----------------------------------------------------------------------------
(* What the server reads *)

\* The first message of the newest connection is the oldest event; those of the others
\* are no events, or nobody listens to them.
LEMMA ReadWay ==
  ASSUME IInv, NEW c \in Conns, up[c] # <<>>, up' = [up EXCEPT ![c] = Tail(@)],
         UNCHANGED <<accepted, outbox>>
  PROVE  /\ InOrder'
         /\ Under' \subseteq Under
         /\ \A m \in Under : m = Head(up[c]) \/ m \in Under'
         /\ c # accepted => Under' = Under
         /\ c = accepted /\ Head(up[c]).kind # "response" =>
              Head(up[c]) \in Under /\ \A k \in Under' : Precedes(Head(up[c]), k)
<1>1. /\ Way \in Seq(Message) /\ outbox \in Seq(Message) /\ Orderly(Way, outbox)
      /\ up \in [Conns -> Seq(Message)]
  BY WayType DEF IInv, Streams, InOrder, TypeOK, Message
<1>2. CASE c # accepted
  <2>1. Way' = Way
    BY <1>1, <1>2 DEF Way
  <2> QED
    BY <1>1, <1>2, <2>1 DEF InOrder, Under
<1>3. CASE c = accepted
  <2>1. PICK s \in Seq(Message), rest \in Seq(Message) : s = up[c] /\ s # <<>> /\ rest = Tail(s)
    BY <1>1, HeadTailProperties
  <2>2. Way = s /\ Way' = rest
    BY <1>1, <1>3, <2>1, Bounds DEF Way, Conns
  <2>3. /\ Evs(rest) \subseteq Evs(s)
        /\ Head(s).kind # "response" => Head(s) \in Evs(s)
        /\ \A m \in Evs(s) : m = Head(s) \/ m \in Evs(rest)
    BY <2>1, EvsTail
  <2>4. /\ Orderly(rest, outbox)
        /\ Head(s).kind # "response" =>
             \A k \in Evs(rest) \cup Evs(outbox) : Precedes(Head(s), k)
    BY <1>1, <2>1, <2>2, OrderlyRead
  <2>5. Under = Evs(s) \cup Evs(outbox) /\ Under' = Evs(rest) \cup Evs(outbox)
    BY <2>2 DEF Under
  <2>6. InOrder' /\ Head(up[c]) = Head(s)
    BY <2>1, <2>2, <2>4 DEF InOrder
  <2> HIDE <2>1
  <2> QED
    BY <1>3, <2>3, <2>4, <2>5, <2>6
<1> QED
  BY <1>2, <1>3

LEMMA ReceiveResponseStreams ==
  ASSUME IInv, TypeOK', NEW c \in Conns, Receive(c), ReceiveResponse(c)
  PROVE  SpawnedOnce' /\ Streams'
<1>1. /\ UNCHANGED <<accepted, outbox, lost, printed, process, yielded>>
      /\ up[c] # <<>> /\ up' = [up EXCEPT ![c] = Tail(@)] /\ Head(up[c]).kind = "response"
  BY DEF Receive, ReceiveResponse, summonerVars
<1>2. /\ InOrder' /\ Under' \subseteq Under
      /\ \A m \in Under : m = Head(up[c]) \/ m \in Under'
  BY <1>1, ReadWay
<1>3. \A m \in Under : m.kind # "response"
  BY WayType, EventFields DEF IInv
<1>4. \A m \in Under : m \in Under'
  BY <1>1, <1>2, <1>3
<1>5. /\ SpawnedOnce'
      /\ \A p \in Procs : /\ stream'[p] \in {"none", "open"} => stream[p] \in {"none", "open"}
                          /\ stream'[p] = "exited" => stream[p] = "exited"
  BY ReceiveResponseSpawns
<1> QED
  BY <1>1, <1>2, <1>4, <1>5, CarriedStreams DEF IInv

\* An event nobody listens to.
LEMMA UnheardStreams ==
  ASSUME IInv, TypeOK', NEW c \in Conns, Receive(c), UNCHANGED <<stream, yielded, outcome>>,
         Head(up[c]).kind # "response",
         c # current \/ stream[Head(up[c]).p] # "open"
  PROVE  SpawnedOnce' /\ Streams'
<1>1. /\ UNCHANGED <<accepted, outbox, lost, printed, process, executed>>
      /\ up[c] # <<>> /\ up' = [up EXCEPT ![c] = Tail(@)] /\ c \in srvOpen
  BY DEF Receive, summonerVars
<1>2. /\ InOrder' /\ Under' \subseteq Under
      /\ \A m \in Under : m = Head(up[c]) \/ m \in Under'
      /\ c # accepted => Under' = Under
      /\ c = accepted => Head(up[c]) \in Under
  BY <1>1, ReadWay
<1>3. c = accepted => c = current
  BY <1>1 DEF IInv, CurrentIsNewest
<1>4. \A m \in Under : m \in Under' \/ stream'[m.p] \notin {"none", "open"}
  <2>1. CASE c # accepted
    BY <1>2, <2>1
  <2>2. CASE c = accepted
    <3>1. stream[Head(up[c]).p] \in {"exited", "aborted"}
      BY <1>2, <1>3, <2>2, UnheardEnded
    <3> QED
      BY <1>2, <3>1
  <2> QED
    BY <2>1, <2>2
<1>5. SpawnedOnce'
  BY <1>1 DEF IInv, SpawnedOnce
<1> QED
  BY <1>1, <1>2, <1>4, <1>5, CarriedStreams DEF IInv

\* The oldest event of the newest connection, given to its LineStream.
LEMMA HeardEvent ==
  ASSUME IInv, NEW c \in Conns, Receive(c), c = current, Head(up[c]).kind # "response"
  PROVE  /\ Head(up[c]) \in Under /\ Head(up[c]) \in Event
         /\ InOrder' /\ Under' \subseteq Under
         /\ \A m \in Under : m = Head(up[c]) \/ m \in Under'
         /\ \A m \in Under' : Precedes(Head(up[c]), m)
<1>1. /\ UNCHANGED <<accepted, outbox>>
      /\ up[c] # <<>> /\ up' = [up EXCEPT ![c] = Tail(@)] /\ c \in srvOpen
  BY DEF Receive, summonerVars
<1>2. c = accepted
  BY <1>1, Bounds DEF IInv, CurrentIsNewest, Conns
<1> QED
  BY <1>1, <1>2, ReadWay, WayType DEF IInv

\* Where nothing is missing, the oldest line under way is the one the runner waits for.
LEMMA NextLine ==
  ASSUME IInv, NEW e \in Under, e.kind = "line", e.p \notin lost, stream[e.p] = "open",
         NEW Rest, \A m \in Under : m = e \/ m \in Rest, \A m \in Rest : Precedes(e, m)
  PROVE  e.n = Len(yielded[e.p]) + 1
<1>1. UnderWay /\ NothingMissing /\ Under \subseteq Event
  BY WayType DEF IInv, Streams
<1>2. e.p \in Procs /\ e.n \in 1..MaxLines /\ MaxLines \in Nat
  BY <1>1, EventFields, Bounds
<1>3. yielded[e.p] \in Seq(1..MaxLines) /\ printed[e.p] \in Nat
  BY <1>2 DEF IInv, TypeOK
<1>4. PICK len \in Nat : len = Len(yielded[e.p]) /\ DOMAIN yielded[e.p] = 1..len
  BY <1>3, LenProperties
<1>5. /\ e.n <= printed[e.p]
      /\ \A k \in DOMAIN yielded[e.p] : yielded[e.p][k] < e.n
  BY <1>1 DEF UnderWay
<1>6. /\ \A k \in DOMAIN yielded[e.p] : yielded[e.p][k] = k
      /\ \A n \in 1..printed[e.p] :
           n <= Len(yielded[e.p]) \/ \E m \in Under : m.kind = "line" /\ m.p = e.p /\ m.n = n
  BY <1>1, <1>2 DEF NothingMissing
<1>7. len + 1 <= e.n
  <2>1. CASE len = 0
    BY <1>2, <2>1
  <2>2. CASE len # 0
    <3>1. len \in DOMAIN yielded[e.p]
      BY <1>4, <2>2
    <3>2. len < e.n
      BY <1>5, <1>6, <3>1
    <3> QED
      BY <1>2, <1>4, <3>2
  <2> QED
    BY <2>1, <2>2
<1>8. len + 1 \in 1..printed[e.p] /\ ~(len + 1 <= len)
  BY <1>2, <1>3, <1>4, <1>5, <1>7
<1>9. PICK m \in Under : m.kind = "line" /\ m.p = e.p /\ m.n = len + 1
  BY <1>4, <1>6, <1>8
<1>10. CASE m = e
  BY <1>4, <1>9, <1>10
<1>11. CASE m # e
  <2>1. e.n < m.n
    <3>1. Precedes(e, m)
      BY <1>11
    <3> QED
      BY <1>9, <3>1 DEF Precedes, Rank
  <2> QED
    BY <1>2, <1>4, <1>7, <1>9, <2>1
<1> QED
  BY <1>10, <1>11

\* Where nothing is missing, the exit is read when every line has been.
LEMMA AllLines ==
  ASSUME IInv, NEW e \in Under, e.kind = "exit", e.p \notin lost, stream[e.p] = "open",
         NEW Rest, \A m \in Under : m = e \/ m \in Rest, \A m \in Rest : Precedes(e, m)
  PROVE  Len(yielded[e.p]) = printed[e.p]
<1>1. YieldedPrinted /\ NothingMissing /\ Under \subseteq Event
  BY WayType DEF IInv, Streams
<1>2. e.p \in Procs /\ MaxLines \in Nat
  BY <1>1, EventFields, Bounds
<1>3. yielded[e.p] \in Seq(1..MaxLines) /\ printed[e.p] \in Nat
  BY <1>2 DEF IInv, TypeOK
<1>4. PICK len \in Nat : len = Len(yielded[e.p]) /\ DOMAIN yielded[e.p] = 1..len
  BY <1>3, LenProperties
<1>5. /\ \A k \in DOMAIN yielded[e.p] : yielded[e.p][k] = k
      /\ \A n \in 1..printed[e.p] :
           n <= Len(yielded[e.p]) \/ \E m \in Under : m.kind = "line" /\ m.p = e.p /\ m.n = n
  BY <1>1, <1>2 DEF NothingMissing
<1>6. len <= printed[e.p]
  <2>1. CASE len = 0
    BY <1>3, <2>1
  <2>2. CASE len # 0
    <3>1. len \in DOMAIN yielded[e.p]
      BY <1>4, <2>2
    <3>2. yielded[e.p][len] = len
      BY <1>5, <3>1
    <3>3. yielded[e.p][len] <= printed[e.p]
      BY <1>1, <1>2, <3>1 DEF YieldedPrinted
    <3> QED
      BY <3>2, <3>3
  <2> QED
    BY <2>1, <2>2
<1>7. printed[e.p] <= len
  <2> SUFFICES ASSUME ~(printed[e.p] <= len) PROVE FALSE
    OBVIOUS
  <2>1. printed[e.p] \in 1..printed[e.p]
    BY <1>3, <1>4
  <2>2. PICK m \in Under : m.kind = "line" /\ m.p = e.p /\ m.n = printed[e.p]
    BY <1>4, <1>5, <2>1
  <2>3. m # e /\ m \in Event
    BY <1>1, <2>2
  <2>4. Precedes(e, m)
    BY <2>3
  <2>5. MaxLines + 1 < m.n
    BY <2>2, <2>4 DEF Precedes, Rank
  <2>6. m.n \in 1..MaxLines
    BY <2>2, <2>3, EventFields
  <2> QED
    BY <1>2, <2>5, <2>6
<1> QED
  BY <1>3, <1>4, <1>6, <1>7

LEMMA ReceiveLineStreams ==
  ASSUME IInv, TypeOK', NEW c \in Conns, Receive(c), c = current,
         NEW e, e = Head(up[c]), e.kind = "line", stream[e.p] = "open",
         yielded' = [yielded EXCEPT ![e.p] = Append(@, e.n)], UNCHANGED <<stream, outcome>>
  PROVE  SpawnedOnce' /\ Streams'
<1>1. UNCHANGED <<accepted, outbox, lost, printed, process, executed>>
  BY DEF Receive, summonerVars
<1>2. /\ e \in Under /\ e \in Event
      /\ InOrder' /\ Under' \subseteq Under
      /\ \A m \in Under : m = e \/ m \in Under'
      /\ \A m \in Under' : Precedes(e, m)
  BY HeardEvent
<1>3. /\ UnderWay /\ YieldedPrinted /\ NothingMissing /\ ExitedIsGone /\ NoSilentLoss
      /\ Under \subseteq Event
  BY WayType DEF IInv, Streams
<1>4. e.p \in Procs /\ e.n \in 1..MaxLines /\ MaxLines \in Nat
  BY <1>2, EventFields, Bounds
<1>5. yielded \in [Procs -> Seq(1..MaxLines)] /\ printed \in [Procs -> 0..MaxLines]
  BY DEF IInv, TypeOK
<1>6. PICK len \in Nat : len = Len(yielded[e.p]) /\ DOMAIN yielded[e.p] = 1..len
  BY <1>4, <1>5, LenProperties
<1>7. /\ Len(yielded'[e.p]) = len + 1
      /\ DOMAIN yielded'[e.p] = 1..(len + 1)
      /\ yielded'[e.p][len + 1] = e.n
      /\ \A k \in DOMAIN yielded[e.p] : yielded'[e.p][k] = yielded[e.p][k]
  <2>1. yielded'[e.p] = Append(yielded[e.p], e.n) /\ yielded[e.p] \in Seq(1..MaxLines)
    BY <1>4, <1>5
  <2> QED
    BY <1>4, <1>6, <2>1, AppendProperties
<1>8. \A q \in Procs : q # e.p => yielded'[q] = yielded[q]
  BY <1>4, <1>5
<1>9. \A k \in DOMAIN yielded'[e.p] : k \in DOMAIN yielded[e.p] \/ k = len + 1
  BY <1>6, <1>7
<1>10. e.n <= printed[e.p] /\ \A k \in DOMAIN yielded[e.p] : yielded[e.p][k] < e.n
  BY <1>2, <1>3 DEF UnderWay
<1>11. UnderWay'
  <2> SUFFICES ASSUME NEW m \in Under'
               PROVE  /\ m.kind = "line" =>
                           /\ m.n <= printed[m.p]
                           /\ \A k \in DOMAIN yielded'[m.p] : yielded'[m.p][k] < m.n
                      /\ m.kind = "exit" => process[m.p] = "gone"
    BY <1>1 DEF UnderWay
  <2>1. /\ m.kind = "line" => /\ m.n <= printed[m.p]
                              /\ \A k \in DOMAIN yielded[m.p] : yielded[m.p][k] < m.n
        /\ m.kind = "exit" => process[m.p] = "gone"
    BY <1>2, <1>3 DEF UnderWay
  <2>2. m \in Event /\ m.p \in Procs
    BY <1>2, <1>3, EventFields
  <2>3. ASSUME m.kind = "line", NEW k \in DOMAIN yielded'[m.p]
        PROVE  yielded'[m.p][k] < m.n
    <3>1. CASE m.p # e.p
      BY <1>8, <2>1, <2>2, <2>3, <3>1
    <3>2. CASE m.p = e.p /\ k \in DOMAIN yielded[e.p]
      BY <1>7, <2>1, <2>3, <3>2
    <3>3. CASE m.p = e.p /\ k = len + 1
      BY <1>2, <1>7, <2>3, <3>3 DEF Precedes, Rank
    <3> QED
      BY <1>9, <2>3, <3>1, <3>2, <3>3
  <2> QED
    BY <2>1, <2>3
<1>12. YieldedPrinted'
  <2> SUFFICES ASSUME NEW q \in Procs, NEW k \in DOMAIN yielded'[q]
               PROVE  yielded'[q][k] <= printed[q]
    BY <1>1 DEF YieldedPrinted
  <2>1. CASE q # e.p
    BY <1>3, <1>8, <2>1 DEF YieldedPrinted
  <2>2. CASE q = e.p /\ k \in DOMAIN yielded[e.p]
    BY <1>3, <1>7, <2>2 DEF YieldedPrinted
  <2>3. CASE q = e.p /\ k = len + 1
    BY <1>7, <1>10, <2>3
  <2> QED
    BY <1>9, <2>1, <2>2, <2>3
<1>13. NothingMissing'
  <2> SUFFICES ASSUME NEW q \in Procs, q \notin lost, stream[q] \in {"none", "open"}
               PROVE  /\ \A k \in DOMAIN yielded'[q] : yielded'[q][k] = k
                      /\ \A n \in 1..printed[q] :
                           \/ n <= Len(yielded'[q])
                           \/ \E m \in Under' : m.kind = "line" /\ m.p = q /\ m.n = n
    BY <1>1 DEF NothingMissing
  <2>1. /\ \A k \in DOMAIN yielded[q] : yielded[q][k] = k
        /\ \A n \in 1..printed[q] :
             n <= Len(yielded[q]) \/ \E m \in Under : m.kind = "line" /\ m.p = q /\ m.n = n
    BY <1>3 DEF NothingMissing
  <2>2. CASE q # e.p
    BY <1>2, <1>8, <2>1, <2>2
  <2>3. CASE q = e.p
    <3>1. e.n = len + 1
      <4>1. e.n = Len(yielded[e.p]) + 1
        BY <1>2, <2>3, NextLine
      <4> QED
        BY <1>6, <4>1
    <3>2. \A k \in DOMAIN yielded'[q] : yielded'[q][k] = k
      BY <1>7, <1>9, <2>1, <2>3, <3>1
    <3>3. ASSUME NEW n \in 1..printed[q], ~(n <= Len(yielded'[q]))
          PROVE  \E m \in Under' : m.kind = "line" /\ m.p = q /\ m.n = n
      <4>1. ~(n <= len + 1) /\ n \in Nat
        BY <1>7, <2>3, <3>3
      <4>2. ~(n <= Len(yielded[q])) /\ n # e.n
        BY <1>6, <2>3, <3>1, <4>1
      <4>3. PICK m \in Under : m.kind = "line" /\ m.p = q /\ m.n = n
        BY <2>1, <4>2
      <4> QED
        BY <1>2, <4>2, <4>3
    <3> QED
      BY <3>2, <3>3
  <2> QED
    BY <2>2, <2>3
<1>14. ExitedIsGone' /\ NoSilentLoss'
  BY <1>1, <1>3, <1>8 DEF ExitedIsGone, NoSilentLoss
<1>15. SpawnedOnce'
  BY <1>1 DEF IInv, SpawnedOnce
<1> QED
  BY <1>2, <1>11, <1>12, <1>13, <1>14, <1>15 DEF Streams

LEMMA ReceiveExitStreams ==
  ASSUME IInv, TypeOK', NEW c \in Conns, Receive(c), c = current,
         NEW e, e = Head(up[c]), e.kind = "exit", stream[e.p] = "open",
         stream' = [stream EXCEPT ![e.p] = "exited"], UNCHANGED <<yielded, outcome>>
  PROVE  SpawnedOnce' /\ Streams'
<1>1. UNCHANGED <<accepted, outbox, lost, printed, process, executed>>
  BY DEF Receive, summonerVars
<1>2. /\ e \in Under /\ e \in Event /\ e.kind # "response"
      /\ InOrder' /\ Under' \subseteq Under
      /\ \A m \in Under : m = e \/ m \in Under'
      /\ \A m \in Under' : Precedes(e, m)
  BY HeardEvent
<1>3. /\ UnderWay /\ YieldedPrinted /\ NothingMissing /\ ExitedIsGone /\ NoSilentLoss
  BY DEF IInv, Streams
<1>4. e.p \in Procs
  BY <1>2, EventFields
<1>5. stream'[e.p] = "exited" /\ \A q \in Procs : q # e.p => stream'[q] = stream[q]
  BY <1>4 DEF IInv, TypeOK
<1>6. process[e.p] = "gone"
  BY <1>2, <1>3 DEF UnderWay
<1>7. e.p \notin lost => Len(yielded[e.p]) = printed[e.p]
  BY <1>2, AllLines
<1>8. UnderWay' /\ YieldedPrinted'
  BY <1>1, <1>2, <1>3 DEF UnderWay, YieldedPrinted
<1>9. NothingMissing'
  <2> SUFFICES ASSUME NEW q \in Procs, q \notin lost, stream'[q] \in {"none", "open"}
               PROVE  /\ \A k \in DOMAIN yielded[q] : yielded[q][k] = k
                      /\ \A n \in 1..printed[q] :
                           \/ n <= Len(yielded[q])
                           \/ \E m \in Under' : m.kind = "line" /\ m.p = q /\ m.n = n
    BY <1>1 DEF NothingMissing
  <2>1. q # e.p /\ stream[q] \in {"none", "open"}
    BY <1>5
  <2>2. /\ \A k \in DOMAIN yielded[q] : yielded[q][k] = k
        /\ \A n \in 1..printed[q] :
             n <= Len(yielded[q]) \/ \E m \in Under : m.kind = "line" /\ m.p = q /\ m.n = n
    BY <1>3, <2>1 DEF NothingMissing
  <2> QED
    BY <1>2, <2>1, <2>2
<1>10. ExitedIsGone' /\ NoSilentLoss'
  BY <1>1, <1>3, <1>5, <1>6, <1>7 DEF ExitedIsGone, NoSilentLoss
<1>11. SpawnedOnce'
  BY <1>1, <1>4, <1>5 DEF IInv, SpawnedOnce
<1> QED
  BY <1>2, <1>8, <1>9, <1>10, <1>11 DEF Streams

\* What Receive does with an event.
LEMMA EventRead ==
  ASSUME IInv, NEW c \in Conns, Receive(c), ReceiveEvent(c), NEW e, e = Head(up[c])
  PROVE  \/ (c # current \/ stream[e.p] # "open") /\ UNCHANGED <<stream, yielded>>
         \/ /\ c = current /\ stream[e.p] = "open" /\ e.kind = "line"
            /\ yielded' = [yielded EXCEPT ![e.p] = Append(@, e.n)] /\ UNCHANGED stream
         \/ /\ c = current /\ stream[e.p] = "open" /\ e.kind = "exit"
            /\ stream' = [stream EXCEPT ![e.p] = "exited"] /\ UNCHANGED yielded
BY DEF ReceiveEvent, Wired

LEMMA ReceiveStreams ==
  ASSUME IInv, TypeOK', NEW c \in Conns, Receive(c)
  PROVE  SpawnedOnce' /\ Streams'
<1>1. CASE ReceiveResponse(c)
  BY <1>1, ReceiveResponseStreams
<1>2. CASE ReceiveEvent(c)
  <2>1. outcome' = outcome /\ Head(up[c]).kind # "response"
    BY <1>2 DEF ReceiveEvent
  <2>2. PICK e : e = Head(up[c])
    OBVIOUS
  <2>3. \/ (c # current \/ stream[e.p] # "open") /\ UNCHANGED <<stream, yielded>>
        \/ /\ c = current /\ stream[e.p] = "open" /\ e.kind = "line"
           /\ yielded' = [yielded EXCEPT ![e.p] = Append(@, e.n)] /\ UNCHANGED stream
        \/ /\ c = current /\ stream[e.p] = "open" /\ e.kind = "exit"
           /\ stream' = [stream EXCEPT ![e.p] = "exited"] /\ UNCHANGED yielded
    BY <1>2, <2>2, EventRead
  <2> QED
    BY <2>1, <2>2, <2>3, UnheardStreams, ReceiveLineStreams, ReceiveExitStreams
<1> QED
  BY <1>1, <1>2 DEF Receive

-----------------------------------------------------------------------------
(* The invariant *)

LEMMA StreamsStep ==
  ASSUME IInv, TypeOK', [Next]_vars
  PROVE  SpawnedOnce' /\ Streams'
<1>1. CASE Accept \/ HandleOpen \/ ClientClose \/ Restart \/ HandleRequest \/ Operated
  BY <1>1, AcceptStreams, HandleOpenStreams, ClientCloseStreams, RestartStreams,
     HandleRequestStreams, OperatedStreams
<1>2. ASSUME NEW p \in Procs, Spawn(p) \/ Kill(p) \/ PrintLine(p) \/ Exit(p)
      PROVE  SpawnedOnce' /\ Streams'
  <2>1. <<"spawn", p>> \in Calls
    BY DEF Calls
  <2> QED
    BY <1>2, <2>1, CallStreams, KillStreams, PrintLineStreams, ExitStreams DEF Spawn
<1>3. ASSUME NEW o \in Ops, Operate(o)
      PROVE  SpawnedOnce' /\ Streams'
  <2>1. <<"op", o>> \in Calls
    BY DEF Calls
  <2> QED
    BY <1>3, <2>1, CallStreams DEF Operate
<1>4. ASSUME NEW c \in Conns, ServerClose(c) \/ Receive(c) \/ CallTimeout(c)
      PROVE  SpawnedOnce' /\ Streams'
  BY <1>4, ServerCloseStreams, ReceiveStreams, CallTimeoutStreams
<1>5. CASE UNCHANGED vars
  <2>1. UNCHANGED <<accepted, up, outbox, lost, printed, yielded, process, stream, outcome, executed>>
    BY <1>5 DEF vars, serverVars, summonerVars, historyVars
  <2>2. InOrder' /\ Under' = Under
    BY <2>1, SameWay
  <2>3. SpawnedOnce'
    BY <2>1 DEF IInv, SpawnedOnce
  <2> QED
    BY <2>1, <2>2, <2>3, CarriedStreams DEF IInv
<1> QED
  BY <1>1, <1>2, <1>3, <1>4, <1>5 DEF Next

LEMMA InitIInv == Init => IInv
<1> SUFFICES ASSUME Init PROVE IInv
  OBVIOUS
<1>1. TypeOK /\ Served /\ Link /\ CurrentIsNewest
  BY InitType, InitServed
<1>2. SpawnedOnce
  <2>1. \A p \in Procs : <<"spawn", p>> \in Calls
    BY DEF Calls
  <2> QED
    BY <2>1 DEF Init, SpawnedOnce
<1>3. Way = <<>> /\ outbox = <<>>
  BY DEF Init, Way
<1>4. InOrder /\ Under = {}
  BY <1>3, EvsEmpty DEF InOrder, Orderly, Under
<1>5. \A p \in Procs : printed[p] = 0 /\ yielded[p] = <<>> /\ stream[p] = "none"
  BY DEF Init
<1>6. DOMAIN <<>> = {} /\ 1..0 = {}
  OBVIOUS
<1>7. UnderWay /\ YieldedPrinted /\ ExitedIsGone /\ NoSilentLoss
  BY <1>4, <1>5, <1>6 DEF UnderWay, YieldedPrinted, ExitedIsGone, NoSilentLoss
<1>8. NothingMissing
  BY <1>4, <1>5, <1>6 DEF NothingMissing
<1> QED
  BY <1>1, <1>2, <1>4, <1>7, <1>8 DEF IInv, Streams

LEMMA NextIInv == IInv /\ [Next]_vars => IInv'
<1> SUFFICES ASSUME IInv, [Next]_vars PROVE IInv'
  OBVIOUS
<1>1. TypeOK /\ Link /\ CurrentIsNewest /\ Served
  BY DEF IInv
<1>2. TypeOK' /\ Link' /\ CurrentIsNewest'
  BY <1>1, TypeOKStep, LinkStep
<1>3. Served'
  BY <1>1, ServedStep
<1>4. SpawnedOnce' /\ Streams'
  BY <1>2, StreamsStep
<1> QED
  BY <1>2, <1>3, <1>4 DEF IInv

LEMMA Invariance == Spec => []IInv
BY InitIInv, NextIInv, PTL DEF Spec

\* The state of the server, of the summoner and of the network keeps its types; the
\* outbox never holds more than OutboxLimit.
THEOREM TypeCorrect == Spec => []TypeOK
<1>1. IInv => TypeOK
  BY DEF IInv
<1> QED
  BY <1>1, Invariance, PTL

\* ReconnectableRpc names the newest connection while it is open, and nothing after
\* that: the late close of an older one detaches nothing.
THEOREM NewestLink == Spec => []CurrentIsNewest
<1>1. IInv => CurrentIsNewest
  BY DEF IInv
<1> QED
  BY <1>1, Invariance, PTL

\* A request that resolves has been executed, and none is executed twice, although
\* every connection numbers its requests from 1.
THEOREM CallsExecutedOnce == Spec => []OkMeansExecuted
<1>1. IInv => OkMeansExecuted
  BY DEF IInv, Served
<1> QED
  BY <1>1, Invariance, PTL

\* The runner has every line of a process when it hears of the exit, unless an event of
\* it was dropped on the way.
THEOREM NothingLostSilently == Spec => []NoSilentLoss
<1>1. IInv => NoSilentLoss
  BY DEF IInv, Streams
<1> QED
  BY <1>1, Invariance, PTL

-----------------------------------------------------------------------------
(* The implementation of ProcessStream *)

Ended == [p \in Procs |-> stream[p] \in {"exited", "aborted"}]

LEMMA StreamInit == Init => Stream!Init
<1> SUFFICES ASSUME Init PROVE Stream!Init
  OBVIOUS
<1>1. printed = [p \in Procs |-> 0] /\ yielded = [p \in Procs |-> <<>>]
  BY DEF Init
<1>2. \A p \in Procs : stream[p] = "none"
  BY DEF Init
<1>3. \A p \in Procs : (stream[p] \in {"exited", "aborted"}) = FALSE
  BY <1>2
<1>4. Ended = [p \in Procs |-> FALSE]
  BY <1>3 DEF Ended
<1> QED
  BY <1>1, <1>4 DEF Stream!Init, Ended

\* Whatever touches neither the lines printed nor those read ends streams, or nothing.
LEMMA StreamsEnd ==
  ASSUME UNCHANGED <<printed, yielded>>,
         \A p \in Procs : stream[p] \in {"exited", "aborted"} => stream'[p] \in {"exited", "aborted"}
  PROVE  Stream!End
<1> DEFINE P == {p \in Procs : stream'[p] \in {"exited", "aborted"}}
<1>1. P \in SUBSET Procs
  OBVIOUS
<1>2. \A p \in Procs : (stream'[p] \in {"exited", "aborted"})
                         = (stream[p] \in {"exited", "aborted"} \/ p \in P)
  OBVIOUS
<1>3. Ended' = [p \in Procs |-> Ended[p] \/ p \in P]
  BY <1>2 DEF Ended
<1> QED
  BY <1>1, <1>3 DEF Stream!End, Ended

LEMMA StreamStep ==
  ASSUME IInv, [Next]_vars
  PROVE  Stream!Next \/ UNCHANGED Stream!vars
<1>1. CASE Accept \/ HandleOpen \/ ClientClose \/ Restart \/ HandleRequest \/ Operated
  <2>1. UNCHANGED <<printed, yielded, stream>>
    BY <1>1 DEF Accept, HandleOpen, ClientClose, Restart, HandleRequest, Operated, serverVars,
                historyVars
  <2> QED
    BY <2>1 DEF Stream!vars
<1>2. ASSUME NEW x \in Calls, Call(x)
      PROVE  Stream!End
  <2>1. UNCHANGED <<printed, yielded>>
    BY <1>2 DEF Call, historyVars
  <2> QED
    BY <1>2, <2>1, CallSpawns, StreamsEnd
<1>3. ASSUME NEW p \in Procs, Kill(p)
      PROVE  Stream!End
  <2>1. UNCHANGED <<printed, yielded>>
    BY <1>3 DEF Kill, historyVars
  <2> QED
    BY <1>3, <2>1, KillSpawns, StreamsEnd
<1>4. ASSUME NEW p \in Procs, PrintLine(p)
      PROVE  Stream!PrintLine(p)
  BY <1>4 DEF PrintLine, serverVars, Stream!PrintLine
<1>5. ASSUME NEW p \in Procs, Exit(p)
      PROVE  UNCHANGED Stream!vars
  BY <1>5 DEF Exit, serverVars, Stream!vars
<1>6. ASSUME NEW c \in Conns, ServerClose(c) \/ CallTimeout(c)
      PROVE  Stream!End
  <2>1. UNCHANGED <<printed, yielded, process, executed>>
    BY <1>6 DEF ServerClose, CallTimeout, summonerVars, historyVars
  <2>2. PICK X : Fail(X)
    BY <1>6 DEF ServerClose, CallTimeout
  <2> QED
    BY <2>1, <2>2, FailingSpawns, StreamsEnd
<1>7. ASSUME NEW c \in Conns, Receive(c)
      PROVE  Stream!Next \/ UNCHANGED Stream!vars
  <2>1. UNCHANGED printed
    BY <1>7 DEF Receive
  <2>2. CASE ReceiveResponse(c)
    <3>1. UNCHANGED yielded
      BY <2>2 DEF ReceiveResponse
    <3>2. Stream!End
      BY <1>7, <2>1, <2>2, <3>1, ReceiveResponseSpawns, StreamsEnd
    <3> QED
      BY <3>2 DEF Stream!Next
  <2>3. CASE ReceiveEvent(c)
    <3>1. PICK e : e = Head(up[c])
      OBVIOUS
    <3>2. CASE UNCHANGED <<stream, yielded>>
      BY <2>1, <3>2 DEF Stream!vars
    <3>3. CASE /\ c = current /\ stream[e.p] = "open" /\ e.kind = "line"
               /\ yielded' = [yielded EXCEPT ![e.p] = Append(@, e.n)] /\ UNCHANGED stream
      <4>1. e \in Under /\ e \in Event
        BY <1>7, <3>1, <3>3, HeardEvent
      <4>2. e.p \in Procs /\ e.n \in 1..MaxLines
        BY <3>3, <4>1, EventFields
      <4>3. UnderWay
        BY DEF IInv, Streams
      <4>4. e.n <= printed[e.p] /\ \A k \in DOMAIN yielded[e.p] : yielded[e.p][k] < e.n
        BY <3>3, <4>1, <4>3 DEF UnderWay
      <4>5. printed[e.p] \in Nat /\ yielded[e.p] \in Seq(1..MaxLines) /\ MaxLines \in Nat
        BY <4>2, Bounds DEF IInv, TypeOK
      <4>6. e.n \in 1..printed[e.p] /\ \A i \in 1..Len(yielded[e.p]) : yielded[e.p][i] < e.n
        BY <4>2, <4>4, <4>5, LenProperties
      <4>7. ~Ended[e.p] /\ UNCHANGED Ended
        BY <3>3, <4>2 DEF Ended
      <4>8. Stream!Yield(e.p)
        BY <2>1, <3>3, <4>2, <4>6, <4>7 DEF Stream!Yield, Ended
      <4> QED
        BY <4>2, <4>8 DEF Stream!Next
    <3>4. CASE /\ c = current /\ stream[e.p] = "open" /\ e.kind = "exit"
               /\ stream' = [stream EXCEPT ![e.p] = "exited"] /\ UNCHANGED yielded
      <4>1. \A p \in Procs : stream[p] \in {"exited", "aborted"} =>
                               stream'[p] \in {"exited", "aborted"}
        BY <3>4 DEF IInv, TypeOK
      <4>2. Stream!End
        BY <2>1, <3>4, <4>1, StreamsEnd
      <4> QED
        BY <4>2 DEF Stream!Next
    <3> QED
      BY <1>7, <2>3, <3>1, <3>2, <3>3, <3>4, EventRead
  <2> QED
    BY <1>7, <2>2, <2>3 DEF Receive
<1>8. CASE UNCHANGED vars
  BY <1>8 DEF vars, serverVars, historyVars, Stream!vars
<1>9. /\ \A p \in Procs : <<"spawn", p>> \in Calls
      /\ \A o \in Ops : <<"op", o>> \in Calls
  BY DEF Calls
<1> QED
  BY <1>1, <1>2, <1>3, <1>4, <1>5, <1>6, <1>7, <1>8, <1>9
     DEF Next, Spawn, Operate, Stream!Next

\* The lines a runner reads from a remote process are lines it printed, each once and
\* in order, and none after the end, through every reconnection, close and crash.
THEOREM ImplementsStream == Spec => IsProcessStream
<1>1. Init => Stream!Init
  BY StreamInit
<1>2. IInv /\ [Next]_vars => [Stream!Next]_(Stream!vars)
  BY StreamStep
<1>3. Spec => []IInv
  BY Invariance
<1> QED
  BY <1>1, <1>2, <1>3, PTL DEF Spec, IsProcessStream, Stream!Spec
=============================================================================
