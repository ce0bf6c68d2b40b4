----------------------- MODULE SessionLifecycleProofs -----------------------
(***************************************************************************)
(* Theorems about SessionLifecycle, for any number of processes and calls. *)
(***************************************************************************)
EXTENDS SessionLifecycle, TLAPS

(***************************************************************************)
(* The inductive invariant                                                 *)
(***************************************************************************)

\* A session is that of a process that was started, or session 0.
SessionsNumbered ==
  /\ \A n \in Runners : ch[n].sess <= spawned
  /\ \A s \in Sessions : row[s].status # "none" => s <= spawned

\* What the fields of a channel say of each other.
ChannelsSound ==
  \A n \in Runners :
    /\ n > spawned => ch[n] = NoChannel
    /\ ch[n].exited => ch[n].process = "exited"
    /\ ch[n].by = "resume" => ch[n].known
    /\ ch[n].by = "resume" /\ ch[n].ready = "ok" => ch[n].cmds

\* ChannelManager.channels files a channel under its own id.
ChannelsFiled ==
  \A id \in Ids :
    channels[id] # 0 => channels[id] <= spawned /\ ch[channels[id]].id = id

\* A process that was there when a resume looked for one, and is still the channel of its
\* id, runs another session or had not said which.
ResumeLooked(c) ==
  /\ c.key <= spawned
  /\ \A m \in 1..c.since :
       Running(m) /\ ch[m].sess = c.key /\ channels[ch[m].id] = m => m \in c.blind

\* A process that was there when a join looked for one is not the channel it asked for.
JoinLooked(c) == \A m \in 1..c.since : Running(m) /\ ch[m].id = c.key => channels[c.key] # m

CallSound(c) ==
  /\ c.pc # "look" => c.n \in 1..spawned
  /\ c.pc \in {"init", "set", "apply"} => ch[c.n].by = c.op
  /\ c.pc = "look" => /\ c.since <= spawned
                      /\ c.op = "resume" => ResumeLooked(c)
                      /\ c.op = "join" => JoinLooked(c)

IInv ==
  /\ TypeOK
  /\ SessionsNumbered /\ ChannelsSound /\ ChannelsFiled
  /\ \A c \in calls : CallSound(c)
  /\ OneProcessPerSession /\ JoinSeesCommands /\ ClosedStaysClosed

-----------------------------------------------------------------------------
(* Types *)

LEMMA Bounds ==
  /\ MaxRunners \in Nat /\ MaxCalls \in Nat
  /\ Runners \subseteq Ids /\ Sessions = Ids /\ 0 \in Ids /\ Entry \in Ids
BY ConstantsAssumption DEF ConstantsAssumption, Runners, Ids, Sessions

LEMMA InitInvariant == Init => IInv
<1> SUFFICES ASSUME Init PROVE IInv
  OBVIOUS
<1>1. TypeOK
  BY Bounds DEF Init, TypeOK, Channel, NoChannel, Row, Runners
<1>2. SessionsNumbered /\ ChannelsSound /\ ChannelsFiled
  BY Bounds DEF Init, SessionsNumbered, ChannelsSound, ChannelsFiled, NoChannel, Runners, Ids
<1>3. OneProcessPerSession /\ JoinSeesCommands /\ ClosedStaysClosed
  BY Bounds DEF Init, OneProcessPerSession, JoinSeesCommands, ClosedStaysClosed, Spawned, Ids
<1> QED
  BY <1>1, <1>2, <1>3 DEF IInv, Init

\* A call that is suspended, with the fields it has.
LEMMA CallFields ==
  ASSUME TypeOK, NEW c \in calls
  PROVE  /\ c \in Call
         /\ c.no \in 1..MaxCalls /\ c.op \in {"launch", "resume", "join"}
         /\ c.pc \in {"look", "init", "set", "apply", "ready"}
         /\ c.key \in Ids /\ c.since \in Ids /\ c.blind \subseteq Runners /\ c.n \in Ids
BY DEF TypeOK, Call

LEMMA SpawnType ==
  ASSUME TypeOK, NEW s \in Sessions, NEW id \in Ids, NEW op \in {"launch", "resume", "join"},
         NEW since \in Ids, NEW blind, Spawn(s, id, op, since, blind)
  PROVE  /\ spawned' = spawned + 1 /\ spawned' \in 1..MaxRunners /\ spawned' \in Runners
         /\ ch' \in [Runners -> Channel]
         /\ channels' \in [Ids -> Ids]
         /\ excused' \subseteq Runners \X Runners
<1>1. spawned' = spawned + 1 /\ spawned' \in 1..MaxRunners /\ spawned' \in Runners
  BY Bounds DEF TypeOK, Spawn, Runners
<1>2. ch' \in [Runners -> Channel]
  BY <1>1, Bounds DEF TypeOK, Spawn, Channel, KnowsAtOnce
<1>3. channels' \in [Ids -> Ids]
  BY <1>1, Bounds DEF TypeOK, Spawn
<1>4. excused' \subseteq Runners \X Runners
  <2>1. Spawned \subseteq Runners
    BY Bounds DEF TypeOK, Spawned, Runners
  <2>2. Unprevented(s, id, op, since, blind) \subseteq Runners
    BY <2>1 DEF Unprevented
  <2>3. excused' = excused \cup (Unprevented(s, id, op, since, blind) \X {spawned + 1})
    BY DEF Spawn
  <2> QED
    BY <1>1, <2>2, <2>3 DEF TypeOK
<1> QED
  BY <1>1, <1>2, <1>3, <1>4

LEMMA CreatedType ==
  ASSUME TypeOK, NEW id \in Ids, Created(id)
  PROVE  shown' \in {"none", "live", "exited"} /\ revived' \subseteq Runners
<1>1. Spawned \subseteq Runners
  BY Bounds DEF TypeOK, Spawned, Runners
<1> QED
  BY <1>1 DEF TypeOK, Created, ListedLive, Noted

LEMMA ResolvedType ==
  ASSUME TypeOK, NEW c \in calls, Resolved(c)
  PROVE  ch' \in [Runners -> Channel] /\ calls' \subseteq Call
<1>1. /\ [c EXCEPT !.pc = "set"] \in Call
      /\ [c EXCEPT !.pc = IF c.op = "join" THEN "ready" ELSE "apply"] \in Call
  BY CallFields DEF Call
<1>2. calls' \subseteq Call
  BY <1>1 DEF TypeOK, Resolved, Move
<1>3. ch' \in [Runners -> Channel]
  BY DEF TypeOK, Resolved, Channel
<1> QED
  BY <1>2, <1>3

LEMMA RejectedType ==
  ASSUME TypeOK, NEW n \in Runners, NEW e \in BOOLEAN, NEW missing, Rejected(n, e, missing)
  PROVE  /\ ch' \in [Runners -> Channel]
         /\ calls' \subseteq Call
         /\ row' \in [Sessions -> Row]
<1>1. \A c \in calls : [c EXCEPT !.pc = "apply"] \in Call
  BY CallFields DEF Call
<1>2. calls' \subseteq Call
  <2>1. Waiting(n) \subseteq calls
    BY DEF Waiting
  <2>2. calls' = (calls \ Waiting(n)) \cup {[c EXCEPT !.pc = "apply"] : c \in {d \in Waiting(n) : d.pc = "set"}}
    BY DEF Rejected, RejectedCalls
  <2> QED
    BY <1>1, <2>1, <2>2 DEF TypeOK
<1>3. ch' \in [Runners -> Channel]
  <2>1. ch[n] \in Channel
    BY DEF TypeOK
  <2>2. ch'[n] = [ch[n] EXCEPT !.req = "none",
                    !.process = IF e THEN "exited" ELSE @, !.exited = e \/ @,
                    !.ready = IF ch[n].req = "init" /\ ch[n].by # "join" THEN "failed" ELSE @]
    BY <2>1 DEF Rejected, TypeOK, Channel
  <2>3. ch'[n] \in Channel
    BY <2>1, <2>2 DEF Channel
  <2>4. DOMAIN ch' = Runners /\ \A m \in Runners : m # n => ch'[m] = ch[m]
    BY DEF Rejected, TypeOK
  <2>5. ch' = [m \in Runners |-> ch'[m]]
    BY DEF Rejected, TypeOK
  <2> QED
    BY <2>3, <2>4, <2>5 DEF TypeOK
<1>4. row' \in [Sessions -> Row]
  BY DEF TypeOK, Rejected, Row
<1> QED
  BY <1>2, <1>3, <1>4

LEMMA StartType ==
  ASSUME TypeOK, NEW op \in {"launch", "resume", "join"}, NEW pc \in {"init", "ready"},
         NEW key \in Ids, NEW n \in Ids, Start(op, pc, key, n)
  PROVE  started' \in 0..MaxCalls /\ calls' \subseteq Call
<1>1. started + 1 \in 1..MaxCalls
  BY Bounds DEF TypeOK, Start
<1> QED
  BY <1>1, Bounds DEF TypeOK, Start, Call

LEMMA LookType ==
  ASSUME TypeOK, NEW op \in {"resume", "join"}, NEW key \in Ids, Look(op, key)
  PROVE  started' \in 0..MaxCalls /\ calls' \subseteq Call
<1>1. started + 1 \in 1..MaxCalls /\ spawned \in Ids
  BY Bounds DEF TypeOK, Look, Ids
<1>2. {m \in Spawned : ch[m].by # "resume" /\ ~ch[m].known} \subseteq Runners
  BY Bounds DEF TypeOK, Spawned, Runners
<1> QED
  BY <1>1, <1>2, Bounds DEF TypeOK, Look, Call

\* The numbers there are.
LEMMA Numbers ==
  ASSUME IInv
  PROVE  /\ spawned \in Nat /\ Spawned \subseteq Runners /\ Runners \subseteq Nat
         /\ \A n \in Runners : /\ n # 0 /\ ch[n].id \in Ids /\ ch[n].sess \in Sessions
                               /\ n \in Spawned <=> n <= spawned
                               /\ ch[n].exited \in BOOLEAN
BY Bounds DEF IInv, TypeOK, Spawned, Runners, Channel

-----------------------------------------------------------------------------
(* Steps that start no process *)

\* What such a step does to the channels.
RunnersKept ==
  /\ spawned' = spawned /\ channels' = channels /\ excused' = excused
  /\ \A n \in Runners :
       /\ ch'[n].sess = ch[n].sess /\ ch'[n].id = ch[n].id /\ ch'[n].by = ch[n].by
       /\ ch'[n].process = "running" => ch[n].process = "running"

LEMMA KeptCall ==
  ASSUME IInv, RunnersKept, NEW c \in Call, CallSound(c)
  PROVE  CallSound(c)'
<1>1. \A m \in 1..spawned : m \in Runners
  BY Bounds DEF IInv, TypeOK, Runners
<1>2. c.pc = "look" => \A m \in 1..c.since : m \in Runners
  BY <1>1, Bounds DEF IInv, TypeOK, CallSound, Call, Ids
<1>3. c.pc = "look" /\ c.op = "resume" => ResumeLooked(c)'
  BY <1>2 DEF RunnersKept, CallSound, ResumeLooked, Running
<1>4. c.pc = "look" /\ c.op = "join" => JoinLooked(c)'
  BY <1>2 DEF RunnersKept, CallSound, JoinLooked, Running
<1>5. c.pc \in {"init", "set", "apply"} => ch'[c.n].by = c.op
  BY <1>1 DEF RunnersKept, CallSound
<1> QED
  BY <1>3, <1>4, <1>5 DEF RunnersKept, CallSound

LEMMA KeptFiled ==
  ASSUME IInv, RunnersKept
  PROVE  ChannelsFiled'
BY Bounds DEF IInv, TypeOK, RunnersKept, ChannelsFiled, Runners, Ids

LEMMA KeptOneProcess ==
  ASSUME IInv, RunnersKept
  PROVE  OneProcessPerSession'
<1>1. \A b \in Spawned : b \in Runners /\ \A a \in 1..(b - 1) : a \in Runners
  BY Bounds DEF IInv, TypeOK, Spawned, Runners
<1> QED
  BY <1>1 DEF IInv, RunnersKept, OneProcessPerSession, Running, Spawned

\* What a step may do to the list: it shows the entry as live where a process of it runs,
\* or notes that the process has exited.
ListedSoundly ==
  /\ revived \subseteq revived'
  /\ shown' = "live" =>
       \/ shown = "live"
       \/ \E m \in Runners : Running(m) /\ ch[m].id = Entry
       \/ \A m \in Spawned : m = channels[Entry] /\ ch[m].exited => m \in revived'

LEMMA UnlistedSound ==
  ASSUME UNCHANGED <<shown, revived>>
  PROVE  ListedSoundly
BY DEF ListedSoundly

LEMMA NotedSound ==
  ASSUME NEW id, ListedLive(id), Noted(id)
  PROVE  ListedSoundly
BY DEF ListedSoundly, ListedLive, Noted

LEMMA CreatedSound ==
  ASSUME NEW id, Created(id)
  PROVE  ListedSoundly
BY NotedSound, UnlistedSound DEF Created

\* A process that runs was started.
LEMMA RunningSpawned ==
  ASSUME IInv, NEW n \in Runners, Running(n)
  PROVE  n <= spawned /\ ~ch[n].exited
BY DEF Running, IInv, ChannelsSound, NoChannel, TypeOK, Runners, Channel

LEMMA EntryFiled ==
  ASSUME IInv, channels[Entry] # 0
  PROVE  /\ channels[Entry] \in Spawned /\ channels[Entry] \in Runners
         /\ ch[channels[Entry]].id = Entry
<1>1. channels[Entry] \in Nat
  BY Bounds DEF IInv, TypeOK, Ids
<1>2. channels[Entry] <= spawned /\ ch[channels[Entry]].id = Entry
  BY Bounds DEF IInv, ChannelsFiled
<1> QED
  BY <1>1, <1>2, Numbers DEF Spawned

\* The list keeps an exited channel listed as such.
LEMMA KeptClosed ==
  ASSUME IInv, RunnersKept, ListedSoundly,
         \A m \in Runners : ch'[m].exited /\ ch[m].id = Entry => ch[m].exited \/ shown' = "exited"
  PROVE  ClosedStaysClosed'
<1> DEFINE n == channels[Entry]
<1> SUFFICES ASSUME n # 0, ch'[n].exited, \A m \in Spawned : ch'[m].id = Entry => m = n,
                    shown' = "live"
             PROVE  n \in revived'
  BY DEF ClosedStaysClosed, RunnersKept, Spawned
<1>1. n \in Spawned /\ n \in Runners /\ ch[n].id = Entry
  BY EntryFiled
<1>2. ch[n].exited
  BY <1>1
<1>3. \A m \in Spawned : ch[m].id = Entry => m = n
  BY Numbers DEF RunnersKept
<1>4. CASE shown = "live"
  BY <1>2, <1>3, <1>4 DEF IInv, ClosedStaysClosed, ListedSoundly
<1>5. ASSUME NEW m \in Runners, Running(m), ch[m].id = Entry
      PROVE  FALSE
  BY <1>2, <1>3, <1>5, RunningSpawned, Numbers
<1> QED
  BY <1>1, <1>2, <1>4, <1>5 DEF ListedSoundly

LEMMA RespondStep ==
  ASSUME IInv, NEW n \in Runners, Respond(n)
  PROVE  IInv'
<1>1. PICK c \in Waiting(n) : Resolved(c)
  BY DEF Respond
<1>2. c \in calls /\ c.n = n /\ c.pc \in {"init", "set"} /\ ch[n].by = c.op
  BY <1>1 DEF Waiting, IInv, CallSound
<1>3. TypeOK'
  BY <1>1, <1>2, ResolvedType DEF IInv, TypeOK, Respond, listVars
<1>4. \A m \in Runners :
        /\ ch'[m].sess = ch[m].sess /\ ch'[m].id = ch[m].id /\ ch'[m].by = ch[m].by
        /\ ch'[m].process = ch[m].process /\ ch'[m].exited = ch[m].exited
        /\ ch'[m].known = ch[m].known /\ ch'[m].cmds = ch[m].cmds
        /\ m # n => ch'[m] = ch[m]
        /\ ch'[m].ready = ch[m].ready \/ (m = n /\ c.op = "launch")
  BY <1>1, <1>2 DEF IInv, TypeOK, Channel, Resolved, ReadyOnInit
<1>5. RunnersKept
  BY <1>4 DEF RunnersKept, Respond
<1>6. SessionsNumbered'
  BY <1>4 DEF IInv, SessionsNumbered, Respond
<1>7. ChannelsSound'
  <2>1. n <= spawned
    BY DEF Respond, Running, IInv, ChannelsSound, NoChannel, TypeOK, Runners
  <2> QED
    BY <1>2, <1>4, <2>1, Numbers DEF IInv, ChannelsSound, Respond
<1>8. \A d \in calls' : CallSound(d)'
  <2>1. \A d \in calls : CallSound(d)'
    BY <1>5, KeptCall, CallFields DEF IInv
  <2>2. ASSUME NEW d, d.n = c.n, d.op = c.op, d.pc # "look" PROVE CallSound(d)'
    BY <1>2, <1>4, <2>2 DEF IInv, CallSound, Respond
  <2>3. /\ CallSound([c EXCEPT !.pc = "set"])'
        /\ CallSound([c EXCEPT !.pc = IF c.op = "join" THEN "ready" ELSE "apply"])'
    BY <1>2, <2>2, CallFields DEF IInv, Call
  <2> QED
    BY <1>1, <2>1, <2>3 DEF Resolved, Move
<1>9. OneProcessPerSession' /\ ChannelsFiled'
  BY <1>5, KeptOneProcess, KeptFiled
<1>10. JoinSeesCommands' /\ ClosedStaysClosed'
  <2>1. ListedSoundly /\ bare' = bare
    BY UnlistedSound DEF Respond, listVars
  <2> QED
    BY <1>4, <1>5, <2>1, KeptClosed DEF IInv, JoinSeesCommands
<1> QED
  BY <1>3, <1>6, <1>7, <1>8, <1>9, <1>10 DEF IInv

\* What the rejection of a request does to the channels and the calls.
LEMMA RejectedKeeps ==
  ASSUME IInv, NEW n \in Runners, n <= spawned, NEW e \in BOOLEAN, NEW missing,
         Rejected(n, e, missing),
         spawned' = spawned, channels' = channels, excused' = excused
  PROVE  /\ RunnersKept
         /\ SessionsNumbered' /\ ChannelsSound'
         /\ \A c \in calls' : CallSound(c)'
         /\ \A m \in Runners : ch'[m].exited = (ch[m].exited \/ (m = n /\ e))
<1>1. \A m \in Runners :
        /\ ch'[m].sess = ch[m].sess /\ ch'[m].id = ch[m].id /\ ch'[m].by = ch[m].by
        /\ ch'[m].process = (IF m = n /\ e THEN "exited" ELSE ch[m].process)
        /\ ch'[m].exited = (ch[m].exited \/ (m = n /\ e))
        /\ ch'[m].known = ch[m].known /\ ch'[m].cmds = ch[m].cmds
        /\ m # n => ch'[m] = ch[m]
        /\ ch'[m].ready \in {ch[m].ready, "failed"}
  BY DEF IInv, TypeOK, Channel, Rejected
<1>2. RunnersKept
  BY <1>1 DEF RunnersKept
<1>3. SessionsNumbered'
  BY <1>1 DEF IInv, TypeOK, Row, SessionsNumbered, Rejected
<1>4. ChannelsSound'
  BY <1>1, Numbers DEF IInv, ChannelsSound
<1>5. \A c \in calls' : CallSound(c)'
  <2>1. \A c \in calls : CallSound(c)'
    BY <1>2, KeptCall, CallFields DEF IInv
  <2>2. ASSUME NEW c \in calls, c.pc = "set" PROVE CallSound([c EXCEPT !.pc = "apply"])'
    BY <1>1, <2>1, <2>2, CallFields DEF IInv, Call, CallSound
  <2>3. \A c \in calls' : c \in calls \/ \E d \in calls : d.pc = "set" /\ c = [d EXCEPT !.pc = "apply"]
    BY DEF Rejected, RejectedCalls, Waiting
  <2> QED
    BY <2>1, <2>2, <2>3
<1> QED
  BY <1>1, <1>2, <1>3, <1>4, <1>5

LEMMA TimeoutStep ==
  ASSUME IInv, NEW n \in Runners, Timeout(n)
  PROVE  IInv'
<1>1. n <= spawned
  BY Bounds DEF Timeout, Spawned, IInv, TypeOK
<1>2. TypeOK'
  BY RejectedType DEF IInv, TypeOK, Timeout, listVars
<1>3. /\ RunnersKept /\ SessionsNumbered' /\ ChannelsSound' /\ \A c \in calls' : CallSound(c)'
      /\ \A m \in Runners : ch'[m].exited = ch[m].exited
  <2>1. \A m \in Runners : ch[m].exited \in BOOLEAN
    BY DEF IInv, TypeOK, Channel
  <2> QED
    BY <1>1, <2>1, RejectedKeeps DEF Timeout
<1>4. OneProcessPerSession' /\ ChannelsFiled'
  BY <1>3, KeptOneProcess, KeptFiled
<1>5. JoinSeesCommands' /\ ClosedStaysClosed'
  <2>1. ListedSoundly /\ bare' = bare
    BY UnlistedSound DEF Timeout, listVars
  <2> QED
    BY <1>3, <2>1, KeptClosed DEF IInv, JoinSeesCommands
<1> QED
  BY <1>2, <1>3, <1>4, <1>5 DEF IInv

LEMMA ExitStep ==
  ASSUME IInv, NEW n \in Runners, Exit(n)
  PROVE  IInv'
<1>1. n <= spawned
  BY RunningSpawned DEF Exit
<1>2. CASE ch[n].bound
  <2>1. Rejected(n, TRUE, gone /\ ch[n].sess = 0)
        /\ shown' = (IF ch[n].id = Entry THEN "exited" ELSE shown)
        /\ UNCHANGED <<spawned, channels, gone, started, lists, titles, revived, excused, bare>>
    BY <1>2 DEF Exit
  <2>2. TypeOK'
    BY <2>1, RejectedType DEF IInv, TypeOK
  <2>3. /\ RunnersKept /\ SessionsNumbered' /\ ChannelsSound' /\ \A c \in calls' : CallSound(c)'
        /\ \A m \in Runners : ch'[m].exited = (ch[m].exited \/ m = n)
    BY <1>1, <2>1, RejectedKeeps
  <2>4. OneProcessPerSession' /\ ChannelsFiled'
    BY <2>3, KeptOneProcess, KeptFiled
  <2>5. JoinSeesCommands'
    BY <2>1 DEF IInv, JoinSeesCommands
  <2>6. ClosedStaysClosed'
    <3>1. ListedSoundly /\ (ch[n].id = Entry => shown' = "exited")
      BY <2>1 DEF ListedSoundly
    <3> QED
      BY <2>3, <3>1, KeptClosed
  <2> QED
    BY <2>2, <2>3, <2>4, <2>5, <2>6 DEF IInv
<1>3. CASE ~ch[n].bound
  <2>1. ch' = [ch EXCEPT ![n].process = "exited"]
        /\ UNCHANGED <<calls, row, shown, spawned, channels, gone, started, lists, titles, revived,
                       excused, bare>>
    BY <1>3 DEF Exit
  <2>2. TypeOK'
    <3>0. ch[n] \in Channel
      BY DEF IInv, TypeOK
    <3>1. [ch[n] EXCEPT !.process = "exited"] \in Channel
      BY <3>0 DEF Channel
    <3>2. ch' = [ch EXCEPT ![n] = [@ EXCEPT !.process = "exited"]]
      BY <2>1
    <3>3. ch' \in [Runners -> Channel]
      BY <3>1, <3>2 DEF IInv, TypeOK
    <3> QED
      BY <2>1, <3>3 DEF IInv, TypeOK
  <2>3. \A m \in Runners :
          /\ ch'[m].sess = ch[m].sess /\ ch'[m].id = ch[m].id /\ ch'[m].by = ch[m].by
          /\ ch'[m].process = (IF m = n THEN "exited" ELSE ch[m].process)
          /\ ch'[m].exited = ch[m].exited
          /\ ch'[m].known = ch[m].known /\ ch'[m].cmds = ch[m].cmds
          /\ m # n => ch'[m] = ch[m]
          /\ ch'[m].ready = ch[m].ready
    BY <2>1 DEF IInv, TypeOK, Channel
  <2>4. RunnersKept
    BY <2>1, <2>3 DEF RunnersKept
  <2>5. SessionsNumbered' /\ ChannelsSound'
    BY <1>1, <2>1, <2>3, Numbers DEF IInv, SessionsNumbered, ChannelsSound
  <2>6. \A c \in calls' : CallSound(c)'
    BY <2>1, <2>4, KeptCall, CallFields DEF IInv
  <2>7. OneProcessPerSession' /\ ChannelsFiled'
    BY <2>4, KeptOneProcess, KeptFiled
  <2>8. JoinSeesCommands' /\ ClosedStaysClosed'
    BY <2>1, <2>3, <2>4, KeptClosed, UnlistedSound DEF IInv, JoinSeesCommands
  <2> QED
    BY <2>2, <2>5, <2>6, <2>7, <2>8 DEF IInv
<1> QED
  BY <1>2, <1>3

LEMMA SessionInitStep ==
  ASSUME IInv, NEW n \in Runners, SessionInit(n)
  PROVE  IInv'
<1>1. n <= spawned /\ ~ch[n].exited
  BY RunningSpawned DEF SessionInit
<1>2. TypeOK'
  <2>0. ch[n] \in Channel
    BY DEF IInv, TypeOK
  <2>1. [ch[n] EXCEPT !.known = TRUE] \in Channel
    BY <2>0 DEF Channel
  <2>2. ch' = [ch EXCEPT ![n] = [@ EXCEPT !.known = TRUE]]
    BY DEF SessionInit
  <2>3. ch' \in [Runners -> Channel]
    BY <2>1, <2>2 DEF IInv, TypeOK
  <2>4. row' \in [Sessions -> Row]
    BY Numbers DEF IInv, TypeOK, SessionInit, Row
  <2> QED
    BY <2>3, <2>4 DEF IInv, TypeOK, SessionInit, ListedLive
<1>3. \A m \in Runners :
        /\ ch'[m].sess = ch[m].sess /\ ch'[m].id = ch[m].id /\ ch'[m].by = ch[m].by
        /\ ch'[m].process = ch[m].process /\ ch'[m].exited = ch[m].exited
        /\ ch'[m].cmds = ch[m].cmds /\ ch'[m].ready = ch[m].ready
        /\ m # n => ch'[m] = ch[m]
        /\ m = n => ch'[m].known
  BY DEF IInv, TypeOK, Channel, SessionInit
<1>4. RunnersKept
  BY <1>3 DEF RunnersKept, SessionInit
<1>5. SessionsNumbered'
  BY <1>1, <1>3, Numbers DEF IInv, TypeOK, SessionsNumbered, SessionInit
<1>6. ChannelsSound'
  BY <1>1, <1>3, Numbers DEF IInv, ChannelsSound, SessionInit
<1>7. \A c \in calls' : CallSound(c)'
  BY <1>4, KeptCall, CallFields DEF IInv, SessionInit
<1>8. OneProcessPerSession' /\ ChannelsFiled'
  BY <1>4, KeptOneProcess, KeptFiled
<1>9. JoinSeesCommands'
  BY DEF IInv, JoinSeesCommands, SessionInit
<1>10. ClosedStaysClosed'
  <2>1. ListedSoundly
    BY DEF SessionInit, ListedLive, ListedSoundly
  <2> QED
    BY <1>3, <1>4, <2>1, KeptClosed
<1> QED
  BY <1>2, <1>5, <1>6, <1>7, <1>8, <1>9, <1>10 DEF IInv

LEMMA UnbindStep ==
  ASSUME IInv, NEW n \in Runners, Unbind(n)
  PROVE  IInv'
<1>1. n <= spawned
  BY RunningSpawned DEF Unbind
<1>2. TypeOK'
  <2>0. ch[n] \in Channel
    BY DEF IInv, TypeOK
  <2>1. [ch[n] EXCEPT !.bound = FALSE] \in Channel
    BY <2>0 DEF Channel
  <2>2. ch' = [ch EXCEPT ![n] = [@ EXCEPT !.bound = FALSE]]
    BY DEF Unbind
  <2>3. ch' \in [Runners -> Channel]
    BY <2>1, <2>2 DEF IInv, TypeOK
  <2> QED
    BY <2>3 DEF IInv, TypeOK, Unbind, listVars
<1>3. \A m \in Runners :
        /\ ch'[m].sess = ch[m].sess /\ ch'[m].id = ch[m].id /\ ch'[m].by = ch[m].by
        /\ ch'[m].process = ch[m].process /\ ch'[m].exited = ch[m].exited
        /\ ch'[m].cmds = ch[m].cmds /\ ch'[m].ready = ch[m].ready /\ ch'[m].known = ch[m].known
        /\ m # n => ch'[m] = ch[m]
  BY DEF IInv, TypeOK, Channel, Unbind
<1>4. RunnersKept
  BY <1>3 DEF RunnersKept, Unbind
<1>5. SessionsNumbered' /\ ChannelsSound'
  BY <1>1, <1>3, Numbers DEF IInv, SessionsNumbered, ChannelsSound, Unbind
<1>6. \A c \in calls' : CallSound(c)'
  BY <1>4, KeptCall, CallFields DEF IInv, Unbind
<1>7. OneProcessPerSession' /\ ChannelsFiled'
  BY <1>4, KeptOneProcess, KeptFiled
<1>8. JoinSeesCommands' /\ ClosedStaysClosed'
  <2>1. ListedSoundly /\ bare' = bare
    BY UnlistedSound DEF Unbind, listVars
  <2> QED
    BY <1>3, <1>4, <2>1, KeptClosed DEF IInv, JoinSeesCommands
<1> QED
  BY <1>2, <1>5, <1>6, <1>7, <1>8 DEF IInv

\* A step that leaves the channels as they are.
LEMMA SameChannels ==
  ASSUME IInv, TypeOK', UNCHANGED <<spawned, ch, channels, row, excused, bare>>, ListedSoundly,
         \A c \in calls' : c \in calls \/ CallSound(c)
  PROVE  IInv'
<1>1. RunnersKept
  BY DEF RunnersKept
<1>2. \A c \in calls' : CallSound(c)'
  BY <1>1, KeptCall DEF IInv, TypeOK
<1>3. OneProcessPerSession' /\ ChannelsFiled'
  BY <1>1, KeptOneProcess, KeptFiled
<1>4. SessionsNumbered' /\ ChannelsSound' /\ JoinSeesCommands'
  BY DEF IInv, SessionsNumbered, ChannelsSound, JoinSeesCommands
<1>5. ClosedStaysClosed'
  BY <1>1, KeptClosed
<1> QED
  BY <1>2, <1>3, <1>4, <1>5 DEF IInv

\* A resume that found no live process of its session.
LEMMA ResumeStep ==
  ASSUME IInv, NEW s \in Sessions, Resume(s)
  PROVE  IInv'
<1>1. CASE LiveOf(s) # {}
  <2>1. TypeOK'
    BY <1>1, Bounds DEF IInv, TypeOK, Resume, listVars
  <2> QED
    BY <1>1, <2>1, SameChannels, UnlistedSound DEF Resume, listVars
<1>2. CASE LiveOf(s) = {}
  <2> DEFINE blind == {m \in Spawned : ch[m].by # "resume" /\ ~ch[m].known}
             d == [no |-> started + 1, op |-> "resume", pc |-> "look", key |-> s,
                   since |-> spawned, n |-> 0, blind |-> blind]
  <2>1. Look("resume", s) /\ calls' = calls \cup {d}
    BY <1>2 DEF Resume, Look
  <2>2. TypeOK'
    BY <2>1, LookType, Bounds DEF IInv, TypeOK, Resume, listVars
  <2>3. s <= spawned
    BY DEF Resume, IInv, SessionsNumbered
  <2>4. ASSUME NEW m \in 1..spawned, Running(m), ch[m].sess = s, channels[ch[m].id] = m
        PROVE  m \in blind
    <3>1. m \in Runners /\ m \in Spawned /\ m # 0 /\ ~ch[m].exited
      BY <2>4, RunningSpawned, Numbers DEF Spawned
    <3>2. ~ch[m].known
      BY <1>2, <2>4, <3>1 DEF LiveOf, Alive
    <3> QED
      BY <3>1, <3>2 DEF IInv, ChannelsSound
  <2>5. CallSound(d)
    BY <2>3, <2>4, Numbers DEF CallSound, ResumeLooked
  <2> QED
    BY <2>1, <2>2, <2>5, SameChannels, UnlistedSound DEF Resume, listVars
<1> QED
  BY <1>1, <1>2

\* A join that found no live channel of the id.
LEMMA JoinStep ==
  ASSUME IInv, NEW id \in Ids, Join(id)
  PROVE  IInv'
<1>1. channels[id] \in Ids
  BY DEF IInv, TypeOK
<1>2. CASE Alive(channels[id])
  <2>1. Start("join", "ready", id, channels[id])
    BY <1>2 DEF Join
  <2>2. TypeOK'
    BY <1>1, <2>1, StartType DEF IInv, TypeOK, Join, listVars
  <2>3. channels[id] \in 1..spawned
    BY <1>1, <1>2, Numbers DEF Alive, IInv, ChannelsFiled, Ids
  <2>4. \A c \in calls' : c \in calls \/ CallSound(c)
    BY <2>1, <2>3 DEF Start, CallSound
  <2> QED
    BY <2>2, <2>4, SameChannels, UnlistedSound DEF Join, listVars
<1>3. CASE ~Alive(channels[id])
  <2> DEFINE blind == {m \in Spawned : ch[m].by # "resume" /\ ~ch[m].known}
             d == [no |-> started + 1, op |-> "join", pc |-> "look", key |-> id,
                   since |-> spawned, n |-> 0, blind |-> blind]
  <2>1. Look("join", id) /\ calls' = calls \cup {d}
    BY <1>3 DEF Join, Look
  <2>2. TypeOK'
    BY <2>1, LookType, Bounds DEF IInv, TypeOK, Join, listVars
  <2>3. ASSUME NEW m \in 1..spawned, Running(m)
        PROVE  channels[id] # m
    <3>1. m \in Runners /\ m # 0 /\ ~ch[m].exited
      BY <2>3, RunningSpawned, Numbers DEF Spawned
    <3> QED
      BY <1>3, <3>1 DEF Alive
  <2>4. CallSound(d)
    BY <2>3, Numbers DEF CallSound, JoinLooked
  <2> QED
    BY <2>1, <2>2, <2>4, SameChannels, UnlistedSound DEF Join, listVars
<1> QED
  BY <1>2, <1>3

-----------------------------------------------------------------------------
(* Steps that start a process *)

\* A process is started for a session of which every process that runs is one the code
\* is known to overlook.
LEMMA SpawnKeeps ==
  ASSUME IInv, NEW s \in Sessions, s <= spawned + 1, NEW id \in Ids,
         NEW op \in {"launch", "resume", "join"}, NEW since \in Ids, NEW blind,
         Spawn(s, id, op, since, blind),
         \A m \in Spawned : Running(m) /\ ch[m].sess = s => m \in Unprevented(s, id, op, since, blind),
         row' = row, ListedSoundly
  PROVE  /\ SessionsNumbered' /\ ChannelsSound' /\ ChannelsFiled'
         /\ OneProcessPerSession' /\ ClosedStaysClosed'
         /\ \A c \in Call : CallSound(c) => CallSound(c)'
         /\ \A c \in Call : c.n = spawned + 1 /\ c.op = op /\ c.pc = "init" => CallSound(c)'
<1> DEFINE n == spawned + 1
<1>1. /\ spawned' = n /\ n \in Nat /\ n \in Runners /\ n \in Ids /\ n # 0
      /\ channels' = [channels EXCEPT ![id] = n]
      /\ channels \in [Ids -> Ids]
      /\ excused' = excused \cup (Unprevented(s, id, op, since, blind) \X {n})
      /\ \A m \in Runners : m <= spawned => m \in Spawned /\ m # n
  <2>1. spawned' = n /\ n \in Nat /\ n \in Runners /\ n \in Ids /\ n # 0
    BY SpawnType, Numbers, Bounds DEF IInv
  <2>2. /\ channels' = [channels EXCEPT ![id] = n]
        /\ channels \in [Ids -> Ids]
        /\ excused' = excused \cup (Unprevented(s, id, op, since, blind) \X {n})
    BY DEF IInv, TypeOK, Spawn
  <2>3. \A m \in Runners : m <= spawned => m \in Spawned /\ m # n
    BY Numbers
  <2> QED
    BY <2>1, <2>2, <2>3
<1>2. /\ ch'[n].sess = s /\ ch'[n].id = id /\ ch'[n].by = op /\ ~ch'[n].exited
      /\ ch'[n].process = "running"
      /\ op = "resume" => ch'[n].known /\ ch'[n].ready = "pending"
      /\ \A m \in Runners : m # n => ch'[m] = ch[m]
  BY <1>1 DEF Spawn, KnowsAtOnce, IInv, TypeOK
<1> HIDE DEF n
<1>3. SessionsNumbered'
  <2>1. ASSUME NEW m \in Runners PROVE ch'[m].sess <= n
    <3>1. m # n => ch[m].sess <= spawned /\ ch[m].sess \in Nat
      BY Numbers, Bounds DEF IInv, SessionsNumbered, Sessions
    <3> QED
      BY <1>1, <1>2, <3>1, Numbers DEF n
  <2>2. ASSUME NEW x \in Sessions, row[x].status # "none" PROVE x <= n
    BY <2>2, Numbers DEF IInv, SessionsNumbered, Sessions, n
  <2> QED
    BY <1>1, <2>1, <2>2 DEF SessionsNumbered
<1>4. ChannelsSound'
  <2> SUFFICES ASSUME NEW m \in Runners
               PROVE  /\ m > n => ch'[m] = NoChannel
                      /\ ch'[m].exited => ch'[m].process = "exited"
                      /\ ch'[m].by = "resume" => ch'[m].known
                      /\ ch'[m].by = "resume" /\ ch'[m].ready = "ok" => ch'[m].cmds
    BY <1>1 DEF ChannelsSound
  <2>1. CASE m = n
    BY <1>1, <1>2, <2>1
  <2>2. CASE m # n
    <3>1. m > n => m > spawned
      BY Numbers DEF n
    <3> QED
      BY <1>2, <2>2, <3>1 DEF IInv, ChannelsSound
  <2> QED
    BY <2>1, <2>2
<1>5. ChannelsFiled'
  <2> SUFFICES ASSUME NEW x \in Ids, channels'[x] # 0
               PROVE  channels'[x] <= spawned' /\ ch'[channels'[x]].id = x
    BY DEF ChannelsFiled
  <2>1. CASE x = id
    BY <1>1, <1>2, <2>1
  <2>2. CASE x # id
    <3>1. channels'[x] = channels[x] /\ channels[x] <= spawned /\ ch[channels[x]].id = x
      BY <1>1, <2>2 DEF IInv, ChannelsFiled
    <3>2. channels[x] \in Runners
      BY <1>1, <3>1, Numbers DEF Ids, Runners, IInv, TypeOK
    <3> QED
      BY <1>1, <1>2, <3>1, <3>2, Numbers DEF n
  <2> QED
    BY <2>1, <2>2
<1>6. OneProcessPerSession'
  <2> SUFFICES ASSUME NEW b \in 1..n, NEW a \in 1..(b - 1),
                      Running(a)', Running(b)', ch'[a].sess = ch'[b].sess
               PROVE  <<a, b>> \in excused'
    BY <1>1 DEF OneProcessPerSession, Spawned
  <2>1. a \in Spawned /\ a \in Runners /\ b \in Runners /\ a # n /\ (b = n \/ b \in Spawned)
    BY <1>1, Numbers DEF Spawned, Runners, n
  <2>2. Running(a) /\ ch[a].sess = ch'[a].sess
    BY <1>2, <2>1 DEF Running
  <2>3. CASE b = n
    BY <1>1, <1>2, <2>1, <2>2, <2>3
  <2>4. CASE b # n
    BY <1>1, <1>2, <2>1, <2>2, <2>4 DEF IInv, OneProcessPerSession, Running
  <2> QED
    BY <2>3, <2>4
<1>7. ClosedStaysClosed'
  <2> SUFFICES ASSUME channels'[Entry] # 0, ch'[channels'[Entry]].exited,
                      \A m \in Spawned' : ch'[m].id = Entry => m = channels'[Entry],
                      shown' = "live"
               PROVE  channels'[Entry] \in revived'
    BY DEF ClosedStaysClosed
  <2>1. Entry # id /\ channels'[Entry] = channels[Entry] /\ channels[Entry] # n
    BY <1>1, <1>2, Bounds
  <2>2. channels[Entry] \in Runners /\ channels[Entry] \in Spawned
    BY <2>1, EntryFiled
  <2>3. \A m \in Spawned : m \in Spawned' /\ m \in Runners /\ ch'[m] = ch[m]
    BY <1>1, <1>2, Numbers DEF Spawned, n
  <2>4. ch[channels[Entry]].exited /\ \A m \in Spawned : ch[m].id = Entry => m = channels[Entry]
    BY <1>2, <2>1, <2>2, <2>3
  <2>5. CASE shown = "live"
    BY <2>1, <2>4, <2>5 DEF IInv, ClosedStaysClosed, ListedSoundly
  <2>6. ASSUME NEW m \in Runners, Running(m), ch[m].id = Entry
        PROVE  FALSE
    BY <2>4, <2>6, RunningSpawned, Numbers
  <2> QED
    BY <2>1, <2>2, <2>4, <2>5, <2>6 DEF ListedSoundly
<1>8. ASSUME NEW c \in Call, CallSound(c)
      PROVE  CallSound(c)'
  <2>1. \A m \in 1..spawned : m \in Runners /\ m # n /\ ch'[m] = ch[m]
    BY <1>1, <1>2, Numbers DEF Spawned, n
  <2>2. c.pc = "look" => \A m \in 1..c.since : m \in 1..spawned
    BY <1>8, Numbers DEF CallSound, Call, Ids
  <2>3. c.pc = "look" /\ c.op = "resume" => ResumeLooked(c)'
    <3> SUFFICES ASSUME c.pc = "look", c.op = "resume"
                 PROVE  ResumeLooked(c)'
      OBVIOUS
    <3>1. c.key <= n
      BY <1>1, <1>8, Numbers DEF CallSound, ResumeLooked, Call, Ids, n
    <3>2. ASSUME NEW m \in 1..c.since, Running(m)', ch'[m].sess = c.key, channels'[ch'[m].id] = m
          PROVE  m \in c.blind
      <4>1. m \in 1..spawned /\ ch'[m] = ch[m] /\ m # n /\ ch[m].id \in Ids
        BY <2>1, <2>2, Numbers
      <4>2. channels[ch[m].id] = m
        BY <1>1, <3>2, <4>1
      <4> QED
        BY <1>8, <3>2, <4>1, <4>2 DEF CallSound, ResumeLooked, Running
    <3> QED
      BY <1>1, <3>1, <3>2 DEF ResumeLooked
  <2>4. c.pc = "look" /\ c.op = "join" => JoinLooked(c)'
    <3> SUFFICES ASSUME c.pc = "look", c.op = "join",
                        NEW m \in 1..c.since, Running(m)', ch'[m].id = c.key
                 PROVE  channels'[c.key] # m
      BY DEF JoinLooked
    <3>1. m \in 1..spawned /\ ch'[m] = ch[m] /\ m # n /\ c.key \in Ids
      BY <2>1, <2>2 DEF Call
    <3> QED
      BY <1>1, <1>8, <3>1 DEF CallSound, JoinLooked, Running
  <2>5. c.pc = "look" => c.since <= spawned'
    BY <1>1, <1>8, Numbers DEF CallSound, Call, Ids, n
  <2>6. c.pc # "look" => c.n \in 1..spawned' /\ c.n \in 1..spawned
    BY <1>1, <1>8, Numbers DEF CallSound, n
  <2>7. c.pc \in {"init", "set", "apply"} => ch'[c.n].by = c.op
    BY <1>8, <2>1, <2>6 DEF CallSound
  <2> QED
    BY <2>3, <2>4, <2>5, <2>6, <2>7 DEF CallSound
<1>9. ASSUME NEW c \in Call, c.n = spawned + 1, c.op = op, c.pc = "init"
      PROVE  CallSound(c)'
  BY <1>1, <1>2, <1>9 DEF CallSound, n
<1> QED
  BY <1>3, <1>4, <1>5, <1>6, <1>7, <1>8, <1>9

LEMMA LaunchStep ==
  ASSUME IInv, Launch
  PROVE  IInv'
<1> DEFINE n == spawned + 1
           d == [no |-> started + 1, op |-> "launch", pc |-> "init", key |-> 0,
                 since |-> 0, blind |-> {}, n |-> n]
<1>1. Start("launch", "init", 0, n) /\ Spawn(n, n, "launch", spawned, {})
      /\ UNCHANGED <<row, gone, shown, lists, titles, revived, bare>>
  BY DEF Launch, listVars
<1>2. n \in Nat /\ n \in Ids /\ n \in Sessions /\ spawned \in Ids
  BY <1>1, Numbers, Bounds DEF Spawn, Ids, IInv, TypeOK
<1>3. TypeOK'
  <2>1. /\ spawned' \in 1..MaxRunners /\ ch' \in [Runners -> Channel]
        /\ channels' \in [Ids -> Ids] /\ excused' \subseteq Runners \X Runners
    BY <1>1, <1>2, SpawnType DEF IInv
  <2>2. started' \in 0..MaxCalls /\ calls' \subseteq Call
    BY <1>1, <1>2, StartType, Bounds DEF IInv
  <2> QED
    BY <1>1, <2>1, <2>2, Bounds DEF IInv, TypeOK
<1>4. \A m \in Spawned : ch[m].sess # n
  BY Numbers DEF IInv, SessionsNumbered, Sessions
<1>5. /\ SessionsNumbered' /\ ChannelsSound' /\ ChannelsFiled'
      /\ OneProcessPerSession' /\ ClosedStaysClosed'
      /\ \A c \in Call : CallSound(c) => CallSound(c)'
      /\ \A c \in Call : c.n = n /\ c.op = "launch" /\ c.pc = "init" => CallSound(c)'
  BY <1>1, <1>2, <1>4, SpawnKeeps, UnlistedSound
<1>6. \A c \in calls' : CallSound(c)'
  <2>1. calls' = calls \cup {d}
    BY <1>1 DEF Start
  <2>2. \A e \in calls' : e \in calls \/ (e.n = n /\ e.op = "launch" /\ e.pc = "init")
    BY <2>1
  <2> QED
    BY <1>3, <1>5, <2>2 DEF IInv, TypeOK
<1> QED
  BY <1>1, <1>3, <1>5, <1>6 DEF IInv, JoinSeesCommands

\* The call that waits for the process it has started.
LEMMA MovedToInit ==
  ASSUME IInv, NEW c \in calls, spawned + 1 \in Ids
  PROVE  LET d == [c EXCEPT !.pc = "init", !.n = spawned + 1, !.since = 0, !.blind = {}]
         IN  d \in Call /\ d.n = spawned + 1 /\ d.op = c.op /\ d.pc = "init"
<1> DEFINE d == [c EXCEPT !.pc = "init", !.n = spawned + 1, !.since = 0, !.blind = {}]
<1>1. c \in Call /\ 0 \in Ids
  BY CallFields, Bounds DEF IInv
<1>2. d \in Call /\ d.n = spawned + 1 /\ d.op = c.op /\ d.pc = "init"
  BY <1>1 DEF Call
<1> QED
  BY <1>2

LEMMA ResumeCreateStep ==
  ASSUME IInv, NEW c \in calls, ResumeCreate(c)
  PROVE  IInv'
<1> DEFINE n == spawned + 1
           d == [c EXCEPT !.pc = "init", !.n = n, !.since = 0, !.blind = {}]
<1>1. /\ c.op = "resume" /\ c.pc = "look" /\ Move(c, d)
      /\ Spawn(c.key, n, "resume", c.since, c.blind) /\ Created(n)
      /\ UNCHANGED <<row, gone, started, lists, titles, bare>>
  BY DEF ResumeCreate
<1>2. /\ c.key \in Sessions /\ c.since \in Ids /\ CallSound(c)
      /\ c.key <= spawned /\ ResumeLooked(c)
  BY <1>1, CallFields, Bounds DEF IInv, CallSound, ResumeLooked
<1>3. n \in Nat /\ n \in Ids /\ n \in Sessions
  BY <1>1, Numbers, Bounds DEF Spawn, Ids
<1>4. d \in Call /\ d.n = n /\ d.op = "resume" /\ d.pc = "init"
  BY <1>1, <1>3, MovedToInit
<1> HIDE DEF d
<1>5. TypeOK'
  <2>1. /\ spawned' \in 1..MaxRunners /\ ch' \in [Runners -> Channel]
        /\ channels' \in [Ids -> Ids] /\ excused' \subseteq Runners \X Runners
    BY <1>1, <1>2, <1>3, SpawnType DEF IInv
  <2>2. shown' \in {"none", "live", "exited"} /\ revived' \subseteq Runners
    BY <1>1, <1>3, CreatedType DEF IInv
  <2>3. calls' \subseteq Call
    BY <1>1, <1>4 DEF Move, IInv, TypeOK
  <2> QED
    BY <1>1, <2>1, <2>2, <2>3, Bounds DEF IInv, TypeOK
<1>6. ASSUME NEW m \in Spawned, Running(m), ch[m].sess = c.key
      PROVE  m \in Unprevented(c.key, n, "resume", c.since, c.blind)
  <2>1. CASE m > c.since
    BY <1>6, <2>1 DEF Unprevented
  <2>2. CASE m \in 1..c.since
    BY <1>2, <1>6, <2>2 DEF Unprevented, ResumeLooked
  <2> QED
    BY <1>2, <2>1, <2>2, Numbers DEF Ids
<1>7. ListedSoundly
  BY <1>1, CreatedSound
<1>8. /\ SessionsNumbered' /\ ChannelsSound' /\ ChannelsFiled'
      /\ OneProcessPerSession' /\ ClosedStaysClosed'
      /\ \A e \in Call : CallSound(e) => CallSound(e)'
      /\ \A e \in Call : e.n = n /\ e.op = "resume" /\ e.pc = "init" => CallSound(e)'
  <2>1. c.key <= spawned + 1
    BY <1>2, Numbers DEF Sessions
  <2> QED
    BY <1>1, <1>2, <1>3, <1>6, <1>7, <2>1, SpawnKeeps
<1>9. \A e \in calls' : CallSound(e)'
  <2>1. \A e \in calls' : e \in calls \/ (e.n = n /\ e.op = "resume" /\ e.pc = "init")
    BY <1>1, <1>4 DEF Move
  <2> QED
    BY <1>5, <1>8, <2>1 DEF IInv, TypeOK
<1> QED
  BY <1>1, <1>5, <1>8, <1>9 DEF IInv, JoinSeesCommands

LEMMA JoinRestoreStep ==
  ASSUME IInv, NEW c \in calls, JoinRestore(c)
  PROVE  IInv'
<1>1. /\ c.op = "join" /\ c.pc = "look"
      /\ UNCHANGED <<row, gone, started, shown, lists, titles, revived, bare>>
  BY DEF JoinRestore, listVars
<1>2. CASE Answer(c) /\ UNCHANGED <<spawned, ch, channels, excused>>
  <2>1. calls' = calls \ {c}
    BY <1>2 DEF Answer
  <2>2. TypeOK'
    BY <1>1, <1>2, <2>1 DEF IInv, TypeOK
  <2> QED
    BY <1>1, <1>2, <2>1, <2>2, SameChannels, UnlistedSound
<1>3. ASSUME NEW s \in SessionsOf(c.key), row[s].status # "none",
             Spawn(s, c.key, "join", c.since, c.blind),
             Move(c, [c EXCEPT !.pc = "init", !.n = spawned + 1, !.since = 0, !.blind = {}])
      PROVE  IInv'
  <2> DEFINE n == spawned + 1
             d == [c EXCEPT !.pc = "init", !.n = n, !.since = 0, !.blind = {}]
  <2>1. /\ c.key \in Ids /\ c.since \in Ids /\ CallSound(c) /\ JoinLooked(c)
    BY <1>1, CallFields DEF IInv, CallSound
  <2>2. s \in Sessions /\ s <= spawned
    <3>1. s \in Sessions
      <4>1. CASE channels[c.key] # 0 /\ ch[channels[c.key]].known
        <5>1. channels[c.key] \in Nat /\ channels[c.key] <= spawned
          BY <2>1, <4>1, Bounds DEF IInv, TypeOK, ChannelsFiled, Ids
        <5>2. channels[c.key] \in Runners
          BY <4>1, <5>1, Numbers DEF Spawned
        <5> QED
          BY <1>3, <4>1, <5>2, Numbers DEF SessionsOf
      <4> QED
        BY <1>3, <4>1 DEF SessionsOf
    <3> QED
      BY <1>3, <3>1 DEF IInv, SessionsNumbered
  <2>3. n \in Nat /\ n \in Ids
    BY <1>3, Numbers, Bounds DEF Spawn, Ids
  <2>4. d \in Call /\ d.n = n /\ d.op = "join" /\ d.pc = "init"
    BY <1>1, <2>3, MovedToInit
  <2>5. Move(c, d)
    BY <1>3
  <2> HIDE DEF d
  <2>6. TypeOK'
    <3>1. /\ spawned' \in 1..MaxRunners /\ ch' \in [Runners -> Channel]
          /\ channels' \in [Ids -> Ids] /\ excused' \subseteq Runners \X Runners
      BY <1>3, <2>1, <2>2, SpawnType DEF IInv
    <3>2. calls' \subseteq Call
      BY <2>4, <2>5 DEF Move, IInv, TypeOK
    <3> QED
      BY <1>1, <3>1, <3>2, Bounds DEF IInv, TypeOK
  <2>7. ASSUME NEW m \in Spawned, Running(m), ch[m].sess = s
        PROVE  m \in Unprevented(s, c.key, "join", c.since, c.blind)
    <3>1. CASE m > c.since
      BY <2>7, <3>1 DEF Unprevented
    <3>2. CASE m \in 1..c.since
      BY <2>1, <2>7, <3>2 DEF Unprevented, JoinLooked
    <3> QED
      BY <2>1, <3>1, <3>2, Numbers DEF Ids
  <2>8. /\ SessionsNumbered' /\ ChannelsSound' /\ ChannelsFiled'
        /\ OneProcessPerSession' /\ ClosedStaysClosed'
        /\ \A e \in Call : CallSound(e) => CallSound(e)'
        /\ \A e \in Call : e.n = n /\ e.op = "join" /\ e.pc = "init" => CallSound(e)'
    <3>1. s <= spawned + 1
      BY <2>2, Numbers DEF Sessions
    <3> QED
      BY <1>1, <1>3, <2>1, <2>2, <2>7, <3>1, SpawnKeeps, UnlistedSound
  <2>9. \A e \in calls' : CallSound(e)'
    <3>1. \A e \in calls' : e \in calls \/ (e.n = n /\ e.op = "join" /\ e.pc = "init")
      BY <2>4, <2>5 DEF Move
    <3> QED
      BY <2>6, <2>8, <3>1 DEF IInv, TypeOK
  <2> QED
    BY <1>1, <2>6, <2>8, <2>9 DEF IInv, JoinSeesCommands
<1> QED
  BY <1>2, <1>3 DEF JoinRestore

-----------------------------------------------------------------------------
(* Steps that end a call *)

LEMMA JoinReadyStep ==
  ASSUME IInv, NEW c \in calls, JoinReady(c)
  PROVE  IInv'
<1>1. /\ c.op = "join" /\ c.pc = "ready" /\ calls' = calls \ {c}
      /\ UNCHANGED <<spawned, channels, row, gone, started, shown, lists, titles, revived, excused>>
  BY DEF JoinReady, Answer, listVars
<1>2. c.n \in Runners /\ c.n <= spawned
  <2>1. c.n \in 1..spawned
    BY <1>1 DEF IInv, CallSound
  <2> QED
    BY <2>1, Numbers DEF Spawned
<1>3. ch[c.n].ready = "ok" /\ ch[c.n].by = "resume" => ch[c.n].cmds
  BY <1>2 DEF IInv, ChannelsSound
<1>4. bare' = {}
  BY <1>3 DEF JoinReady, IInv, JoinSeesCommands
<1>5. CASE ch[c.n].ready # "ok"
  <2>1. TypeOK' /\ UNCHANGED <<ch, bare>>
    BY <1>1, <1>5 DEF IInv, TypeOK, JoinReady
  <2> QED
    BY <1>1, <2>1, SameChannels, UnlistedSound
<1>6. CASE ch[c.n].ready = "ok"
  <2>1. ch' = [ch EXCEPT ![c.n] = [@ EXCEPT !.bound = TRUE]]
    BY <1>6 DEF JoinReady
  <2>2. TypeOK'
    <3>1. ch[c.n] \in Channel
      BY <1>2 DEF IInv, TypeOK
    <3>2. [ch[c.n] EXCEPT !.bound = TRUE] \in Channel
      BY <3>1 DEF Channel
    <3> QED
      BY <1>1, <1>4, <2>1, <3>2 DEF IInv, TypeOK
  <2>3. \A m \in Runners :
          /\ ch'[m].sess = ch[m].sess /\ ch'[m].id = ch[m].id /\ ch'[m].by = ch[m].by
          /\ ch'[m].process = ch[m].process /\ ch'[m].exited = ch[m].exited
          /\ ch'[m].cmds = ch[m].cmds /\ ch'[m].ready = ch[m].ready /\ ch'[m].known = ch[m].known
          /\ m # c.n => ch'[m] = ch[m]
    BY <1>2, <2>1 DEF IInv, TypeOK, Channel
  <2>4. RunnersKept
    BY <1>1, <2>3 DEF RunnersKept
  <2>5. SessionsNumbered' /\ ChannelsSound'
    BY <1>1, <1>2, <2>3, Numbers DEF IInv, SessionsNumbered, ChannelsSound
  <2>6. \A d \in calls' : CallSound(d)'
    BY <1>1, <2>4, KeptCall, CallFields DEF IInv
  <2>7. OneProcessPerSession' /\ ChannelsFiled'
    BY <2>4, KeptOneProcess, KeptFiled
  <2>8. JoinSeesCommands' /\ ClosedStaysClosed'
    BY <1>1, <1>4, <2>3, <2>4, KeptClosed, UnlistedSound DEF JoinSeesCommands
  <2> QED
    BY <2>2, <2>5, <2>6, <2>7, <2>8 DEF IInv
<1> QED
  BY <1>5, <1>6

LEMMA ApplyStep ==
  ASSUME IInv, NEW c \in calls, Apply(c)
  PROVE  IInv'
<1>1. /\ c.pc = "apply" /\ calls' = calls \ {c}
      /\ UNCHANGED <<spawned, channels, row, gone, started, lists, titles, excused, bare>>
  BY DEF Apply, Answer
<1>2. c.n \in Runners /\ c.n <= spawned /\ ch[c.n].by = c.op
  <2>1. c.n \in 1..spawned /\ ch[c.n].by = c.op
    BY <1>1 DEF IInv, CallSound
  <2> QED
    BY <2>1, Numbers DEF Spawned
<1>3. UNCHANGED <<shown, revived>> \/ Created(ch[c.n].id)
  BY DEF Apply
<1>4. ListedSoundly
  BY <1>3, CreatedSound, UnlistedSound
<1>5. PICK cmds \in BOOLEAN, ready \in {"pending", "ok", "failed"} :
        /\ ch' = [ch EXCEPT ![c.n] = [@ EXCEPT !.cmds = cmds, !.ready = ready]]
        /\ ch[c.n].cmds => cmds
        /\ c.op = "resume" /\ ready = "ok" => cmds
  <2>1. ch[c.n] \in Channel
    BY <1>2 DEF IInv, TypeOK
  <2>2. ch[c.n].cmds \in BOOLEAN /\ ch[c.n].ready \in {"pending", "ok", "failed"}
    BY <2>1 DEF Channel
  <2>3. CASE ch' = [ch EXCEPT ![c.n].cmds = TRUE, ![c.n].ready = "ok"]
    BY <1>2, <2>1, <2>3 DEF Channel, IInv, TypeOK
  <2>4. CASE ch' = [ch EXCEPT ![c.n].ready = IF c.op = "resume" THEN "failed" ELSE @]
    <3> DEFINE ready == IF c.op = "resume" THEN "failed" ELSE ch[c.n].ready
    <3>1. [ch[c.n] EXCEPT !.ready = ready] = [ch[c.n] EXCEPT !.cmds = ch[c.n].cmds, !.ready = ready]
      BY <2>1 DEF Channel
    <3>2. ch' = [ch EXCEPT ![c.n] = [@ EXCEPT !.cmds = ch[c.n].cmds, !.ready = ready]]
      BY <1>2, <2>4, <3>1 DEF IInv, TypeOK
    <3> QED
      BY <2>2, <3>2
  <2> QED
    BY <2>3, <2>4 DEF Apply
<1>6. TypeOK'
  <2>1. [ch[c.n] EXCEPT !.cmds = cmds, !.ready = ready] \in Channel
    <3>1. ch[c.n] \in Channel
      BY <1>2 DEF IInv, TypeOK
    <3> QED
      BY <3>1 DEF Channel
  <2>2. ch' \in [Runners -> Channel]
    BY <1>5, <2>1 DEF IInv, TypeOK
  <2>3. shown' \in {"none", "live", "exited"} /\ revived' \subseteq Runners
    BY <1>2, <1>3, Numbers, CreatedType DEF IInv, TypeOK
  <2> QED
    BY <1>1, <2>2, <2>3 DEF IInv, TypeOK
<1>7. \A m \in Runners :
        /\ ch'[m].sess = ch[m].sess /\ ch'[m].id = ch[m].id /\ ch'[m].by = ch[m].by
        /\ ch'[m].process = ch[m].process /\ ch'[m].exited = ch[m].exited
        /\ ch'[m].known = ch[m].known
        /\ m # c.n => ch'[m] = ch[m]
        /\ m = c.n => ch'[m].cmds = cmds /\ ch'[m].ready = ready
  BY <1>2, <1>5 DEF IInv, TypeOK, Channel
<1>8. RunnersKept
  BY <1>1, <1>7 DEF RunnersKept
<1>9. SessionsNumbered'
  BY <1>1, <1>7 DEF IInv, SessionsNumbered
<1>10. ChannelsSound'
  BY <1>1, <1>2, <1>5, <1>7, Numbers DEF IInv, ChannelsSound
<1>11. \A d \in calls' : CallSound(d)'
  BY <1>1, <1>8, KeptCall, CallFields DEF IInv
<1>12. OneProcessPerSession' /\ ChannelsFiled'
  BY <1>8, KeptOneProcess, KeptFiled
<1>13. JoinSeesCommands' /\ ClosedStaysClosed'
  BY <1>1, <1>4, <1>7, <1>8, KeptClosed DEF IInv, JoinSeesCommands
<1> QED
  BY <1>6, <1>9, <1>10, <1>11, <1>12, <1>13 DEF IInv

-----------------------------------------------------------------------------
(* Steps of the session list *)

\* A step that changes nothing but the list and what is about to change it.
LEMMA ListStep ==
  ASSUME IInv, UNCHANGED <<spawned, ch, channels, row, gone, calls, started, excused, bare>>,
         lists' \subseteq BOOLEAN, titles' \subseteq Runners, revived' \subseteq Runners,
         shown' \in {"none", "live", "exited"}, ListedSoundly
  PROVE  IInv'
<1>1. TypeOK'
  BY DEF IInv, TypeOK
<1> QED
  BY <1>1, SameChannels DEF IInv

LEMMA WrittenStep ==
  ASSUME IInv, NEW id \in Ids, Send(id) \/ UpdateState(id) \/ Close(id)
  PROVE  IInv'
<1>1. Spawned \subseteq Runners
  BY Numbers
<1>2. ListedSoundly
  BY NotedSound DEF Send, UpdateState, Close, ListedSoundly
<1>3. /\ revived' \subseteq Runners /\ shown' \in {"none", "live", "exited"}
      /\ lists' \subseteq BOOLEAN /\ titles' \subseteq Runners
  BY <1>1 DEF IInv, TypeOK, Send, UpdateState, Close, ListedLive, Noted
<1> QED
  BY <1>2, <1>3, ListStep DEF Send, UpdateState, Close

LEMMA LineStep ==
  ASSUME IInv, NEW n \in Runners, Line(n) \/ TitleCame(n) \/ Title(n)
  PROVE  IInv'
<1>1. Spawned \subseteq Runners
  BY Numbers
<1>2. ListedSoundly
  <2>1. CASE Line(n)
    BY <2>1 DEF Line, ListedLive, ListedSoundly
  <2>2. CASE TitleCame(n)
    BY <2>2, UnlistedSound DEF TitleCame
  <2>3. CASE Title(n)
    BY <2>3, NotedSound DEF Title
  <2> QED
    BY <2>1, <2>2, <2>3
<1>3. /\ revived' \subseteq Runners /\ shown' \in {"none", "live", "exited"}
      /\ lists' \subseteq BOOLEAN /\ titles' \subseteq Runners
  BY <1>1 DEF IInv, TypeOK, Line, TitleCame, Title, ListedLive, Noted
<1> QED
  BY <1>2, <1>3, ListStep DEF Line, TitleCame, Title

LEMMA InitStartStep ==
  ASSUME IInv, InitStart
  PROVE  IInv'
<1>1. Alive(channels[Entry]) \in BOOLEAN
  BY DEF Alive
<1> QED
  BY <1>1, UnlistedSound, ListStep DEF IInv, TypeOK, InitStart

LEMMA InitAnswerStep ==
  ASSUME IInv, NEW live \in lists, InitAnswer(live)
  PROVE  IInv'
<1>1. Spawned \subseteq Runners
  BY Numbers
<1>2. ListedSoundly
  BY NotedSound DEF InitAnswer, ListedSoundly
<1>3. /\ revived' \subseteq Runners /\ shown' \in {"none", "live", "exited"}
      /\ lists' \subseteq BOOLEAN /\ titles' \subseteq Runners
  BY <1>1 DEF IInv, TypeOK, InitAnswer, ListedLive, Noted
<1> QED
  BY <1>2, <1>3, ListStep DEF InitAnswer

-----------------------------------------------------------------------------
(* The theorems *)

LEMMA NextInvariant == IInv /\ [Next]_vars => IInv'
<1> SUFFICES ASSUME IInv, [Next]_vars PROVE IInv'
  OBVIOUS
<1>1. CASE Launch
  BY <1>1, LaunchStep
<1>2. ASSUME NEW s \in Sessions, Resume(s) PROVE IInv'
  BY <1>2, ResumeStep
<1>3. ASSUME NEW id \in Ids, Join(id) PROVE IInv'
  BY <1>3, JoinStep
<1>4. ASSUME NEW c \in calls, ResumeCreate(c) PROVE IInv'
  BY <1>4, ResumeCreateStep
<1>5. ASSUME NEW c \in calls, JoinRestore(c) PROVE IInv'
  BY <1>5, JoinRestoreStep
<1>6. ASSUME NEW c \in calls, JoinReady(c) PROVE IInv'
  BY <1>6, JoinReadyStep
<1>7. ASSUME NEW c \in calls, Apply(c) PROVE IInv'
  BY <1>7, ApplyStep
<1>8. ASSUME NEW n \in Runners, Respond(n) PROVE IInv'
  BY <1>8, RespondStep
<1>9. ASSUME NEW n \in Runners, Timeout(n) PROVE IInv'
  BY <1>9, TimeoutStep
<1>10. ASSUME NEW n \in Runners, Exit(n) PROVE IInv'
  BY <1>10, ExitStep
<1>11. ASSUME NEW n \in Runners, SessionInit(n) PROVE IInv'
  BY <1>11, SessionInitStep
<1>12. ASSUME NEW n \in Runners, Unbind(n) PROVE IInv'
  BY <1>12, UnbindStep
<1>13. CASE UNCHANGED vars
  <2>1. TypeOK' /\ UNCHANGED <<spawned, ch, channels, row, shown, revived, excused, bare, calls>>
    BY <1>13 DEF vars, listVars, IInv, TypeOK
  <2> QED
    BY <2>1, SameChannels, UnlistedSound
<1>14. ASSUME NEW id \in Ids, Send(id) \/ UpdateState(id) \/ Close(id) PROVE IInv'
  BY <1>14, WrittenStep
<1>15. ASSUME NEW n \in Runners, Line(n) \/ TitleCame(n) \/ Title(n) PROVE IInv'
  BY <1>15, LineStep
<1>16. CASE InitStart
  BY <1>16, InitStartStep
<1>17. ASSUME NEW live \in lists, InitAnswer(live) PROVE IInv'
  BY <1>17, InitAnswerStep
<1> QED
  BY <1>1, <1>2, <1>3, <1>4, <1>5, <1>6, <1>7, <1>8, <1>9, <1>10, <1>11, <1>12, <1>13, <1>14, <1>15,
     <1>16, <1>17 DEF Next

\* The invariant holds of every reachable state.
THEOREM Invariance == Spec => []IInv
BY InitInvariant, NextInvariant, PTL DEF Spec

\* Every variable keeps its type.
THEOREM TypeCorrect == Spec => []TypeOK
<1>1. IInv => TypeOK
  BY DEF IInv
<1> QED
  BY <1>1, Invariance, PTL

\* However launches, resumes, joins, exits and timers of any number of processes come one
\* after the other, two processes of one session run at once only in the ways the handlers
\* do not look for (handleResume, ChannelManager.join).
THEOREM OneProcessEach == Spec => []OneProcessPerSession
<1>1. IInv => OneProcessPerSession
  BY DEF IInv
<1> QED
  BY <1>1, Invariance, PTL

\* A join that waits for the readyPromise of a resumed channel is told its commands: the
\* promise is settled only when the models are stored (handleResume, createEager).
THEOREM JoinIsTold == Spec => []JoinSeesCommands
<1>1. IInv => JoinSeesCommands
  BY DEF IInv
<1> QED
  BY <1>1, Invariance, PTL

\* An entry of the session list whose process is known to have exited is not shown as live
\* by anything the server does of itself (handleExit, handleLaunch, handleResume,
\* onSessionInit, onMessageResult, handleCreated of the web client): only by what a window
\* sent to the dead channel, a list or a title made before the exit, or a session:created
\* that finds the entry dropped (handleSend, handleUpdateState, handleInit, broadcastTitle).
THEOREM ExitedStaysClosed == Spec => []ClosedStaysClosed
<1>1. IInv => ClosedStaysClosed
  BY DEF IInv
<1> QED
  BY <1>1, Invariance, PTL
=============================================================================
