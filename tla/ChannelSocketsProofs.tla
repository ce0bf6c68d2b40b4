------------------------ MODULE ChannelSocketsProofs ------------------------
(***************************************************************************)
(* Theorems about ChannelSockets, for every set of clients and channels    *)
(* and every number of connections, processes and handlers.                *)
(*                                                                         *)
(* IInv is the inductive invariant.  Tracing, Ownership and StillReached   *)
(* hold of every order of connections, OneOpener of every order of         *)
(* handlers; Prompt is what HalfOpen = FALSE adds.                         *)
(***************************************************************************)
EXTENDS ChannelSockets, TLAPS

\* A connection that was not accepted has left no trace.
Fresh(c) ==
  /\ rsOf[c] = None /\ inner[c] = None /\ socketRefs[c] = None
  /\ socketChannels[c] = {} /\ subscribed[c] = {}
  /\ c \notin timers /\ c \notin late
  /\ \A ch \in Channels : c \notin channelSockets[ch]

\* Connections, sockets and the registry refer to each other consistently.
Tracing ==
  /\ \A c \in Conns : IF up[c] = "none" THEN Fresh(c)
                      ELSE keyOf[c] \in Keys /\ inner[rsOf[c]] # None
                           /\ rsOf[c] \in Conns /\ keyOf[rsOf[c]] = keyOf[c]
  /\ \A r \in Conns : inner[r] # None => up[r] # "none" /\ up[inner[r]] # "none"
                                         /\ rsOf[inner[r]] = r
  /\ \A k \in Keys : registry[k] # None =>
                       inner[registry[k]] # None /\ keyOf[registry[k]] = k
  /\ \A x \in calls : inner[x.socket] # None

\* An id is a key of the indexes only on behalf of the socket that was handed
\* out with it, and for channels that this socket asked for.
Ownership ==
  /\ \A id \in Conns : socketRefs[id] # None => socketRefs[id] = rsOf[id]
  /\ \A id \in Conns : up[id] # "none" => socketChannels[id] \subseteq subscribed[rsOf[id]]
  /\ \A r \in Conns, ch \in Channels : r \in channelSockets[ch] => ch \in subscribed[r]

\* socketRefs holds the socket of an open connection under the connection's id,
\* or under an id that the socket has no more, which no close will remove.
StillReached ==
  \A c \in Conns : up[c] = "open" =>
    \/ socketRefs[c] = rsOf[c]
    \/ \E id \in Conns : id # inner[rsOf[c]] /\ socketRefs[id] = rsOf[c]

\* While every close is noticed before the client's next accept: an open
\* connection is the one its socket is bound to and is tracked under its id; a
\* timer runs only for the closed connection of the registered socket; and the
\* two indexes agree on the registered sockets.
PromptConns ==
  /\ \A c \in Conns : up[c] = "open" =>
       inner[rsOf[c]] = c /\ socketRefs[c] = rsOf[c] /\ registry[keyOf[c]] = rsOf[c]
  /\ \A c \in timers : /\ up[c] = "closed" /\ ttlTimer[keyOf[c]] = c
                       /\ registry[keyOf[c]] = rsOf[c] /\ inner[rsOf[c]] = c
PromptIndexes ==
  \A r \in Conns : inner[r] # None =>
    /\ registry[keyOf[r]] = r =>
         /\ subscribed[r] \subseteq socketChannels[inner[r]]
         /\ \A ch \in Channels :
              r \in channelSockets[ch] => ch \in socketChannels[inner[r]]
         /\ up[inner[r]] = "open" =>
              \A ch \in socketChannels[inner[r]] : r \in channelSockets[ch]
    /\ r \notin late /\ up[inner[r]] = "closed" =>
         /\ \A ch \in Channels : r \notin channelSockets[ch]
         /\ registry[keyOf[r]] # r => socketChannels[inner[r]] = {}
Prompt == ~HalfOpen => PromptConns /\ PromptIndexes

\* A process that runs is the one the map knows or was overtaken by a restore, and
\* a restore that waits found no Channel or one whose process had exited.
OneOpener ==
  /\ \A n \in Runners : process[n] = "running" =>
       chan[n] \in Channels /\ (n \in overtaken \/ channels[chan[n]] = n)
  /\ \A n \in Runners : exited[n] => process[n] = "exited"
  /\ \A n \in Runners : process[n] = "none" => \A ch \in Channels : channels[ch] # n
  /\ \A x \in calls : x.op = "restore" => x.runner = None \/ process[x.runner] = "exited"

IInv == TypeOK /\ Tracing /\ Ownership /\ StillReached /\ Prompt /\ OneOpener

-----------------------------------------------------------------------------
(* The invariant is inductive *)

\* Nothing was accepted yet.
LEMMA InitInvariant == Init => IInv
BY ConstantsAssumption DEF ConstantsAssumption, Init, IInv, TypeOK, Tracing, Fresh,
   Ownership, StillReached, Prompt, PromptConns, PromptIndexes, OneOpener, Conns, Runners, None

\* A connection that was not accepted is not referred to.
LEMMA FreshUnknown ==
  ASSUME TypeOK, Tracing, Ownership, NEW c \in Conns, up[c] = "none"
  PROVE  /\ Fresh(c) /\ c # None
         /\ \A d \in Conns : d # c /\ up[d] # "none" => rsOf[d] # c /\ inner[rsOf[d]] # c
         /\ \A r \in Conns : inner[r] # c
         /\ \A k \in Keys : registry[k] # c
         /\ \A id \in Conns : socketRefs[id] # c
         /\ \A x \in calls : x.socket # c
<1>1. c # None
  BY DEF Conns, None
<1>2. Fresh(c)
  BY DEF Tracing
<1>3. \A r \in Conns : inner[r] # c
  BY <1>1 DEF Tracing
<1>4. \A d \in Conns : up[d] # "none" => rsOf[d] # c /\ inner[rsOf[d]] # c
  BY <1>2, <1>3 DEF Tracing, Fresh
<1>5. \A k \in Keys : registry[k] # c
  BY <1>1, <1>2 DEF Tracing, Fresh
<1>6. \A id \in Conns : socketRefs[id] # c
  <2> SUFFICES ASSUME NEW id \in Conns, socketRefs[id] = c
               PROVE  FALSE
    OBVIOUS
  <2>1. rsOf[id] = c
    BY <1>1 DEF Ownership
  <2>2. up[id] = "none"
    BY <1>4, <2>1
  <2> QED
    BY <1>1, <2>2 DEF Tracing, Fresh
<1>7. \A x \in calls : x.socket # c
  BY <1>2 DEF Tracing, Fresh
<1> QED
  BY <1>1, <1>2, <1>3, <1>4, <1>5, <1>6, <1>7

\* A client without a registered ResumableSocket is given a new one.
LEMMA RegisterStep ==
  ASSUME IInv, NEW c \in Conns, NEW k \in Keys, Accept(k, c), Register(k, c)
  PROVE  IInv'
<1> USE DEF IInv, Accept, Register, channelVars, historyVars
<1>0. /\ Fresh(c) /\ c # None
      /\ \A d \in Conns : d # c /\ up[d] # "none" => rsOf[d] # c /\ inner[rsOf[d]] # c
      /\ \A r \in Conns : inner[r] # c
      /\ \A j \in Keys : registry[j] # c
      /\ \A id \in Conns : socketRefs[id] # c
      /\ \A x \in calls : x.socket # c
  BY FreshUnknown
<1>1. TypeOK'
  BY DEF TypeOK, Call, Conns, Runners, None
<1>a. /\ \A d \in Conns : d # c => /\ up'[d] = up[d] /\ keyOf'[d] = keyOf[d]
                                   /\ rsOf'[d] = rsOf[d] /\ inner'[d] = inner[d]
                                   /\ socketRefs'[d] = socketRefs[d]
      /\ up'[c] = "open" /\ keyOf'[c] = k /\ rsOf'[c] = c /\ inner'[c] = c
      /\ socketRefs'[c] = c
      /\ registry'[k] = c /\ \A j \in Keys \ {k} : registry'[j] = registry[j]
  BY DEF TypeOK
<1>2. Tracing'
  <2>1. ASSUME NEW d \in Conns
        PROVE  (IF up[d] = "none" THEN Fresh(d)
                ELSE keyOf[d] \in Keys /\ inner[rsOf[d]] # None
                     /\ rsOf[d] \in Conns /\ keyOf[rsOf[d]] = keyOf[d])'
    BY <1>0, <1>a DEF Tracing, Fresh, TypeOK
  <2>2. ASSUME NEW r \in Conns, inner'[r] # None
        PROVE  up'[r] # "none" /\ up'[inner'[r]] # "none" /\ rsOf'[inner'[r]] = r
    BY <1>0, <1>a, <2>2 DEF Tracing, TypeOK
  <2>3. ASSUME NEW j \in Keys, registry'[j] # None
        PROVE  inner'[registry'[j]] # None /\ keyOf'[registry'[j]] = j
    BY <1>0, <1>a, <2>3 DEF Tracing, TypeOK
  <2>4. ASSUME NEW x \in calls'
        PROVE  inner'[x.socket] # None
    BY <1>0, <1>a, <2>4 DEF Tracing, TypeOK
  <2> QED
    BY <2>1, <2>2, <2>3, <2>4 DEF Tracing
<1>3. Ownership'
  BY <1>0 DEF TypeOK, Tracing, Fresh, Ownership, Call, None
<1>4. StillReached'
  <2> SUFFICES ASSUME NEW d \in Conns, d # c, up[d] = "open"
               PROVE  \/ socketRefs'[d] = rsOf'[d]
                      \/ \E id \in Conns : id # inner'[rsOf'[d]] /\ socketRefs'[id] = rsOf'[d]
    BY <1>a DEF StillReached
  <2>1. /\ rsOf'[d] = rsOf[d] /\ rsOf[d] \in Conns /\ rsOf[d] # c
        /\ inner'[rsOf[d]] = inner[rsOf[d]]
    BY <1>0, <1>a DEF Tracing
  <2>2. CASE socketRefs[d] = rsOf[d]
    BY <1>a, <2>1, <2>2
  <2>3. CASE socketRefs[d] # rsOf[d]
    <3>1. PICK id \in Conns : id # inner[rsOf[d]] /\ socketRefs[id] = rsOf[d]
      BY <2>3 DEF StillReached
    <3>2. id # c
      BY <1>0, <2>1, <3>1 DEF Fresh, None, Conns
    <3> QED
      BY <1>a, <2>1, <3>1, <3>2
  <2> QED
    BY <2>2, <2>3
<1>5. Prompt'
  <2> SUFFICES ASSUME ~HalfOpen
               PROVE  PromptConns' /\ PromptIndexes'
    BY DEF Prompt
  <2>1. PromptConns /\ PromptIndexes
    BY DEF Prompt
  <2>2. \A d \in timers : d \in Conns /\ d # c /\ keyOf[d] # k
    <3> SUFFICES ASSUME NEW d \in timers
                 PROVE  d \in Conns /\ d # c /\ keyOf[d] # k
      OBVIOUS
    <3>1. d \in Conns /\ d # c
      BY <1>0 DEF TypeOK, Fresh
    <3>2. up[d] = "closed" /\ registry[keyOf[d]] = rsOf[d]
      BY <2>1, <3>1 DEF PromptConns
    <3>3. rsOf[d] # None
      BY <3>1, <3>2 DEF Tracing, Conns, None
    <3> QED
      BY <3>1, <3>2, <3>3
  <2>3. PromptConns'
    BY <1>0, <1>a, <2>1, <2>2 DEF PromptConns, Tracing, TypeOK
  <2>4. ASSUME NEW r \in Conns, r # c, inner[r] # None
        PROVE  /\ up[r] # "none" /\ keyOf'[r] = keyOf[r] /\ inner'[r] = inner[r]
               /\ up'[inner[r]] = up[inner[r]]
               /\ registry[keyOf[r]] = r <=> registry'[keyOf[r]] = r
    <3>1. up[r] # "none" /\ up[inner[r]] # "none" /\ inner[r] \in Conns \ {c}
      BY <1>0, <2>4 DEF Tracing, TypeOK
    <3>2. keyOf[r] \in Keys
      BY <3>1 DEF Tracing
    <3>3. registry[keyOf[r]] = r <=> registry'[keyOf[r]] = r
      BY <1>0, <1>a, <2>4, <3>2 DEF None, Conns
    <3> QED
      BY <1>a, <2>4, <3>1, <3>3
  <2>5. PromptIndexes'
    <3>1. ASSUME NEW r \in Conns, r # c, inner'[r] # None
          PROVE  inner[r] # None
      BY <1>a, <3>1
    <3>2. /\ channelSockets' = channelSockets /\ socketChannels' = socketChannels
          /\ subscribed' = subscribed /\ late' = late
      OBVIOUS
    <3> HIDE DEF Accept, Register
    <3> QED
      BY <1>0, <1>a, <2>1, <2>4, <3>1, <3>2 DEF PromptIndexes, Fresh
  <2> QED
    BY <2>3, <2>5
<1>6. OneOpener'
  BY DEF TypeOK, OneOpener, Call, None
<1> QED
  BY <1>1, <1>2, <1>3, <1>4, <1>5, <1>6

\* A client comes back: its socket takes the new id and leaves the old one.
LEMMA RebindStep ==
  ASSUME IInv, NEW c \in Conns, NEW k \in Keys, Accept(k, c), Rebind(k, c)
  PROVE  IInv'
<1> DEFINE r == registry[k]
           p == inner[r]
<1> USE DEF IInv
<1>0. /\ Fresh(c) /\ c # None /\ up[c] = "none"
      /\ \A d \in Conns : d # c /\ up[d] # "none" => rsOf[d] # c /\ inner[rsOf[d]] # c
      /\ \A q \in Conns : inner[q] # c
      /\ \A j \in Keys : registry[j] # c
      /\ \A id \in Conns : socketRefs[id] # c
      /\ \A x \in calls : x.socket # c
  BY FreshUnknown DEF Accept
<1>1. /\ r \in Conns /\ r # c /\ p \in Conns /\ p # c /\ p # None
      /\ up[r] # "none" /\ up[p] # "none" /\ rsOf[p] = r /\ keyOf[r] = k /\ keyOf[p] = k
  BY <1>0 DEF Rebind, Tracing, TypeOK
<1>2. /\ up' = [up EXCEPT ![c] = "open"] /\ keyOf' = [keyOf EXCEPT ![c] = k]
      /\ rsOf' = [rsOf EXCEPT ![c] = r] /\ inner' = [inner EXCEPT ![r] = c]
      /\ socketRefs' = [socketRefs EXCEPT ![c] = r]
      /\ socketChannels' = [socketChannels EXCEPT ![p] = {}, ![c] = socketChannels[p]]
      /\ channelSockets' = [ch \in Channels |->
           channelSockets[ch] \cup (IF ch \in socketChannels[p] THEN {r} ELSE {})]
      /\ timers' = timers \ {ttlTimer[k]} /\ ttlTimer' = [ttlTimer EXCEPT ![k] = None]
      /\ registry' = registry /\ calls' = calls
      /\ subscribed' = subscribed /\ late' = late /\ overtaken' = overtaken
      /\ UNCHANGED channelVars
  BY DEF Accept, Rebind, Reattach, historyVars
<1> HIDE DEF r, p
<1>3. TypeOK'
  <2>1. \A ch \in Channels : channelSockets'[ch] \subseteq Conns
    BY <1>1, <1>2 DEF TypeOK
  <2>2. channelSockets' \in [Channels -> SUBSET Conns]
    BY <1>2, <2>1
  <2>3. socketChannels' \in [Conns -> SUBSET Channels]
    BY <1>1, <1>2 DEF TypeOK
  <2> QED
    BY <1>1, <1>2, <2>2, <2>3 DEF TypeOK, channelVars
<1>a. /\ \A d \in Conns : d # c => /\ up'[d] = up[d] /\ keyOf'[d] = keyOf[d]
                                   /\ rsOf'[d] = rsOf[d]
                                   /\ socketRefs'[d] = socketRefs[d]
                                   /\ d # p => socketChannels'[d] = socketChannels[d]
      /\ \A d \in Conns : d # r => inner'[d] = inner[d]
      /\ up'[c] = "open" /\ keyOf'[c] = k /\ rsOf'[c] = r /\ inner'[r] = c
      /\ socketRefs'[c] = r /\ socketChannels'[c] = socketChannels[p]
      /\ socketChannels'[p] = {}
      /\ \A q \in Conns, ch \in Channels : q \in channelSockets'[ch] <=>
           q \in channelSockets[ch] \/ (q = r /\ ch \in socketChannels[p])
  BY <1>1, <1>2 DEF TypeOK
<1>4. Tracing'
  <2>1. ASSUME NEW d \in Conns
        PROVE  (IF up[d] = "none" THEN Fresh(d)
                ELSE keyOf[d] \in Keys /\ inner[rsOf[d]] # None
                     /\ rsOf[d] \in Conns /\ keyOf[rsOf[d]] = keyOf[d])'
    <3>1. CASE d = c
      BY <1>0, <1>1, <1>a, <3>1
    <3>2. CASE d # c /\ up[d] = "none"
      BY <1>0, <1>1, <1>2, <1>a, <3>2 DEF Tracing, Fresh, TypeOK
    <3>3. CASE d # c /\ up[d] # "none"
      BY <1>0, <1>1, <1>a, <3>3 DEF Tracing, TypeOK
    <3> QED
      BY <3>1, <3>2, <3>3
  <2>2. ASSUME NEW q \in Conns, inner'[q] # None
        PROVE  up'[q] # "none" /\ up'[inner'[q]] # "none" /\ rsOf'[inner'[q]] = q
    BY <1>0, <1>1, <1>a, <2>2 DEF Tracing, TypeOK
  <2>3. ASSUME NEW j \in Keys, registry'[j] # None
        PROVE  inner'[registry'[j]] # None /\ keyOf'[registry'[j]] = j
    BY <1>0, <1>1, <1>2, <1>a, <2>3 DEF Tracing, TypeOK
  <2>4. ASSUME NEW x \in calls'
        PROVE  inner'[x.socket] # None
    BY <1>0, <1>1, <1>2, <1>a, <2>4 DEF Tracing, TypeOK, Call
  <2> QED
    BY <2>1, <2>2, <2>3, <2>4 DEF Tracing
<1>5. Ownership'
  <2>1. \A id \in Conns : socketRefs'[id] # None => socketRefs'[id] = rsOf'[id]
    BY <1>0, <1>a DEF Ownership
  <2>2. ASSUME NEW id \in Conns, up'[id] # "none"
        PROVE  socketChannels'[id] \subseteq subscribed'[rsOf'[id]]
    <3>1. CASE id = c
      BY <1>1, <1>2, <1>a, <3>1 DEF Ownership
    <3>2. CASE id # c
      BY <1>2, <1>a, <2>2, <3>2 DEF Ownership
    <3> QED
      BY <3>1, <3>2
  <2>3. \A q \in Conns, ch \in Channels : q \in channelSockets'[ch] => ch \in subscribed'[q]
    BY <1>1, <1>2, <1>a DEF Ownership
  <2> QED
    BY <2>1, <2>2, <2>3 DEF Ownership
<1>6. StillReached'
  <2> SUFFICES ASSUME NEW d \in Conns, up'[d] = "open"
               PROVE  \/ socketRefs'[d] = rsOf'[d]
                      \/ \E id \in Conns : id # inner'[rsOf'[d]] /\ socketRefs'[id] = rsOf'[d]
    BY DEF StillReached
  <2>1. CASE d = c
    BY <1>a, <2>1
  <2>2. CASE d # c
    <3>1. up[d] = "open" /\ rsOf'[d] = rsOf[d] /\ rsOf[d] \in Conns
      BY <1>a, <2>2 DEF Tracing
    <3>2. CASE socketRefs[d] = rsOf[d]
      BY <1>a, <2>2, <3>1, <3>2
    <3>3. CASE socketRefs[d] # rsOf[d]
      <4>1. PICK id \in Conns : id # inner[rsOf[d]] /\ socketRefs[id] = rsOf[d]
        BY <3>1, <3>3 DEF StillReached
      <4>2. id # c
        BY <1>0, <3>1, <4>1 DEF Fresh, None, Conns
      <4> QED
        BY <1>a, <3>1, <4>1, <4>2
    <3> QED
      BY <3>2, <3>3
  <2> QED
    BY <2>1, <2>2
<1>7. Prompt'
  <2> SUFFICES ASSUME ~HalfOpen
               PROVE  PromptConns' /\ PromptIndexes'
    BY DEF Prompt
  <2>1. PromptConns /\ PromptIndexes
    BY DEF Prompt
  <2>2. \A d \in Conns : up[d] = "open" => d # c /\ keyOf[d] # k /\ rsOf[d] # r
    BY <1>0, <1>1 DEF Accept, Tracing
  <2>3. \A d \in timers' : d \in timers /\ d \in Conns /\ d # c /\ keyOf[d] # k /\ rsOf[d] # r
    BY <1>0, <1>1, <1>2, <2>1 DEF PromptConns, Fresh, Tracing, TypeOK
  <2>4. PromptConns'
    <3>1. ASSUME NEW d \in Conns, up'[d] = "open"
          PROVE  inner'[rsOf'[d]] = d /\ socketRefs'[d] = rsOf'[d]
                 /\ registry'[keyOf'[d]] = rsOf'[d]
      <4>1. CASE d = c
        BY <1>2, <1>a, <4>1 DEF r
      <4>2. CASE d # c
        <5>1. up[d] = "open" /\ rsOf[d] \in Conns
          BY <1>a, <3>1, <4>2 DEF Tracing
        <5> QED
          BY <1>2, <1>a, <2>1, <2>2, <4>2, <5>1 DEF PromptConns
      <4> QED
        BY <4>1, <4>2
    <3>2. ASSUME NEW d \in timers'
          PROVE  /\ up'[d] = "closed" /\ ttlTimer'[keyOf'[d]] = d
                 /\ registry'[keyOf'[d]] = rsOf'[d] /\ inner'[rsOf'[d]] = d
      <4>1. d \in timers /\ d \in Conns /\ d # c /\ keyOf[d] # k /\ rsOf[d] # r
        BY <2>3
      <4>2. up[d] = "closed" /\ ttlTimer[keyOf[d]] = d
            /\ registry[keyOf[d]] = rsOf[d] /\ inner[rsOf[d]] = d
        BY <2>1, <4>1 DEF PromptConns
      <4>3. rsOf[d] \in Conns /\ keyOf[d] \in Keys
        BY <4>1, <4>2 DEF Tracing
      <4>4. ttlTimer'[keyOf[d]] = ttlTimer[keyOf[d]]
        BY <1>2, <4>1, <4>3 DEF TypeOK
      <4> QED
        BY <1>2, <1>a, <4>1, <4>2, <4>3, <4>4
    <3> QED
      BY <3>1, <3>2 DEF PromptConns
  <2>5. PromptIndexes'
    <3> SUFFICES ASSUME NEW q \in Conns, inner'[q] # None
        PROVE  (/\ registry[keyOf[q]] = q =>
                     /\ subscribed[q] \subseteq socketChannels[inner[q]]
                     /\ \A ch \in Channels :
                          q \in channelSockets[ch] => ch \in socketChannels[inner[q]]
                     /\ up[inner[q]] = "open" =>
                          \A ch \in socketChannels[inner[q]] : q \in channelSockets[ch]
                /\ q \notin late /\ up[inner[q]] = "closed" =>
                     /\ \A ch \in Channels : q \notin channelSockets[ch]
                     /\ registry[keyOf[q]] # q => socketChannels[inner[q]] = {})'
      BY DEF PromptIndexes
    <3>1. CASE q = r
      <4>1. registry[keyOf[r]] = r
        BY <1>1 DEF r
      <4>2. /\ subscribed[r] \subseteq socketChannels[p]
            /\ \A ch \in Channels : r \in channelSockets[ch] => ch \in socketChannels[p]
        BY <1>1, <2>1, <4>1 DEF PromptIndexes, p
      <4>3. socketChannels[p] \subseteq Channels
        BY <1>1 DEF TypeOK
      <4>4. inner'[q] = c /\ up'[c] = "open" /\ keyOf'[q] = k /\ registry'[k] = r
        BY <1>1, <1>2, <1>a, <3>1, <4>1
      <4>5. subscribed'[q] \subseteq socketChannels'[c]
        BY <1>2, <1>a, <3>1, <4>2
      <4>6. \A ch \in Channels : q \in channelSockets'[ch] <=> ch \in socketChannels'[c]
        BY <1>1, <1>a, <3>1, <4>2
      <4>7. socketChannels'[c] \subseteq Channels
        BY <1>a, <4>3
      <4> QED
        BY <4>4, <4>5, <4>6, <4>7
    <3>2. CASE q # r
      <4>1. /\ q # c /\ inner'[q] = inner[q] /\ inner[q] \in Conns
            /\ inner[q] # c /\ inner[q] # p /\ keyOf'[q] = keyOf[q]
        BY <1>0, <1>1, <1>a, <3>2 DEF Tracing, TypeOK, Fresh
      <4>2. /\ up'[inner[q]] = up[inner[q]]
            /\ socketChannels'[inner[q]] = socketChannels[inner[q]]
            /\ \A ch \in Channels : q \in channelSockets'[ch] <=> q \in channelSockets[ch]
            /\ socketChannels[inner[q]] \subseteq Channels
        BY <1>a, <3>2, <4>1 DEF TypeOK
      <4>3. /\ registry'[keyOf'[q]] = registry[keyOf[q]] /\ subscribed' = subscribed
            /\ late' = late
        BY <1>2, <4>1
      <4>4. /\ registry[keyOf[q]] = q =>
                 /\ subscribed[q] \subseteq socketChannels[inner[q]]
                 /\ \A ch \in Channels :
                      q \in channelSockets[ch] => ch \in socketChannels[inner[q]]
                 /\ up[inner[q]] = "open" =>
                      \A ch \in socketChannels[inner[q]] : q \in channelSockets[ch]
            /\ q \notin late /\ up[inner[q]] = "closed" =>
                 /\ \A ch \in Channels : q \notin channelSockets[ch]
                 /\ registry[keyOf[q]] # q => socketChannels[inner[q]] = {}
        BY <2>1, <3>2, <4>1 DEF PromptIndexes
      <4>5. \A ch \in socketChannels[inner[q]] : q \in channelSockets'[ch] <=> q \in channelSockets[ch]
        BY <4>2
      <4> QED
        BY <4>1, <4>2, <4>3, <4>4, <4>5
    <3> QED
      BY <3>1, <3>2
  <2> QED
    BY <2>4, <2>5
<1>8. OneOpener'
  BY <1>2 DEF OneOpener, Alive, channelVars
<1> QED
  BY <1>3, <1>4, <1>5, <1>6, <1>7, <1>8

\* The server sees a connection close.  When the id that is removed is the one an
\* open connection is tracked under, the closing connection is an older one of the
\* same client, and its own entry, or the one it relied on, stays.
LEMMA CloseStep ==
  ASSUME IInv, NEW c \in Conns, Close(c)
  PROVE  IInv'
<1> USE DEF IInv, Close, RemoveSocketFromAll, WithoutSocket, historyVars
<1>1. TypeOK'
  BY DEF TypeOK, Call, Conns, Runners, None
<1>2. Tracing'
  BY DEF TypeOK, Tracing, Fresh, Call, None
<1>3. Ownership'
  BY DEF TypeOK, Tracing, Fresh, Ownership, Call, None
<1>4. StillReached'
  <2> DEFINE d == inner[rsOf[c]]
  <2>1. /\ rsOf[c] \in Conns /\ d \in Conns /\ rsOf[d] = rsOf[c]
        /\ rsOf' = rsOf /\ inner' = inner /\ socketRefs'[d] = None
        /\ \A id \in Conns \ {d} : socketRefs'[id] = socketRefs[id]
    BY DEF Tracing, TypeOK
  <2> SUFFICES ASSUME NEW e \in Conns, up'[e] = "open"
               PROVE  \/ socketRefs'[e] = rsOf[e]
                      \/ \E id \in Conns : id # inner[rsOf[e]] /\ socketRefs'[id] = rsOf[e]
    BY <2>1 DEF StillReached
  <2>2. e # c /\ up[e] = "open" /\ rsOf[e] \in Conns /\ rsOf[e] # None
    BY DEF TypeOK, Tracing, Conns, None
  <2> HIDE DEF d
  <2>3. ASSUME NEW id \in Conns, id # inner[rsOf[e]], socketRefs[id] = rsOf[e]
        PROVE  socketRefs'[id] = rsOf[e]
    BY <2>1, <2>2, <2>3 DEF Ownership, d
  <2>4. CASE e = d
    BY <2>1, <2>2, <2>3, <2>4 DEF StillReached, d
  <2>5. CASE e # d
    BY <2>1, <2>2, <2>3, <2>5 DEF StillReached
  <2> QED
    BY <2>4, <2>5
<1>5. Prompt'
  BY DEF TypeOK, Tracing, Fresh, Prompt, PromptConns, PromptIndexes, Call, None
<1>6. OneOpener'
  BY DEF TypeOK, OneOpener, Call, None
<1> QED
  BY <1>1, <1>2, <1>3, <1>4, <1>5, <1>6

\* A TTL timer fires.  While closes are noticed promptly it is the timer of the
\* registered socket, whose id is the one whose channels are dropped.
LEMMA ExpireStep ==
  ASSUME IInv, NEW c \in Conns, Expire(c)
  PROVE  IInv'
<1> USE DEF IInv, Expire, channelVars, historyVars
<1>1. TypeOK'
  BY DEF TypeOK, Call, Conns, Runners, None
<1>2. Tracing'
  BY DEF TypeOK, Tracing, Fresh, Call, None
<1>3. Ownership'
  BY DEF TypeOK, Tracing, Fresh, Ownership, Call, None
<1>4. StillReached'
  BY DEF TypeOK, Tracing, Fresh, StillReached, Call, None
<1>5. Prompt'
  <2> DEFINE k == keyOf[c]
             r == rsOf[c]
  <2> SUFFICES ASSUME ~HalfOpen
               PROVE  PromptConns' /\ PromptIndexes'
    BY DEF Prompt
  <2>1. PromptConns /\ PromptIndexes
    BY DEF Prompt
  <2>2. /\ up[c] = "closed" /\ ttlTimer[k] = c /\ registry[k] = r /\ inner[r] = c
        /\ r \in Conns /\ r # None /\ k \in Keys
    BY <2>1 DEF PromptConns, Tracing, TypeOK, Conns, None
  <2>3. /\ registry'[k] = None /\ \A j \in Keys \ {k} : registry'[j] = registry[j]
        /\ \A j \in Keys \ {k} : ttlTimer'[j] = ttlTimer[j]
        /\ socketChannels'[c] = {}
        /\ \A id \in Conns \ {c} : socketChannels'[id] = socketChannels[id]
    BY <2>2 DEF TypeOK
  <2> HIDE DEF k, r
  <2>4. PromptConns'
    <3>1. ASSUME NEW d \in Conns, up[d] = "open"
          PROVE  keyOf[d] \in Keys \ {k}
      BY <2>1, <2>2, <3>1 DEF PromptConns, Tracing
    <3>2. ASSUME NEW d \in timers'
          PROVE  d \in timers /\ d \in Conns /\ keyOf[d] \in Keys \ {k}
      BY <2>1, <2>2, <3>2 DEF PromptConns, Tracing, TypeOK
    <3> QED
      BY <2>1, <2>3, <3>1, <3>2 DEF PromptConns
  <2>5. PromptIndexes'
    <3>1. ASSUME NEW q \in Conns, inner[q] # None, q # r
          PROVE  /\ inner[q] \in Conns \ {c} /\ keyOf[q] \in Keys
                 /\ registry'[keyOf[q]] = q <=> registry[keyOf[q]] = q
      <4>1. inner[q] \in Conns /\ up[q] # "none" /\ rsOf[inner[q]] = q
        BY <3>1 DEF Tracing, TypeOK
      <4>2. keyOf[q] \in Keys /\ inner[q] # c
        BY <3>1, <4>1 DEF Tracing, r
      <4> QED
        BY <2>2, <2>3, <3>1, <4>1, <4>2 DEF Conns, None
    <3>2. keyOf[r] = k
      BY <2>2 DEF Tracing, k, r
    <3> QED
      BY <2>1, <2>2, <2>3, <3>1, <3>2 DEF PromptIndexes
  <2> QED
    BY <2>4, <2>5
<1>6. OneOpener'
  BY DEF TypeOK, OneOpener, Call, None
<1> QED
  BY <1>1, <1>2, <1>3, <1>4, <1>5, <1>6

\* A handler starts: nothing but calls changes.
LEMMA StartStep ==
  ASSUME IInv, NEW c \in Conns, NEW ch \in Channels, NEW op, NEW n, Start(op, c, ch, n),
         [op |-> op, socket |-> rsOf[c], ch |-> ch, runner |-> n] \in Call
  PROVE  TypeOK' /\ Tracing' /\ Ownership' /\ StillReached' /\ Prompt'
<1> USE DEF IInv, Start, Suspend, connVars, emitterVars, channelVars, historyVars
<1>1. TypeOK'
  BY DEF TypeOK
<1>2. Tracing'
  BY DEF TypeOK, Tracing, Fresh
<1>3. Ownership'
  BY DEF Ownership
<1>4. StillReached'
  BY DEF StillReached
<1>5. Prompt'
  BY DEF Prompt, PromptConns, PromptIndexes
<1> QED
  BY <1>1, <1>2, <1>3, <1>4, <1>5

\* An open connection has a socket.
LEMMA SocketOfOpen ==
  ASSUME Tracing, NEW c \in Conns, up[c] = "open"
  PROVE  rsOf[c] \in Conns
BY DEF Tracing

\* session:launch starts, whatever other handlers do to the channel.
LEMMA LaunchStep ==
  ASSUME IInv, NEW c \in Conns, NEW ch \in Channels, Launch(c, ch)
  PROVE  IInv'
<1>1. [op |-> "launch", socket |-> rsOf[c], ch |-> ch, runner |-> None] \in Call
  BY SocketOfOpen DEF IInv, Launch, Start, Call
<1>2. OneOpener'
  BY DEF IInv, Launch, Start, Suspend, channelVars, historyVars, OneOpener
<1> QED
  BY <1>1, <1>2, StartStep DEF IInv, Launch

\* session:join of a channel that is alive.
LEMMA JoinStep ==
  ASSUME IInv, NEW c \in Conns, NEW ch \in Channels, Join(c, ch)
  PROVE  IInv'
<1>1. channels[ch] \in Runners
  BY DEF IInv, TypeOK, Join, Alive
<1>2. [op |-> "bind", socket |-> rsOf[c], ch |-> ch, runner |-> channels[ch]] \in Call
  BY <1>1, SocketOfOpen DEF IInv, Join, Start, Call
<1>3. OneOpener'
  BY DEF IInv, Join, Start, Suspend, channelVars, historyVars, OneOpener
<1> QED
  BY <1>2, <1>3, StartStep DEF IInv, Join

\* session:join of a channel that is not alive: if it has a Channel, the process of
\* that one has exited.
LEMMA JoinDeadStep ==
  ASSUME IInv, NEW c \in Conns, NEW ch \in Channels, JoinDead(c, ch)
  PROVE  IInv'
<1>1. channels[ch] \in Runners \cup {None}
  BY DEF IInv, TypeOK
<1>2. [op |-> "restore", socket |-> rsOf[c], ch |-> ch, runner |-> channels[ch]] \in Call
  BY <1>1, SocketOfOpen DEF IInv, JoinDead, Start, Call
<1>3. channels[ch] = None \/ process[channels[ch]] = "exited"
  BY <1>1 DEF IInv, OneOpener, JoinDead, Alive
<1>4. OneOpener'
  BY <1>3 DEF IInv, JoinDead, Start, Suspend, channelVars, historyVars, OneOpener
<1> QED
  BY <1>2, <1>4, StartStep DEF IInv, JoinDead

\* A handler adds its socket to a channel.  An id that gets a new entry had none,
\* or one of the same socket.
LEMMA AttachStep ==
  ASSUME IInv, NEW x \in calls, Attach(x.ch, x.socket), calls' = calls \ {x},
         UNCHANGED connVars
  PROVE  /\ channelSockets' \in [Channels -> SUBSET Conns]
         /\ socketChannels' \in [Conns -> SUBSET Channels]
         /\ socketRefs' \in [Conns -> Conns \cup {None}]
         /\ subscribed' \in [Conns -> SUBSET Channels]
         /\ late' \subseteq Conns
         /\ Tracing' /\ Ownership' /\ StillReached' /\ Prompt'
<1> DEFINE r == x.socket
           ch == x.ch
           id == inner[r]
<1> USE DEF IInv
<1>1. /\ r \in Conns /\ ch \in Channels /\ id \in Conns /\ id # None
      /\ up[r] # "none" /\ up[id] # "none" /\ rsOf[id] = r
  BY DEF TypeOK, Tracing, Call, None
<1>2. /\ channelSockets' = [channelSockets EXCEPT ![ch] = @ \cup {r}]
      /\ socketChannels' = [socketChannels EXCEPT ![id] = @ \cup {ch}]
      /\ socketRefs' = [socketRefs EXCEPT ![id] = r]
      /\ subscribed' = [subscribed EXCEPT ![r] = @ \cup {ch}]
      /\ late' = IF up[id] = "open" THEN late ELSE late \cup {r}
      /\ calls' = calls \ {x}
      /\ UNCHANGED <<keyOf, up, rsOf, inner, registry, timers, ttlTimer>>
  BY DEF Attach, AddSocketToChannel, connVars
<1> HIDE DEF r, ch, id
<1>3. /\ channelSockets' \in [Channels -> SUBSET Conns]
      /\ socketChannels' \in [Conns -> SUBSET Channels]
      /\ socketRefs' \in [Conns -> Conns \cup {None}]
      /\ subscribed' \in [Conns -> SUBSET Channels]
      /\ late' \subseteq Conns
  BY <1>1, <1>2 DEF TypeOK
<1>a. /\ \A d \in Conns \ {id} : /\ socketRefs'[d] = socketRefs[d]
                                 /\ socketChannels'[d] = socketChannels[d]
      /\ socketRefs'[id] = r /\ socketChannels'[id] = socketChannels[id] \cup {ch}
      /\ subscribed'[r] = subscribed[r] \cup {ch}
      /\ \A q \in Conns \ {r} : subscribed'[q] = subscribed[q]
      /\ \A q \in Conns, g \in Channels :
           q \in channelSockets'[g] <=> q \in channelSockets[g] \/ (q = r /\ g = ch)
      /\ \A q \in Conns \ {r} : q \in late' <=> q \in late
  BY <1>1, <1>2 DEF TypeOK
<1>4. Tracing'
  <2>1. \A d \in Conns : up[d] = "none" => Fresh(d)'
    BY <1>1, <1>2, <1>a DEF Tracing, Fresh
  <2> QED
    BY <1>2, <2>1 DEF Tracing
<1>5. Ownership'
  BY <1>1, <1>2, <1>a DEF Ownership
<1>6. StillReached'
  <2> SUFFICES ASSUME NEW c \in Conns, up[c] = "open", socketRefs'[c] # rsOf[c]
               PROVE  \E d \in Conns : d # inner[rsOf[c]] /\ socketRefs'[d] = rsOf[c]
    BY <1>2 DEF StillReached
  <2>1. c # id
    BY <1>1, <1>a
  <2>2. socketRefs[c] # rsOf[c]
    BY <1>a, <2>1
  <2>3. PICK d \in Conns : d # inner[rsOf[c]] /\ socketRefs[d] = rsOf[c]
    BY <2>2 DEF StillReached
  <2>4. d # id
    BY <1>1, <2>3 DEF Ownership, Tracing, TypeOK, Conns, None, id
  <2> QED
    BY <1>a, <2>3, <2>4
<1>7. Prompt'
  <2> SUFFICES ASSUME ~HalfOpen
               PROVE  PromptConns' /\ PromptIndexes'
    BY DEF Prompt
  <2>1. PromptConns /\ PromptIndexes
    BY DEF Prompt
  <2>2. PromptConns'
    BY <1>1, <1>2, <1>a, <2>1 DEF PromptConns
  <2>3. PromptIndexes'
    <3> SUFFICES ASSUME NEW q \in Conns, inner[q] # None
        PROVE  (/\ registry[keyOf[q]] = q =>
                     /\ subscribed[q] \subseteq socketChannels[inner[q]]
                     /\ \A g \in Channels :
                          q \in channelSockets[g] => g \in socketChannels[inner[q]]
                     /\ up[inner[q]] = "open" =>
                          \A g \in socketChannels[inner[q]] : q \in channelSockets[g]
                /\ q \notin late /\ up[inner[q]] = "closed" =>
                     /\ \A g \in Channels : q \notin channelSockets[g]
                     /\ registry[keyOf[q]] # q => socketChannels[inner[q]] = {})'
      BY <1>2 DEF PromptIndexes
    <3>1. socketChannels[inner[q]] \subseteq Channels
      BY DEF TypeOK
    <3>2. CASE q = r
      BY <1>1, <1>2, <1>a, <2>1, <3>1, <3>2 DEF PromptIndexes, id
    <3>3. CASE q # r
      <4>1. inner[q] \in Conns \ {id}
        BY <1>1, <3>3 DEF Tracing, TypeOK
      <4> QED
        BY <1>2, <1>a, <2>1, <3>1, <3>3, <4>1 DEF PromptIndexes
    <3> QED
      BY <3>2, <3>3
  <2> QED
    BY <2>2, <2>3
<1> QED
  BY <1>3, <1>4, <1>5, <1>6, <1>7

\* A new Channel takes the place of one whose process does not run, or of one that
\* is overtaken by this step.
LEMMA SpawnStep ==
  ASSUME IInv, NEW x \in calls, NEW n \in Runners, Spawn(n, x.ch),
         overtaken \subseteq overtaken',
         \A m \in Runners : channels[x.ch] = m /\ process[m] = "running" => m \in overtaken',
         \A y \in calls' : y \in calls \/ y.op = "bind"
  PROVE  OneOpener'
<1> DEFINE ch == x.ch
<1> USE DEF IInv
<1>1. ch \in Channels
  BY DEF TypeOK, Call
<1>2. /\ channels'[ch] = n /\ \A g \in Channels \ {ch} : channels'[g] = channels[g]
      /\ chan'[n] = ch /\ \A m \in Runners \ {n} : chan'[m] = chan[m]
      /\ process'[n] = "running" /\ \A m \in Runners \ {n} : process'[m] = process[m]
      /\ process[n] = "none" /\ exited' = exited
  BY <1>1 DEF Spawn, TypeOK
<1>3. /\ \A m \in Runners : process[m] = "running" =>
           chan[m] \in Channels /\ (m \in overtaken \/ channels[chan[m]] = m)
      /\ \A m \in Runners : exited[m] => process[m] = "exited"
      /\ \A m \in Runners : process[m] = "none" => \A g \in Channels : channels[g] # m
      /\ \A y \in calls : y.op = "restore" => y.runner = None \/ process[y.runner] = "exited"
  BY DEF OneOpener
<1>4. \A m \in Runners \ {n} :
        process[m] = "running" /\ m \notin overtaken' => chan[m] # ch
  BY <1>3
<1>5. \A y \in calls : y.runner \in Runners \cup {None}
  BY DEF TypeOK, Call
<1> HIDE DEF ch
<1>6. ASSUME NEW m \in Runners, process'[m] = "running"
      PROVE  chan'[m] \in Channels /\ (m \in overtaken' \/ channels'[chan'[m]] = m)
  <2>1. CASE m = n
    BY <1>1, <1>2, <2>1
  <2>2. CASE m # n
    BY <1>2, <1>3, <1>4, <1>6, <2>2
  <2> QED
    BY <2>1, <2>2
<1>7. \A m \in Runners : exited'[m] => process'[m] = "exited"
  BY <1>2, <1>3
<1>8. \A m \in Runners : process'[m] = "none" => \A g \in Channels : channels'[g] # m
  BY <1>2, <1>3
<1>9. ASSUME NEW y \in calls', y.op = "restore"
      PROVE  y.runner = None \/ process'[y.runner] = "exited"
  <2>1. y \in calls
    BY <1>9
  <2>2. CASE y.runner = None
    BY <2>2
  <2>3. CASE y.runner # None
    <3>1. process[y.runner] = "exited" /\ y.runner \in Runners
      BY <1>3, <1>5, <1>9, <2>1, <2>3
    <3> QED
      BY <1>2, <3>1
  <2> QED
    BY <2>2, <2>3
<1> QED
  BY <1>6, <1>7, <1>8, <1>9 DEF OneOpener

\* createEager succeeds: the end of session:launch.
LEMMA CreateStep ==
  ASSUME IInv, NEW x \in calls, NEW n \in Runners, Create(x, n)
  PROVE  IInv'
<1>1. x \in Call /\ x.ch \in Channels
  BY DEF IInv, TypeOK, Call
<1>2. /\ channelSockets' \in [Channels -> SUBSET Conns]
      /\ socketChannels' \in [Conns -> SUBSET Channels]
      /\ socketRefs' \in [Conns -> Conns \cup {None}]
      /\ subscribed' \in [Conns -> SUBSET Channels]
      /\ late' \subseteq Conns
      /\ Tracing' /\ Ownership' /\ StillReached' /\ Prompt'
  BY AttachStep DEF Create
<1>3. TypeOK'
  BY <1>1, <1>2 DEF IInv, TypeOK, Create, Spawn, Attach, connVars
<1>4. OneOpener'
  <2>1. \A m \in Runners : channels[x.ch] = m => process[m] # "running"
    BY DEF IInv, OneOpener, Create, Alive, None, Runners
  <2>2. overtaken' = overtaken /\ calls' \subseteq calls /\ Spawn(n, x.ch)
    BY DEF Create, Attach
  <2> QED
    BY <2>1, <2>2, SpawnStep
<1> QED
  BY <1>2, <1>3, <1>4 DEF IInv

\* A handler ends without an effect on the channels.
LEMMA FailStep ==
  ASSUME IInv, NEW x \in calls, Fail(x)
  PROVE  IInv'
<1> USE DEF IInv, Fail, connVars, emitterVars, channelVars, historyVars
<1>1. TypeOK'
  BY DEF TypeOK, Call, Conns, Runners, None
<1>2. Tracing'
  BY DEF TypeOK, Tracing, Fresh, Call, None
<1>3. Ownership'
  BY DEF TypeOK, Tracing, Fresh, Ownership, Call, None
<1>4. StillReached'
  BY DEF TypeOK, Tracing, Fresh, StillReached, Call, None
<1>5. Prompt'
  BY DEF TypeOK, Tracing, Fresh, Prompt, PromptConns, PromptIndexes, Call, None
<1>6. OneOpener'
  BY DEF TypeOK, OneOpener, Call, None
<1> QED
  BY <1>1, <1>2, <1>3, <1>4, <1>5, <1>6

\* ChannelManager.join spawns a process for a channel that is not alive.
LEMMA RestoreStep ==
  ASSUME IInv, NEW x \in calls, NEW n \in Runners, Restore(x, n)
  PROVE  IInv'
<1> DEFINE y == [x EXCEPT !.op = "bind", !.runner = n]
<1> USE DEF IInv, Restore, connVars, emitterVars, historyVars
<1>1. x.ch \in Channels /\ y \in Call /\ y.op = "bind" /\ y.socket = x.socket
  <2>1. /\ x \in [op : {"launch", "restore"}, socket : Conns, ch : Channels,
                 runner : Runners \cup {None}]
        /\ x.op = "restore"
    BY DEF TypeOK, Call
  <2>2. y \in [op : {"bind"}, socket : Conns, ch : Channels, runner : Runners]
    BY <2>1
  <2> QED
    BY <2>1, <2>2 DEF Call
<1>2. calls' = (calls \ {x}) \cup {y}
  OBVIOUS
<1> HIDE DEF y
<1>3. TypeOK'
  <2>1. overtaken' \subseteq Runners
    BY <1>1 DEF TypeOK
  <2> QED
    BY <1>1, <1>2, <2>1 DEF TypeOK, Spawn
<1>4. Tracing'
  <2>1. \A z \in calls' : inner[z.socket] # None
    BY <1>1, <1>2 DEF Tracing
  <2> QED
    BY <2>1 DEF Tracing, Fresh
<1>5. Ownership'
  BY DEF Ownership
<1>6. StillReached'
  BY DEF StillReached
<1>7. Prompt'
  BY DEF Prompt, PromptConns, PromptIndexes
<1>8. OneOpener'
  <2>1. x.runner = None \/ process[x.runner] = "exited"
    BY DEF OneOpener
  <2>2. ASSUME NEW m \in Runners, channels[x.ch] = m, process[m] = "running"
        PROVE  m \in overtaken'
    BY <2>1, <2>2 DEF None, Runners
  <2> QED
    BY <1>1, <1>2, <2>2, SpawnStep
<1> QED
  BY <1>3, <1>4, <1>5, <1>6, <1>7, <1>8

\* session:join wires the Channel.
LEMMA EnsureBoundStep ==
  ASSUME IInv, NEW x \in calls, EnsureBound(x)
  PROVE  IInv'
<1> USE DEF IInv, EnsureBound, connVars, emitterVars, historyVars
<1>1. TypeOK'
  BY DEF TypeOK, Call, Conns, Runners, None
<1>2. Tracing'
  BY DEF TypeOK, Tracing, Fresh, Call, None
<1>3. Ownership'
  BY DEF TypeOK, Tracing, Fresh, Ownership, Call, None
<1>4. StillReached'
  BY DEF TypeOK, Tracing, Fresh, StillReached, Call, None
<1>5. Prompt'
  BY DEF TypeOK, Tracing, Fresh, Prompt, PromptConns, PromptIndexes, Call, None
<1>6. OneOpener'
  BY DEF TypeOK, OneOpener, Call, None
<1> QED
  BY <1>1, <1>2, <1>3, <1>4, <1>5, <1>6

\* The end of session:join.
LEMMA JoinedStep ==
  ASSUME IInv, NEW x \in calls, Joined(x)
  PROVE  IInv'
<1>1. /\ channelSockets' \in [Channels -> SUBSET Conns]
      /\ socketChannels' \in [Conns -> SUBSET Channels]
      /\ socketRefs' \in [Conns -> Conns \cup {None}]
      /\ subscribed' \in [Conns -> SUBSET Channels]
      /\ late' \subseteq Conns
      /\ Tracing' /\ Ownership' /\ StillReached' /\ Prompt'
  BY AttachStep DEF Joined
<1>2. TypeOK'
  BY <1>1 DEF IInv, TypeOK, Joined, Attach, connVars, channelVars
<1>3. OneOpener'
  BY DEF IInv, Joined, Attach, channelVars, OneOpener
<1> QED
  BY <1>1, <1>2, <1>3 DEF IInv

\* A process exits.
LEMMA RunnerExitStep ==
  ASSUME IInv, NEW n \in Runners, RunnerExit(n)
  PROVE  IInv'
<1> USE DEF IInv, RunnerExit, connVars, emitterVars, historyVars
<1>1. TypeOK'
  BY DEF TypeOK, Call, Conns, Runners, None
<1>2. Tracing'
  BY DEF TypeOK, Tracing, Fresh, Call, None
<1>3. Ownership'
  BY DEF TypeOK, Tracing, Fresh, Ownership, Call, None
<1>4. StillReached'
  BY DEF TypeOK, Tracing, Fresh, StillReached, Call, None
<1>5. Prompt'
  BY DEF TypeOK, Tracing, Fresh, Prompt, PromptConns, PromptIndexes, Call, None
<1>6. OneOpener'
  BY DEF TypeOK, OneOpener, Call, None
<1> QED
  BY <1>1, <1>2, <1>3, <1>4, <1>5, <1>6

\* One case for each action of Next.
LEMMA NextInvariant == IInv /\ [Next]_vars => IInv'
<1> SUFFICES ASSUME IInv, [Next]_vars
             PROVE  IInv'
  OBVIOUS
<1>1. ASSUME NEW c \in Conns, NEW k \in Keys, Accept(k, c)
      PROVE  IInv'
  <2>1. CASE Rebind(k, c)
    BY <1>1, <2>1, RebindStep
  <2>2. CASE Register(k, c)
    BY <1>1, <2>2, RegisterStep
  <2> QED
    BY <1>1, <2>1, <2>2 DEF Accept
<1>2. CASE \E c \in Conns, ch \in Channels : Launch(c, ch) \/ Join(c, ch) \/ JoinDead(c, ch)
  BY <1>2, LaunchStep, JoinStep, JoinDeadStep
<1>3. CASE \E x \in calls, n \in Runners : Create(x, n) \/ Restore(x, n)
  BY <1>3, CreateStep, RestoreStep
<1>4. CASE \E x \in calls : Fail(x) \/ EnsureBound(x) \/ Joined(x)
  BY <1>4, FailStep, EnsureBoundStep, JoinedStep
<1>5. CASE UNCHANGED vars
  BY <1>5 DEF IInv, TypeOK, Tracing, Fresh, Ownership, StillReached, Prompt, PromptConns,
     PromptIndexes, OneOpener, Alive, vars, connVars, emitterVars, channelVars, historyVars
<1> QED
  BY <1>1, <1>2, <1>3, <1>4, <1>5, CloseStep, ExpireStep, RunnerExitStep DEF Next

\* IInv holds in every reachable state.
THEOREM Invariance == Spec => []IInv
BY InitInvariant, NextInvariant, PTL DEF Spec

-----------------------------------------------------------------------------
(* What follows from it *)

\* Every variable of the emitter, the manager and the middleware keeps its type.
THEOREM TypeCorrect == Spec => []TypeOK
<1>1. IInv => TypeOK
  BY DEF IInv
<1> QED
  BY <1>1, Invariance, PTL

\* A socket is in a channel only if a handler that acted for it put it there,
\* whatever happens to connections and their ids (reattachSocket,
\* addSocketToChannel).
THEOREM NothingForeign == Spec => []NoForeignChannel
<1>1. IInv => NoForeignChannel
  BY DEF IInv, Ownership, NoForeignChannel, Member
<1> QED
  BY <1>1, Invariance, PTL

\* broadcastAll finds every connected client in socketRefs, also when an old
\* connection closes after the new one was accepted.
THEOREM BroadcastsReach == Spec => []BroadcastReaches
<1>1. IInv => BroadcastReaches
  <2> SUFFICES ASSUME IInv, NEW r \in Conns, Connected(r)
               PROVE  \E id \in Conns : socketRefs[id] = r
    BY DEF BroadcastReaches
  <2>1. inner[r] \in Conns /\ rsOf[inner[r]] = r /\ up[inner[r]] = "open"
    BY DEF IInv, Connected, Tracing, TypeOK
  <2> QED
    BY <2>1 DEF IInv, StillReached
<1> QED
  BY <1>1, Invariance, PTL

\* channelSockets and socketChannels agree on every connected client when each
\* close is noticed before the client's next accept.
THEOREM IndexesStayInStep == Spec => []IndexesAgree
<1>1. IInv => IndexesAgree
  <2> SUFFICES ASSUME IInv, ~HalfOpen, NEW r \in Conns, Connected(r)
               PROVE  Member(r) = socketChannels[inner[r]]
    BY DEF IndexesAgree
  <2>1. /\ \A ch \in Channels : r \in channelSockets[ch] <=> ch \in socketChannels[inner[r]]
        /\ socketChannels[inner[r]] \subseteq Channels
    BY DEF IInv, Prompt, PromptIndexes, Connected, TypeOK
  <2> QED
    BY <2>1 DEF Member
<1> QED
  BY <1>1, Invariance, PTL

\* A connected client is still in every channel it launched or joined, under the
\* same condition.
THEOREM SubscriptionSurvives == Spec => []StillSubscribed
<1>1. IInv => StillSubscribed
  <2> SUFFICES ASSUME IInv, ~HalfOpen, NEW r \in Conns, Connected(r), NEW ch \in subscribed[r]
               PROVE  ch \in Member(r)
    BY DEF StillSubscribed
  <2>1. ch \in Channels
    BY DEF IInv, TypeOK
  <2>2. r \in channelSockets[ch]
    BY DEF IInv, Prompt, PromptIndexes, Connected
  <2> QED
    BY <2>1, <2>2 DEF Member
<1> QED
  BY <1>1, Invariance, PTL

\* Once the TTL of a client has expired no channel keeps its socket, except one
\* that a handler added after the client had gone; under the same condition.
THEOREM ExpiredAreForgotten == Spec => []ExpiredForgotten
<1>1. IInv => ExpiredForgotten
  BY DEF IInv, Prompt, PromptIndexes, ExpiredForgotten, Forgotten, Member
<1> QED
  BY <1>1, Invariance, PTL

\* However launches and joins overlap, a channel id has two running processes only
\* if a restore overtook one of them (createEager, ChannelManager.join,
\* Channel.exited).
THEOREM SingleProcess == Spec => []OneProcess
<1>1. IInv => OneProcess
  BY DEF IInv, OneOpener, OneProcess
<1> QED
  BY <1>1, Invariance, PTL
=============================================================================
