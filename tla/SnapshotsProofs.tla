--------------------------- MODULE SnapshotsProofs ---------------------------
(***************************************************************************)
(* Theorems about Snapshots, for every set of windows and any number of    *)
(* trees, connections, changes, entries and failing reads.                 *)
(*                                                                         *)
(* That the three accounts of a subscription agree is inductive only       *)
(* together with what makes an id name one subscription: a tree is held    *)
(* once, by a window that has mounted it, under a connection with a        *)
(* disconnect listener; and a connection that is not its window's newest   *)
(* was overtaken.                                                          *)
(***************************************************************************)
EXTENDS Snapshots, TLAPS

\* A tree has one subscription, made when it was mounted.
HeldOnce ==
  /\ \A h \in held : h[2] < mounts[h[1]]
  /\ \A h, g \in held : h[1] = g[1] /\ h[2] = g[2] => h = g

\* handleWatch has put its disconnect listener on the socket it files under.
HeldHeard == \A h \in held : <<h[1], h[3]>> \in heard

\* What is open is the window's newest connection or was overtaken by it.
Newest ==
  \A w \in Windows, c \in 1..MaxConns :
    <<w, c>> \in open => c <= conn[w] /\ (c = conn[w] \/ <<w, c>> \in overtaken)

\* The timer is the entry's.
TimerOfEntry == timer => entry # 0

Typed == TypeOK /\ TimerOfEntry

\* The parts of IInv about subscriptions.
Account == SubscriptionsAgree /\ HeldOnce /\ HeldHeard /\ Newest

IInv == Typed /\ Account

LEMMA Bounds ==
  /\ MaxTrees \in Nat /\ MaxTrees >= 1 /\ MaxConns \in Nat /\ MaxConns >= 1
  /\ MaxEntries \in Nat /\ MaxEntries >= 1 /\ MaxChanges \in Nat /\ MaxFailures \in Nat
BY ConstantsAssumption DEF ConstantsAssumption

LEMMA InitIInv == Init => IInv
<1> SUFFICES ASSUME Init PROVE IInv
  OBVIOUS
<1>1. 1 \in Versions /\ 1 \in 1..MaxConns /\ 0 \in 0..MaxTrees /\ 0 \in 0..MaxEntries
      /\ 0 \in 0..MaxFailures
  BY Bounds DEF Versions
<1>2. open \subseteq Connections
  BY <1>1 DEF Init, Connections
<1>3. TypeOK
  <2>1. watching \in BOOLEAN /\ timer \in BOOLEAN
    BY DEF Init
  <2>2. entry \in 0..entries /\ entries \in 0..MaxEntries
    BY <1>1 DEF Init
  <2>3. /\ mounts \in [Windows -> 0..MaxTrees]
        /\ conn \in [Windows -> 1..MaxConns]
        /\ shown \in [Subscribers -> {0} \cup Versions]
    BY <1>1 DEF Init
  <2> QED
    BY <1>1, <1>2, <2>1, <2>2, <2>3 DEF Init, TypeOK
<1>4. Newest
  BY <1>1 DEF Init, Newest
<1> QED
  BY <1>3, <1>4
     DEF Init, IInv, Typed, Account, SubscriptionsAgree, WatchedIsDelivered, CalledIsHeld, HeldByOpen, HeldOnce,
         HeldHeard, TimerOfEntry

-----------------------------------------------------------------------------
(* Types *)

\* Emit shows a version.
LEMMA EmitType ==
  ASSUME TypeOK, NEW S, NEW v \in Versions, Emit(S, v)
  PROVE  shown' \in [Subscribers -> {0} \cup Versions]
BY DEF TypeOK, Emit

LEMMA StartReadType ==
  ASSUME TypeOK, NEW e \in 1..MaxEntries, NEW s \in SUBSET Subscribers, StartRead(e, s)
  PROVE  reads' \subseteq Read
<1>1. (s = {}) \in BOOLEAN /\ {} \in SUBSET Subscribers /\ disk \in Versions
  BY DEF TypeOK
<1>2. [entry |-> e, from |-> disk, change |-> s = {}, first |-> s, waiters |-> {}] \in Read
  BY <1>1 DEF Read
<1> QED
  BY <1>2 DEF TypeOK, StartRead

LEMMA ReadDoneTyped ==
  ASSUME Typed, NEW r \in reads, NEW v \in Versions, ReadDone(r, v)
  PROVE  Typed'
<1>1. shown' \in [Subscribers -> {0} \cup Versions]
  BY EmitType DEF Typed, ReadDone, TypeOK
<1> QED
  BY <1>1 DEF Typed, TimerOfEntry, ReadDone, TypeOK, clientVars, handlerVars, Reasons

LEMMA ReadFailsTyped ==
  ASSUME Typed, NEW r \in reads, ReadFails(r)
  PROVE  Typed'
<1>1. shown' \in [Subscribers -> {0} \cup Versions]
  BY EmitType DEF Typed, ReadFails, TypeOK
<1>2. failures' \in 0..MaxFailures
  <2>1. failures \in 0..MaxFailures /\ failures < MaxFailures /\ failures' = failures + 1
    BY DEF Typed, ReadFails, TypeOK
  <2> QED
    BY <2>1, Bounds
<1>3. missed' \subseteq Reasons
  BY DEF Typed, ReadFails, TypeOK, Reasons
<1> QED
  BY <1>1, <1>2, <1>3 DEF Typed, TimerOfEntry, ReadFails, TypeOK, clientVars, handlerVars

LEMMA SourceChangeTyped ==
  ASSUME Typed, SourceChange
  PROVE  Typed' /\ entry \in 1..MaxEntries
<1>1. entry # 0
  BY Zenon DEF Typed, TimerOfEntry, SourceChange
<1>2. entry \in 1..MaxEntries
  BY <1>1, Bounds DEF Typed, TypeOK
<1>3. reads' \subseteq Read
  BY <1>2, StartReadType DEF Typed, SourceChange, TypeOK
<1> QED
  BY <1>2, <1>3 DEF Typed, TimerOfEntry, SourceChange, TypeOK, clientVars, handlerVars, Reasons

LEMMA ChangeTyped ==
  ASSUME Typed, Change
  PROVE  Typed'
<1>1. disk <= MaxChanges /\ disk' = disk + 1 /\ timer' \in BOOLEAN /\ missed' \subseteq Reasons
  BY Zenon DEF Typed, TypeOK, Change, Reasons
<1>2. disk' \in Versions
  BY <1>1, Bounds DEF Typed, TypeOK, Versions
<1>3. TypeOK'
  BY <1>1, <1>2 DEF Typed, Change, TypeOK, clientVars, handlerVars
<1>4. TimerOfEntry'
  BY Zenon DEF Typed, Change, TimerOfEntry
<1> QED
  BY <1>3, <1>4 DEF Typed

LEMMA WatcherReadyTyped ==
  ASSUME Typed, WatcherReady
  PROVE  Typed'
BY DEF Typed, TimerOfEntry, WatcherReady, TypeOK, clientVars, handlerVars

LEMMA ReconnectTyped ==
  ASSUME Typed, NEW w \in Windows, Reconnect(w)
  PROVE  Typed'
BY Bounds DEF Typed, TimerOfEntry, Reconnect, TypeOK, handlerVars, entryVars, Connections

\* A new subscription, to a new entry or to the one there is.
LEMMA SubscribeAdds ==
  ASSUME Typed, NEW s \in Subscribers, Subscribe(s)
  PROVE  /\ subs' \subseteq subs \cup {s} /\ s \in subs' /\ entry' # 0
         /\ entry' \in 0..entries' /\ entries' \in 0..MaxEntries
         /\ last' = last /\ watching' = watching /\ timer' = timer
         /\ reads' \subseteq Read
         /\ shown' \in [Subscribers -> {0} \cup Versions]
         /\ missed' \subseteq Reasons
<1>1. CASE entry = 0
  <2>1. entries + 1 \in 1..MaxEntries
    BY <1>1, Bounds DEF Typed, TypeOK, Subscribe
  <2>2. reads' \subseteq Read
    BY <1>1, <2>1, StartReadType DEF Typed, Subscribe
  <2> QED
    BY <1>1, <2>1, <2>2 DEF Typed, Subscribe, TypeOK
<1>2. CASE entry # 0
  <2>1. subs' \subseteq subs \cup {s} /\ s \in subs'
    BY <1>2 DEF Subscribe
  <2>2. entry \in 1..MaxEntries
    BY <1>2, Bounds DEF Typed, TypeOK
  <2>3. reads' \subseteq Read /\ shown' \in [Subscribers -> {0} \cup Versions]
    <3>1. CASE last # 0
      BY <1>2, <3>1, EmitType DEF Typed, Subscribe, TypeOK
    <3>2. CASE last = 0 /\ Reading
      BY <1>2, <3>2 DEF Typed, Subscribe, TypeOK, JoinRead, Read
    <3>3. CASE last = 0 /\ ~Reading
      BY <1>2, <2>2, <3>3, StartReadType DEF Typed, Subscribe, TypeOK
    <3> QED
      BY <3>1, <3>2, <3>3
  <2> QED
    BY <1>2, <2>1, <2>2, <2>3 DEF Typed, Subscribe, TypeOK
<1> QED
  BY <1>1, <1>2

\* What is taken off others was subscribed.
LEMMA UsurpTyped ==
  ASSUME Typed, NEW w \in Windows, Usurp(w)
  PROVE  usurped' \subseteq Subscribers
BY DEF Typed, TypeOK, Usurp

LEMMA WatchTyped ==
  ASSUME Typed, NEW w \in Windows, NEW n \in Trees, Watch(w, n)
  PROVE  /\ Typed' /\ <<w, n>> \in Subscribers /\ conn[w] \in 1..MaxConns
<1>1. n \in Trees /\ <<w, n>> \in Subscribers /\ conn[w] \in 1..MaxConns
  BY DEF Typed, TypeOK, Watch, Subscribers
<1>2. /\ subs' \subseteq subs \cup {<<w, n>>} /\ entry' # 0
      /\ entry' \in 0..entries' /\ entries' \in 0..MaxEntries
      /\ last' = last /\ watching' = watching /\ timer' = timer
      /\ reads' \subseteq Read
      /\ shown' \in [Subscribers -> {0} \cup Versions]
      /\ missed' \subseteq Reasons
  BY <1>1, SubscribeAdds DEF Watch
<1>3. mounts' \in [Windows -> 0..MaxTrees]
  <2>1. n + 1 \in 0..MaxTrees
    BY <1>1, Bounds DEF Trees
  <2> QED
    BY <2>1 DEF Typed, TypeOK, Watch
<1>4. held' \subseteq Windows \X Trees \X (1..MaxConns) /\ heard' \subseteq Connections
  BY <1>1 DEF Typed, TypeOK, Watch, Connections
<1>5. subs' \subseteq Subscribers /\ usurped' \subseteq Subscribers
  BY <1>1, <1>2, UsurpTyped DEF Typed, TypeOK, Watch
<1> QED
  BY <1>1, <1>2, <1>3, <1>4, <1>5 DEF Typed, TimerOfEntry, TypeOK, Watch

\* Callbacks are taken off by their ids.
LEMMA UnsubscribeTyped ==
  ASSUME Typed, NEW I, Unsubscribe(I)
  PROVE  /\ subs' = {s \in subs : Id(s) \notin I}
         /\ entry' = IF subs' = {} THEN 0 ELSE entry
         /\ last' \in {0} \cup Versions /\ watching' \in BOOLEAN /\ timer' \in BOOLEAN
         /\ timer' => entry' # 0
BY DEF Typed, TypeOK, TimerOfEntry, Unsubscribe

LEMMA UnwatchTyped ==
  ASSUME Typed, NEW w \in Windows, NEW n \in Trees, Unwatch(w, n)
  PROVE  Typed'
<1>1. /\ subs' \subseteq subs /\ entry' \in {0, entry}
      /\ last' \in {0} \cup Versions /\ watching' \in BOOLEAN /\ timer' \in BOOLEAN
      /\ timer' => entry' # 0
      /\ usurped' \subseteq Subscribers
  BY UnsubscribeTyped, UsurpTyped DEF Unwatch
<1> QED
  BY <1>1, Bounds DEF Typed, TimerOfEntry, TypeOK, Unwatch, clientVars

LEMMA CloseTyped ==
  ASSUME Typed, NEW w \in Windows, NEW c \in 1..MaxConns, Close(w, c)
  PROVE  Typed'
<1>1. /\ subs' \subseteq subs /\ entry' \in {0, entry}
      /\ last' \in {0} \cup Versions /\ watching' \in BOOLEAN /\ timer' \in BOOLEAN
      /\ timer' => entry' # 0
      /\ usurped' \subseteq Subscribers
  BY UnsubscribeTyped, UsurpTyped DEF Close
<1> QED
  BY <1>1, Bounds DEF Typed, TimerOfEntry, TypeOK, Close

LEMMA NextTyped ==
  ASSUME Typed, [Next]_vars
  PROVE  Typed'
<1>1. CASE \E w \in Windows, n \in Trees : Watch(w, n)
  BY <1>1, WatchTyped
<1>2. CASE \E w \in Windows : Reconnect(w)
  BY <1>2, ReconnectTyped
<1>3. CASE \E w \in Windows, n \in Trees : Unwatch(w, n)
  BY <1>3, UnwatchTyped
<1>4. CASE \E w \in Windows, c \in 1..MaxConns : Close(w, c)
  BY <1>4, CloseTyped
<1>5. CASE Change \/ WatcherReady \/ SourceChange
  BY <1>5, ChangeTyped, WatcherReadyTyped, SourceChangeTyped
<1>6. CASE \E r \in reads : ReadFails(r) \/ \E v \in Versions : ReadDone(r, v)
  BY <1>6, ReadFailsTyped, ReadDoneTyped
<1>7. CASE UNCHANGED vars
  BY <1>7 DEF Typed, TypeOK, TimerOfEntry, vars, clientVars, handlerVars, entryVars
<1> QED
  BY <1>1, <1>2, <1>3, <1>4, <1>5, <1>6, <1>7 DEF Next

-----------------------------------------------------------------------------
(* The three accounts of a subscription *)

LEMMA AccountUnchanged ==
  ASSUME Account, UNCHANGED <<mounts, conn, open, overtaken, held, heard, entry, subs, usurped>>
  PROVE  Account'
BY DEF Account, SubscriptionsAgree, WatchedIsDelivered, CalledIsHeld, HeldByOpen, HeldOnce,
       HeldHeard, Newest

LEMMA QuietAccount ==
  ASSUME Account,
         \/ Change \/ WatcherReady \/ SourceChange
         \/ \E r \in reads : ReadFails(r) \/ \E v \in Versions : ReadDone(r, v)
  PROVE  Account'
BY AccountUnchanged DEF ReadDone, ReadFails, SourceChange, Change, WatcherReady, clientVars, handlerVars

LEMMA ReconnectAccount ==
  ASSUME IInv, NEW w \in Windows, Reconnect(w)
  PROVE  Account'
<1>1. Newest'
  BY Bounds DEF IInv, Typed, Account, Reconnect, TypeOK, Newest, Connections
<1> QED
  BY <1>1
     DEF IInv, Account, Reconnect, SubscriptionsAgree, WatchedIsDelivered, CalledIsHeld, HeldByOpen,
         HeldOnce, HeldHeard, handlerVars, entryVars

LEMMA WatchAccount ==
  ASSUME IInv, NEW w \in Windows, NEW n \in Trees, Watch(w, n)
  PROVE  Account'
<1>1. <<w, n>> \in Subscribers /\ conn[w] \in 1..MaxConns
  BY WatchTyped DEF IInv
<1>2. entry' # 0 /\ <<w, n>> \in subs' /\ subs' \subseteq subs \cup {<<w, n>>}
  BY <1>1, SubscribeAdds DEF Watch, IInv
<1>3. held' = held \cup {<<w, n, conn[w]>>} /\ heard' = heard \cup {<<w, conn[w]>>}
  BY DEF Watch
<1>4. mounts' = [mounts EXCEPT ![w] = n + 1] /\ n >= mounts[w]
  BY DEF Watch
<1>5. \A h \in held : h[2] \in Nat /\ mounts[h[1]] \in Nat /\ h[1] \in Windows
  BY Bounds DEF IInv, Typed, TypeOK, Trees
<1>6. \A h \in held : ~(h[1] = w /\ h[2] = n)
  BY <1>4, <1>5, Bounds DEF IInv, Account, HeldOnce, Trees
<1>7. HeldOnce'
  <2>1. \A h \in held' : h \in held \/ h = <<w, n, conn[w]>>
    BY <1>3
  <2>2. \A h \in held : h[2] < mounts[h[1]]
    BY DEF IInv, Account, HeldOnce
  <2>3. ASSUME NEW h \in held PROVE h[2] < mounts'[h[1]]
    <3>1. PICK k \in Nat : k = mounts[h[1]]
      BY <1>5
    <3>2. h[2] < k /\ h[2] \in Nat /\ n \in Nat
      BY <1>5, <2>2, <3>1, Bounds DEF Trees
    <3>3. CASE h[1] = w
      <4>1. mounts'[w] = n + 1
        BY <1>4 DEF IInv, Typed, TypeOK
      <4>2. k <= n
        BY <1>4, <3>1, <3>2, <3>3
      <4> QED
        BY <3>2, <3>3, <4>1, <4>2
    <3>4. CASE h[1] # w
      BY <1>4, <1>5, <2>2, <3>4 DEF IInv, Typed, TypeOK
    <3> QED
      BY <3>3, <3>4
  <2>4. n < mounts'[w]
    BY <1>4, Bounds DEF IInv, Typed, TypeOK, Trees
  <2>5. \A h \in held' : h[2] < mounts'[h[1]]
    BY <2>1, <2>3, <2>4
  <2>6. ASSUME NEW h \in held', NEW g \in held', h[1] = g[1], h[2] = g[2] PROVE h = g
    BY <1>6, <2>1, <2>6 DEF IInv, Account, HeldOnce
  <2> QED
    BY <2>5, <2>6 DEF HeldOnce
<1>8. WatchedIsDelivered' /\ CalledIsHeld' /\ HeldByOpen'
  <2>1. <<w, conn[w]>> \in open /\ open' = open /\ overtaken' = overtaken
    BY DEF Watch
  <2>2. \A h \in held' : h \in held \/ (h[1] = w /\ h[2] = n /\ h[3] = conn[w])
    BY <1>3
  <2>3. WatchedIsDelivered'
    <3> SUFFICES ASSUME NEW h \in held, <<h[1], h[2]>> \notin usurped'
                 PROVE  <<h[1], h[2]>> \in subs'
      BY <1>2, <2>2 DEF WatchedIsDelivered
    <3>1. usurped' = usurped \cup {s \in subs \ subs' : s[1] # w}
      BY DEF Watch, Usurp
    <3>2. <<h[1], h[2]>> \in subs
      BY <3>1 DEF IInv, Account, SubscriptionsAgree, WatchedIsDelivered
    <3>3. CASE h[1] # w
      BY <3>1, <3>2, <3>3
    <3>4. CASE h[1] = w
      <4>1. h[2] # n
        BY <1>6, <3>4
      <4>2. entry # 0
        BY <3>2 DEF IInv, Account, SubscriptionsAgree, CalledIsHeld
      <4> QED
        BY <3>2, <4>1, <4>2 DEF Watch, Subscribe, Id
    <3> QED
      BY <3>3, <3>4
  <2>4. CalledIsHeld'
    <3>1. <<<<w, n, conn[w]>>[1], <<w, n, conn[w]>>[2]>> = <<w, n>>
      OBVIOUS
    <3>2. \A s \in subs' : \E h \in held' : <<h[1], h[2]>> = s
      BY <1>2, <1>3, <3>1 DEF IInv, Account, SubscriptionsAgree, CalledIsHeld
    <3> QED
      BY <1>2, <3>2 DEF CalledIsHeld
  <2>5. HeldByOpen'
    BY <2>1, <2>2 DEF IInv, Account, SubscriptionsAgree, HeldByOpen
  <2> QED
    BY <2>3, <2>4, <2>5
<1> QED
  BY <1>3, <1>7, <1>8 DEF IInv, Account, Watch, SubscriptionsAgree, HeldHeard, Newest

\* The subscriptions of D, trees of one window, end in the handlers and in the broadcaster:
\* with them goes whatever had the same ids, which is nothing else of this window.
LEMMA Taken ==
  ASSUME IInv, NEW w, NEW D \in SUBSET held, \A h \in D : h[1] = w,
         held' = held \ D, Unsubscribe({Id(<<w, h[2]>>) : h \in D}), Usurp(w)
  PROVE  WatchedIsDelivered' /\ CalledIsHeld'
<1> DEFINE I == {Id(<<w, h[2]>>) : h \in D}
<1>1. /\ subs' = {s \in subs : Id(s) \notin I} /\ entry' = IF subs' = {} THEN 0 ELSE entry
      /\ usurped' = usurped \cup {s \in subs \ subs' : s[1] # w}
  BY UnsubscribeTyped DEF IInv, Usurp
<1>2. \A s \in subs : Id(s) \in I <=> \E h \in D : s[2] = h[2]
  BY DEF Id
<1>3. WatchedIsDelivered'
  <2> SUFFICES ASSUME NEW h \in held, h \notin D, <<h[1], h[2]>> \notin usurped'
               PROVE  <<h[1], h[2]>> \in subs'
    BY DEF WatchedIsDelivered
  <2>1. <<h[1], h[2]>> \in subs
    BY <1>1 DEF IInv, Account, SubscriptionsAgree, WatchedIsDelivered
  <2>2. CASE h[1] # w
    BY <1>1, <2>1, <2>2
  <2>3. CASE h[1] = w
    <3>1. \A g \in D : h[2] # g[2]
      BY <2>3 DEF IInv, Account, HeldOnce
    <3> QED
      BY <1>1, <1>2, <2>1, <3>1
  <2> QED
    BY <2>2, <2>3
<1>4. \A s \in subs' : \E h \in held' : <<h[1], h[2]>> = s
  <2> SUFFICES ASSUME NEW s \in subs' PROVE \E h \in held' : <<h[1], h[2]>> = s
    OBVIOUS
  <2>1. s \in subs /\ Id(s) \notin I
    BY <1>1
  <2>2. PICK h \in held : <<h[1], h[2]>> = s
    BY <2>1 DEF IInv, Account, SubscriptionsAgree, CalledIsHeld
  <2>3. h \notin D
    BY <1>2, <2>1, <2>2
  <2> QED
    BY <2>2, <2>3
<1>5. entry' # 0 <=> subs' # {}
  BY <1>1 DEF IInv, Account, SubscriptionsAgree, CalledIsHeld
<1> QED
  BY <1>3, <1>4, <1>5 DEF CalledIsHeld

LEMMA UnwatchAccount ==
  ASSUME IInv, NEW w \in Windows, NEW n \in Trees, Unwatch(w, n)
  PROVE  Account'
<1> DEFINE h == <<w, n, conn[w]>>
<1>1. h \in held /\ held' = held \ {h} /\ Unsubscribe({Id(<<w, n>>)}) /\ Usurp(w)
  BY DEF Unwatch
<1>2. {Id(<<w, g[2]>>) : g \in {h}} = {Id(<<w, n>>)} /\ \A g \in {h} : g[1] = w
  OBVIOUS
<1>3. WatchedIsDelivered' /\ CalledIsHeld'
  <2>1. PICK D \in SUBSET held : D = {h}
    BY <1>1
  <2>2. Unsubscribe({Id(<<w, g[2]>>) : g \in D}) /\ held' = held \ D /\ \A g \in D : g[1] = w
    BY <1>1, <1>2, <2>1
  <2> QED
    BY <1>1, <2>2, Taken
<1> QED
  BY <1>1, <1>3
     DEF IInv, Account, Unwatch, clientVars, SubscriptionsAgree, HeldByOpen, HeldOnce, HeldHeard, Newest

LEMMA CloseAccount ==
  ASSUME IInv, NEW w \in Windows, NEW c \in 1..MaxConns, Close(w, c)
  PROVE  Account'
<1> DEFINE D == Dropped(w, c)
<1>1. D \in SUBSET held /\ held' = held \ D /\ \A h \in D : h[1] = w
  BY DEF Close, Dropped
<1>3. WatchedIsDelivered' /\ CalledIsHeld'
  BY <1>1, Taken DEF Close
<1>4. HeldByOpen'
  <2> SUFFICES ASSUME NEW h \in held, h \notin D
               PROVE  <<h[1], h[3]>> \in open' \cup overtaken'
    BY <1>1 DEF HeldByOpen
  <2>1. CASE <<h[1], h[3]>> = <<w, c>>
    <3>1. h[1] = w /\ h[3] = c /\ <<w, c>> \in heard /\ <<w, c>> \in open
      BY <2>1 DEF IInv, Account, HeldHeard, Close
    <3>2. c # conn[w]
      BY <3>1 DEF Dropped
    <3> QED
      BY <2>1, <3>1, <3>2 DEF IInv, Account, Newest, Close
  <2>2. CASE <<h[1], h[3]>> # <<w, c>>
    BY <2>2 DEF IInv, Account, SubscriptionsAgree, HeldByOpen, Close
  <2> QED
    BY <2>1, <2>2
<1> QED
  BY <1>1, <1>3, <1>4 DEF IInv, Account, Close, SubscriptionsAgree, HeldOnce, HeldHeard, Newest

LEMMA NextAccount ==
  ASSUME IInv, [Next]_vars
  PROVE  Account'
<1>1. CASE \E w \in Windows, n \in Trees : Watch(w, n)
  BY <1>1, WatchAccount
<1>2. CASE \E w \in Windows : Reconnect(w)
  BY <1>2, ReconnectAccount
<1>3. CASE \E w \in Windows, n \in Trees : Unwatch(w, n)
  BY <1>3, UnwatchAccount
<1>4. CASE \E w \in Windows, c \in 1..MaxConns : Close(w, c)
  BY <1>4, CloseAccount
<1>5. CASE \/ Change \/ WatcherReady \/ SourceChange
           \/ \E r \in reads : ReadFails(r) \/ \E v \in Versions : ReadDone(r, v)
  BY <1>5, QuietAccount DEF IInv
<1>6. CASE UNCHANGED vars
  BY <1>6, AccountUnchanged DEF IInv, vars, clientVars, handlerVars, entryVars
<1> QED
  BY <1>1, <1>2, <1>3, <1>4, <1>5, <1>6 DEF Next

-----------------------------------------------------------------------------
(* What the trees show.  Fresh speaks of a directory with nothing on its way; what makes *)
(* it inductive is what holds while a read is: no timer is armed and nothing was missed, *)
(* so that every read of the entry began after the last change, and a tree that does not *)
(* show the directory as it is will be among the receivers of one.                       *)

Settled == entry # 0 /\ ~timer /\ missed = {}

\* A read of the entry will be delivered to s.
Due(s) == \E r \in reads : r.entry = entry /\ (r.change \/ s \in r.first \cup r.waiters)

Rereading == \E r \in reads : r.entry = entry /\ r.change

UpToDate ==
  /\ \A r \in reads : r.entry = entry => r.from = disk
  /\ last # disk => Reading
  /\ last \in {0, disk} \/ Rereading
  /\ \A s \in subs : shown[s] = disk \/ Due(s)

Sound ==
  /\ \A r \in reads : r.entry <= entries
  /\ entry = 0 => last = 0
  /\ Settled => UpToDate

\* What is emitted is shown to the receivers; a tree that did not get it shows what it did.
LEMMA EmitShows ==
  ASSUME TypeOK, NEW S, NEW v, Emit(S, v), NEW s \in Subscribers
  PROVE  /\ shown'[s] \in {v, shown[s]}
         /\ s \in S => shown'[s] = v
BY DEF Emit

\* A tree that asks during a read joins it.
LEMMA JoinReadDue ==
  ASSUME TypeOK, NEW s \in Subscribers, JoinRead(s)
  PROVE  /\ \A q \in reads' : \E r \in reads : /\ q.entry = r.entry /\ q.from = r.from
                                               /\ q.change = r.change
         /\ \A r \in reads : \E q \in reads' : /\ q.entry = r.entry /\ q.change = r.change
                                               /\ q.first = r.first /\ r.waiters \subseteq q.waiters
                                               /\ r.entry = entry => s \in q.waiters
<1> DEFINE joined(r) == IF r.entry = entry THEN [r EXCEPT !.waiters = @ \cup {s}] ELSE r
<1>1. reads' = {joined(r) : r \in reads}
  BY DEF JoinRead
<1>2. \A r \in reads : /\ joined(r).entry = r.entry /\ joined(r).from = r.from
                       /\ joined(r).change = r.change /\ joined(r).first = r.first
                       /\ r.waiters \subseteq joined(r).waiters
                       /\ r.entry = entry => s \in joined(r).waiters
  <2> SUFFICES ASSUME NEW r \in reads
               PROVE  /\ joined(r).entry = r.entry /\ joined(r).from = r.from
                      /\ joined(r).change = r.change /\ joined(r).first = r.first
                      /\ r.waiters \subseteq joined(r).waiters
                      /\ r.entry = entry => s \in joined(r).waiters
    OBVIOUS
  <2>1. r \in Read
    BY DEF TypeOK
  <2> QED
    BY <2>1 DEF Read
<1> HIDE DEF joined
<1> QED
  BY <1>1, <1>2

\* A read that was begun.
LEMMA StartReadDue ==
  ASSUME TypeOK, NEW e \in 1..MaxEntries, NEW S \in SUBSET Subscribers, StartRead(e, S)
  PROVE  \E q \in Read : /\ reads' = reads \cup {q}
                         /\ q.entry = e /\ q.from = disk /\ q.first = S
                         /\ S = {} => q.change
<1> DEFINE q == [entry |-> e, from |-> disk, change |-> S = {}, first |-> S, waiters |-> {}]
<1>1. q.entry = e /\ q.from = disk /\ q.first = S /\ q.change = (S = {}) /\ reads' = reads \cup {q}
  BY DEF StartRead
<1>2. q \in Read
  <2>1. (S = {}) \in BOOLEAN /\ {} \in SUBSET Subscribers /\ disk \in Versions
    BY DEF TypeOK
  <2> QED
    BY <2>1 DEF Read
<1> QED
  BY <1>1, <1>2

LEMMA SoundUnchanged ==
  ASSUME Sound, UNCHANGED <<disk, entry, entries, reads, last, timer, missed, subs, shown>>
  PROVE  Sound'
BY DEF Sound, Settled, UpToDate, Due, Rereading, Reading

\* A read of the entry resolves with the directory as it is; one of an old entry does, or
\* something is missed.
LEMMA ReadDoneSound ==
  ASSUME Typed, Sound, NEW r \in reads, NEW v \in Versions, ReadDone(r, v)
  PROVE  Sound'
<1>1. /\ reads' = reads \ {r} /\ v \in r.from..disk
      /\ UNCHANGED <<disk, entry, entries, subs, timer>>
      /\ entry = 0 => last' = last
  BY DEF ReadDone
<1>2. ASSUME Settled' PROVE UpToDate'
  <2>1. /\ Settled /\ last' = v /\ Emit(Receivers(r), v)
        /\ r.entry # entry => ~(v < disk)
    <3>1. entry # 0 /\ timer' = timer /\ ~timer' /\ missed' = {}
      BY <1>1, <1>2, Zenon DEF Settled
    <3>2. /\ last' = v /\ Emit(Receivers(r), v)
          /\ missed' = missed \cup (IF r.entry # entry /\ v < disk THEN {"read of an old entry"} ELSE {})
      BY <3>1 DEF ReadDone
    <3>3. missed = {} /\ (r.entry # entry => ~(v < disk))
      BY <3>1, <3>2
    <3> QED
      BY <3>1, <3>2, <3>3 DEF Settled
  <2>2. UpToDate
    BY <2>1 DEF Sound
  <2>3. v = disk
    <3>1. v \in Nat /\ disk \in Nat /\ r.from \in Nat
      BY Bounds DEF Typed, TypeOK, Versions, Read
    <3>2. CASE r.entry = entry
      BY <1>1, <2>2, <3>1, <3>2 DEF UpToDate
    <3>3. CASE r.entry # entry
      BY <1>1, <2>1, <3>1, <3>3
    <3> QED
      BY <3>2, <3>3
  <2>4. ASSUME NEW s \in subs PROVE shown'[s] = disk \/ Due(s)'
    <3>1. s \in Subscribers
      BY DEF Typed, TypeOK
    <3>2. shown'[s] \in {disk, shown[s]} /\ (s \in Receivers(r) => shown'[s] = disk)
      BY <2>1, <2>3, <3>1, EmitShows DEF Typed
    <3>3. CASE shown[s] = disk
      BY <3>2, <3>3
    <3>4. CASE Due(s)
      <4>1. PICK q \in reads : q.entry = entry /\ (q.change \/ s \in q.first \cup q.waiters)
        BY <3>4 DEF Due
      <4>2. CASE q = r
        <5>1. s \in Receivers(r)
          BY <4>1, <4>2 DEF Receivers, Listed, Ids, Typed, TypeOK
        <5> QED
          BY <3>2, <5>1
      <4>3. CASE q # r
        BY <1>1, <4>1, <4>3 DEF Due
      <4> QED
        BY <4>2, <4>3
    <3> QED
      BY <2>2, <3>3, <3>4 DEF UpToDate
  <2>5. \A q \in reads' : q.entry = entry => q.from = disk
    BY <1>1, <2>2 DEF UpToDate
  <2> QED
    BY <1>1, <2>1, <2>3, <2>4, <2>5 DEF UpToDate
<1> QED
  BY <1>1, <1>2 DEF Sound

\* A read of an old entry that fails takes nothing from this one.
LEMMA ReadFailsSound ==
  ASSUME Typed, Sound, NEW r \in reads, ReadFails(r)
  PROVE  Sound'
<1>1. /\ reads' = reads \ {r} /\ UNCHANGED <<disk, entry, entries, subs, last, timer>>
      /\ missed' = missed \cup (IF r.entry = entry THEN {"read failed"} ELSE {})
      /\ IF last = 0 THEN UNCHANGED shown ELSE Emit(Listed(r.waiters), last)
  BY DEF ReadFails
<1>2. ASSUME Settled' PROVE UpToDate'
  <2>1. Settled /\ r.entry # entry
    BY <1>1, <1>2 DEF Settled
  <2>2. UpToDate
    BY <2>1 DEF Sound
  <2>3. \A q \in reads : q.entry = entry => q \in reads'
    BY <1>1, <2>1
  <2>4. Reading' <=> Reading
    BY <1>1, <2>3 DEF Reading
  <2>5. Rereading => Rereading'
    BY <1>1, <2>3 DEF Rereading
  <2>6. \A s \in subs : Due(s) => Due(s)'
    BY <1>1, <2>3 DEF Due
  <2>7. ASSUME NEW s \in subs PROVE shown'[s] = disk \/ Due(s)'
    <3>1. s \in Subscribers
      BY DEF Typed, TypeOK
    <3>2. shown'[s] = shown[s] \/ (last # 0 /\ shown'[s] = last)
      BY <1>1, <3>1, EmitShows DEF Typed
    <3>3. Rereading => Due(s)
      BY DEF Rereading, Due
    <3> QED
      BY <2>2, <2>6, <3>2, <3>3 DEF UpToDate
  <2> QED
    BY <1>1, <2>2, <2>4, <2>5, <2>7 DEF UpToDate
<1> QED
  BY <1>1, <1>2 DEF Sound

\* After a change the directory is read again, or the change is missed.
LEMMA SourceChangeSound ==
  ASSUME Typed, Sound, SourceChange
  PROVE  Sound'
<1>1. /\ UNCHANGED <<disk, shown, entry, entries, subs, last>>
      /\ entry \in 1..MaxEntries
  BY SourceChangeTyped DEF SourceChange
<1>2. CASE Reading
  <2>1. missed' # {} /\ reads' = reads
    BY <1>2 DEF SourceChange
  <2> QED
    BY <1>1, <2>1 DEF Sound, Settled
<1>3. CASE ~Reading
  <2>1. StartRead(entry, {})
    BY <1>3 DEF SourceChange
  <2>2. PICK q \in Read : /\ reads' = reads \cup {q}
                          /\ q.entry = entry /\ q.from = disk /\ q.change
    BY <1>1, <2>1, StartReadDue DEF Typed
  <2>3. \A r \in reads' : r.entry = entry => r = q
    BY <1>3, <2>2 DEF Reading
  <2>4. UpToDate'
    BY <1>1, <2>2, <2>3 DEF UpToDate, Reading, Rereading, Due
  <2>5. \A r \in reads' : r.entry <= entries
    <3>1. entry <= entries
      BY Bounds DEF Typed, TypeOK
    <3> QED
      BY <2>2, <3>1 DEF Sound
  <2> QED
    BY <1>1, <2>4, <2>5 DEF Sound
<1> QED
  BY <1>2, <1>3

\* A change of a directory that is watched arms the timer, or is missed.
LEMMA ChangeSound ==
  ASSUME Typed, Sound, Change
  PROVE  Sound'
<1>1. ~Settled'
  BY DEF Change, Settled
<1> QED
  BY <1>1 DEF Sound, Change

\* A subscription to a new entry begins a read, one to the entry there is is answered at
\* once, joins a read or begins one.
LEMMA SubscribeSound ==
  ASSUME Typed, Sound, NEW s \in Subscribers, Subscribe(s), UNCHANGED disk
  PROVE  Sound'
<1>0. subs' \subseteq subs \cup {s}
  BY SubscribeAdds
<1>1. CASE entry = 0
  <2>1. /\ entries' = entries + 1 /\ entry' = entries + 1 /\ subs' = {s}
        /\ StartRead(entries + 1, {s}) /\ last' = 0 /\ entries + 1 \in 1..MaxEntries
    BY <1>1, Bounds DEF Typed, TypeOK, Sound, Subscribe
  <2>2. PICK q \in Read : /\ reads' = reads \cup {q}
                          /\ q.entry = entries + 1 /\ q.from = disk /\ q.first = {s}
    BY <2>1, StartReadDue DEF Typed
  <2>3. \A r \in reads : r.entry <= entries /\ r.entry \in Nat /\ entries \in Nat
    BY Bounds DEF Sound, Typed, TypeOK, Read
  <2>4. \A r \in reads' : r.entry <= entries'
    BY <2>1, <2>2, <2>3
  <2>5. \A r \in reads' : r.entry = entry' => r = q
    BY <2>1, <2>2, <2>3
  <2>6. UpToDate'
    BY <2>1, <2>2, <2>5 DEF UpToDate, Reading, Due
  <2> QED
    BY <2>1, <2>4, <2>6 DEF Sound
<1>2. CASE entry # 0
  <2>1. UNCHANGED <<entry, entries, last, timer, missed>>
    BY <1>2 DEF Subscribe
  <2>2. \A r \in reads : r.entry <= entries
    BY DEF Sound
  <2>3. CASE last # 0
    <3>1. Emit({s}, last) /\ reads' = reads
      BY <1>2, <2>3 DEF Subscribe
    <3>2. ASSUME Settled, NEW t \in subs' PROVE shown'[t] = disk \/ Due(t)'
      <4>1. t \in Subscribers /\ UpToDate
        BY <1>0, <3>2 DEF Typed, TypeOK, Sound
      <4>2. shown'[t] \in {last, shown[t]} /\ (t = s => shown'[t] = last)
        BY <3>1, <4>1, EmitShows DEF Typed
      <4>3. CASE last = disk
        <5>1. t \in subs => shown[t] = disk \/ Due(t)
          BY <4>1 DEF UpToDate
        <5>2. Due(t) => Due(t)'
          BY <2>1, <3>1 DEF Due
        <5> QED
          BY <1>0, <3>2, <4>2, <4>3, <5>1, <5>2
      <4>4. CASE Rereading
        BY <2>1, <3>1, <4>4 DEF Rereading, Due
      <4> QED
        BY <2>3, <4>1, <4>3, <4>4 DEF UpToDate
    <3>3. Settled => UpToDate'
      BY <2>1, <3>1, <3>2 DEF Sound, UpToDate, Reading, Rereading
    <3> QED
      BY <2>1, <2>2, <3>1, <3>3 DEF Sound, Settled
  <2>4. CASE last = 0 /\ Reading
    <3>1. JoinRead(s) /\ shown' = shown
      BY <1>2, <2>4 DEF Subscribe
    <3>2. /\ \A q \in reads' : \E r \in reads : /\ q.entry = r.entry /\ q.from = r.from
                                                /\ q.change = r.change
          /\ \A r \in reads : \E q \in reads' : /\ q.entry = r.entry /\ q.change = r.change
                                                /\ q.first = r.first /\ r.waiters \subseteq q.waiters
                                                /\ r.entry = entry => s \in q.waiters
      BY <3>1, JoinReadDue DEF Typed
    <3>3. Reading'
      BY <2>1, <2>4, <3>2 DEF Reading
    <3>4. Due(s)'
      BY <2>1, <2>4, <3>2 DEF Reading, Due
    <3>5. ASSUME NEW t, Due(t) PROVE Due(t)'
      <4>1. PICK r \in reads : r.entry = entry /\ (r.change \/ t \in r.first \cup r.waiters)
        BY <3>5 DEF Due
      <4>2. PICK q \in reads' : /\ q.entry = r.entry /\ q.change = r.change
                                /\ q.first = r.first /\ r.waiters \subseteq q.waiters
        BY <3>2
      <4> QED
        BY <2>1, <4>1, <4>2 DEF Due
    <3>6. ASSUME Settled PROVE UpToDate'
      <4>1. UpToDate
        BY <3>6 DEF Sound
      <4>2. \A t \in subs' : shown'[t] = disk \/ Due(t)'
        BY <1>0, <3>1, <3>4, <3>5, <4>1 DEF UpToDate
      <4>3. \A q \in reads' : q.entry = entry => q.from = disk
        BY <3>2, <4>1 DEF UpToDate
      <4>4. last' \in {0, disk}
        BY <2>1, <2>4
      <4> QED
        BY <2>1, <3>3, <4>2, <4>3, <4>4 DEF UpToDate
    <3>7. \A q \in reads' : q.entry <= entries
      BY <2>2, <3>2
    <3> QED
      BY <2>1, <2>4, <3>6, <3>7 DEF Sound, Settled
  <2>5. CASE last = 0 /\ ~Reading
    <3>1. StartRead(entry, {s}) /\ entry \in 1..MaxEntries /\ entry <= entries
      BY <1>2, <2>5, Bounds DEF Subscribe, Typed, TypeOK
    <3>2. PICK q \in Read : reads' = reads \cup {q} /\ q.entry = entry
      BY <3>1, StartReadDue DEF Typed
    <3>3. ~Settled
      <4>1. disk # 0
        BY DEF Typed, TypeOK, Versions
      <4> QED
        BY <2>5, <4>1 DEF Sound, UpToDate
    <3>4. \A r \in reads' : r.entry <= entries
      BY <2>2, <3>1, <3>2
    <3> QED
      BY <2>1, <2>5, <3>3, <3>4 DEF Sound, Settled
  <2> QED
    BY <2>3, <2>4, <2>5
<1> QED
  BY <1>1, <1>2

\* Who takes his callback off takes nothing from the others.
LEMMA UnsubscribeSound ==
  ASSUME Typed, Sound, NEW I, Unsubscribe(I), UNCHANGED <<disk, entries, reads, missed, shown>>
  PROVE  Sound'
<1>1. CASE subs' = {}
  BY <1>1 DEF Unsubscribe, Sound, Settled
<1>2. CASE subs' # {}
  <2>1. UNCHANGED <<entry, last, timer>> /\ subs' \subseteq subs
    BY <1>2 DEF Unsubscribe
  <2> QED
    BY <2>1 DEF Sound, Settled, UpToDate, Due, Rereading, Reading
<1> QED
  BY <1>1, <1>2

LEMMA NextSound ==
  ASSUME Typed, Sound, [Next]_vars
  PROVE  Sound'
<1>1. ASSUME NEW w \in Windows, NEW n \in Trees, Watch(w, n) PROVE Sound'
  BY <1>1, WatchTyped, SubscribeSound DEF Watch
<1>2. ASSUME NEW w \in Windows, Reconnect(w) PROVE Sound'
  BY <1>2, SoundUnchanged DEF Reconnect, entryVars
<1>3. ASSUME NEW w \in Windows, NEW n \in Trees, Unwatch(w, n) PROVE Sound'
  BY <1>3, UnsubscribeSound DEF Unwatch
<1>4. ASSUME NEW w \in Windows, NEW c \in 1..MaxConns, Close(w, c) PROVE Sound'
  BY <1>4, UnsubscribeSound DEF Close
<1>5. ASSUME WatcherReady PROVE Sound'
  BY <1>5, SoundUnchanged DEF WatcherReady
<1>6. ASSUME UNCHANGED vars PROVE Sound'
  BY <1>6, SoundUnchanged DEF vars, entryVars
<1> QED
  BY <1>1, <1>2, <1>3, <1>4, <1>5, <1>6, ChangeSound, SourceChangeSound, ReadFailsSound, ReadDoneSound
     DEF Next

-----------------------------------------------------------------------------
(* Theorems *)

\* Every variable of Snapshots keeps its type.
THEOREM TypeCorrect == Spec => []TypeOK
<1>1. Init => Typed
  BY InitIInv DEF IInv
<1>2. Typed /\ [Next]_vars => Typed'
  BY NextTyped
<1>3. Typed => TypeOK
  BY DEF Typed
<1> QED
  BY <1>1, <1>2, <1>3, PTL DEF Spec

\* The broadcaster, the fs handlers and the connections agree on what is subscribed
\* (LocalBroadcaster.subscribe and unsubscribe, handleWatch, handleUnwatch, the
\* disconnect listener), but for the trees whose callback another window with an equal
\* id took off.
THEOREM SubscriptionsInStep == Spec => []SubscriptionsAgree
<1>1. IInv /\ [Next]_vars => IInv'
  BY NextTyped, NextAccount DEF IInv
<1>2. IInv => SubscriptionsAgree
  BY DEF IInv, Account
<1> QED
  BY <1>1, <1>2, InitIInv, PTL DEF Spec

\* With nothing on its way, every tree that watches shows the directory as it is, unless a
\* change was missed in one of the ways the code has of missing one.
THEOREM TreesAreFresh == Spec => []Fresh
<1>1. Init => Typed /\ Sound
  BY InitIInv DEF IInv, Init, Sound, Settled
<1>2. Typed /\ Sound /\ [Next]_vars => Typed' /\ Sound'
  BY NextTyped, NextSound
<1>3. Sound => Fresh
  <2> SUFFICES ASSUME Sound, Settled, ~Reading
               PROVE  last = disk /\ \A s \in subs : shown[s] = disk
    BY DEF Fresh, Settled
  <2>1. UpToDate
    BY DEF Sound
  <2>2. \A s \in subs : ~Due(s)
    BY DEF Due, Reading
  <2> QED
    BY <2>1, <2>2 DEF UpToDate
<1> QED
  BY <1>1, <1>2, <1>3, PTL DEF Spec
=============================================================================
