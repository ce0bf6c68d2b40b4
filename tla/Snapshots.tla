------------------------------ MODULE Snapshots ------------------------------
(***************************************************************************)
(* What a window shows of a directory.  A window asks for a directory with *)
(* fs:watch; the LocalBroadcaster keeps one entry per watched directory,   *)
(* with a data source that reads it, a parcel watcher that says when to    *)
(* read again, and the callbacks of its subscribers.                       *)
(*                                                                         *)
(* One directory and one data source: the three sources of an entry do the *)
(* same, each for itself.  A read takes time and returns the directory as  *)
(* it was at some moment of it.  What the server emits to a window arrives *)
(* (ResumableTransport).                                                   *)
(***************************************************************************)
EXTENDS Naturals, FiniteSets

CONSTANTS
  Windows,
  MaxTrees,      \* bound: file trees mounted, in all windows
  MaxConns,      \* bound: connections of a window
  MaxChanges,    \* bound: changes of the directory
  MaxEntries,    \* bound: entries made for the directory
  MaxFailures    \* bound: reads that fail

ASSUME ConstantsAssumption ==
  /\ {MaxTrees, MaxConns, MaxEntries} \subseteq Nat \ {0}
  /\ {MaxChanges, MaxFailures} \subseteq Nat

VARIABLES
  (* directory *)
  disk,      \* its version
  (* windows *)
  mounts,    \* per window, FsContext.nextIdRef
  conn,      \* per window, the connection its ResumableSocket is bound to
  open,      \* connections whose close the server has not seen
  shown,     \* per tree, the last snapshot its window got since it is mounted, 0 for none
  (* fs handlers *)
  held,      \* subsBySocket: <<window, tree, connection>>
  heard,     \* connections with the disconnect listener of handleWatch
  (* LocalBroadcaster *)
  entry,     \* number of the directory's entry, 0 for none
  entries,   \* entries made so far
  subs,      \* entry.subs: <<window, tree>>
  last,      \* lastValue, 0 while hasValue is false
  reads,     \* reads on the way, at most one per entry
  (* data source and watcher of the entry *)
  watching,  \* parcel has subscribed
  timer,     \* a change on its way through parcel and the debounce timer
  (* history *)
  overtaken, \* connections that were open when their window's next one came
  usurped,   \* trees whose callback another window took off
  missed,    \* why a settled window may be behind
  failures

clientVars == <<mounts, conn, open, overtaken>>
handlerVars == <<held, heard>>
entryVars == <<entry, entries, subs, last, reads, watching, timer>>
vars == <<disk, clientVars, shown, handlerVars, entryVars, usurped, missed, failures>>

Trees == 0..(MaxTrees - 1)
Versions == 1..(MaxChanges + 1)
Subscribers == Windows \X Trees
Connections == Windows \X (1..MaxConns)

\* subscriberId is `sub-${n}`, n from a counter every window has of its own: two trees
\* of one window have two ids, two trees of two windows may have one.
Id(s) == s[2]

\* A read of a data source: for every subscriber after a change, else for the one
\* whose subscription began it; and for those that came while it was on its way.
Read == [entry : 1..MaxEntries, from : Versions, change : BOOLEAN,
         first : SUBSET Subscribers, waiters : SUBSET Subscribers]

Reasons == {"changed during a read", "watcher not ready", "read failed", "read of an old entry"}

TypeOK ==
  /\ disk \in Versions
  /\ mounts \in [Windows -> 0..MaxTrees]
  /\ conn \in [Windows -> 1..MaxConns]
  /\ open \subseteq Connections /\ overtaken \subseteq Connections
  /\ shown \in [Subscribers -> {0} \cup Versions]
  /\ held \subseteq Windows \X Trees \X (1..MaxConns)
  /\ heard \subseteq Connections
  /\ entry \in 0..entries /\ entries \in 0..MaxEntries
  /\ subs \subseteq Subscribers /\ usurped \subseteq Subscribers
  /\ last \in {0} \cup Versions
  /\ reads \subseteq Read
  /\ watching \in BOOLEAN /\ timer \in BOOLEAN
  /\ missed \subseteq Reasons
  /\ failures \in 0..MaxFailures

Init ==
  /\ disk = 1
  /\ mounts = [w \in Windows |-> 0]
  /\ conn = [w \in Windows |-> 1]
  /\ open = Windows \X {1} /\ overtaken = {}
  /\ shown = [s \in Subscribers |-> 0]
  /\ held = {} /\ heard = {}
  /\ entry = 0 /\ entries = 0
  /\ subs = {} /\ last = 0 /\ reads = {} /\ usurped = {}
  /\ watching = FALSE /\ timer = FALSE
  /\ missed = {} /\ failures = 0

-----------------------------------------------------------------------------
(* LocalBroadcaster *)

Ids(S) == {Id(s) : s \in S}
Listed(S) == {s \in S : Id(s) \in Ids(subs)}
Reading == \E r \in reads : r.entry = entry
Mounted == {s \in Subscribers : s[2] < mounts[s[1]]}

\* fs:dirty to the windows of S; in a window it reaches every tree, by directory.
Emit(S, v) ==
  shown' = [t \in Subscribers |->
    IF \E s \in S : s[1] = t[1] /\ t \in Mounted \cup S THEN v ELSE shown[t]]

\* (mutant: whoever comes during a read is forgotten)
JoinReadNot(s) == UNCHANGED reads

\* deliverInitial while readPromise is pending.
JoinRead(s) ==
  reads' = {IF r.entry = entry THEN [r EXCEPT !.waiters = @ \cup {s}] ELSE r : r \in reads}

StartRead(e, s) ==
  reads' = reads \cup {[entry |-> e, from |-> disk, change |-> s = {}, first |-> s, waiters |-> {}]}

\* subscribe: initCwdEntry for the first subscriber, then deliverInitial.
Subscribe(s) ==
  \/ /\ entry = 0 /\ entries < MaxEntries
     /\ entries' = entries + 1 /\ entry' = entries + 1
     /\ subs' = {s}
     /\ StartRead(entries + 1, {s})
     /\ missed' = {}
     /\ UNCHANGED <<last, watching, timer, shown>>
  \/ /\ entry # 0
     /\ subs' = {x \in subs : Id(x) # Id(s)} \cup {s}
     /\ \/ last # 0 /\ Emit({s}, last) /\ UNCHANGED reads
        \/ last = 0 /\ Reading /\ JoinRead(s) /\ UNCHANGED shown
        \/ last = 0 /\ ~Reading /\ StartRead(entry, {s}) /\ UNCHANGED shown
     /\ UNCHANGED <<entry, entries, last, watching, timer, missed>>

\* unsubscribe: the last one releases the entry, its source and its watcher.
Unsubscribe(I) ==
  /\ subs' = {s \in subs : Id(s) \notin I}
  /\ IF subs' = {}
     THEN entry' = 0 /\ last' = 0 /\ watching' = FALSE /\ timer' = FALSE
     ELSE UNCHANGED <<entry, last, watching, timer>>

\* A step of window w that replaced or took off callbacks of others.
Usurp(w) == usurped' = usurped \cup {s \in subs \ subs' : s[1] # w}

\* (mutant: a change read answers only those that wait for it)
ReceiversWaiting(r) == Listed(r.first \cup r.waiters)

Receivers(r) == IF r.change THEN subs \cup Listed(r.waiters) ELSE Listed(r.first \cup r.waiters)

\* A read resolves.  It looks the entry up again and finds whichever is there now, a
\* later one included.
ReadDone(r, v) ==
  /\ r \in reads /\ v \in r.from..disk
  /\ reads' = reads \ {r}
  /\ IF entry = 0 THEN UNCHANGED <<last, shown, missed>>
     ELSE /\ last' = v
          /\ Emit(Receivers(r), v)
          /\ missed' = missed \cup (IF r.entry # entry /\ v < disk
                                    THEN {"read of an old entry"} ELSE {})
  /\ UNCHANGED <<disk, clientVars, handlerVars, entry, entries, subs, usurped, watching, timer,
                 failures>>

\* A read rejects: it is logged, and nobody reads again until the next change.
ReadFails(r) ==
  /\ r \in reads /\ failures < MaxFailures
  /\ failures' = failures + 1
  /\ reads' = reads \ {r}
  /\ IF last = 0 THEN UNCHANGED shown ELSE Emit(Listed(r.waiters), last)
  /\ missed' = missed \cup (IF r.entry = entry THEN {"read failed"} ELSE {})
  /\ UNCHANGED <<disk, clientVars, handlerVars, entry, entries, subs, usurped, last, watching, timer>>

\* onSourceChange, when the debounce timer fires.
SourceChange ==
  /\ timer /\ timer' = FALSE
  /\ IF Reading
     THEN missed' = missed \cup {"changed during a read"} /\ UNCHANGED reads
     ELSE missed' = {} /\ StartRead(entry, {})
  /\ UNCHANGED <<disk, clientVars, shown, handlerVars, entry, entries, subs, usurped, last, watching,
                 failures>>

-----------------------------------------------------------------------------
(* Directory and watcher *)

\* A change that the source's filter lets through, to a directory that nobody
\* watches, to a watched one, and while parcel is still subscribing.
Change ==
  /\ disk <= MaxChanges /\ disk' = disk + 1
  /\ \/ entry # 0 /\ timer' = TRUE /\ UNCHANGED missed
     \/ entry # 0 /\ ~watching /\ UNCHANGED timer
        /\ missed' = missed \cup {"watcher not ready"}
     \/ entry = 0 /\ UNCHANGED <<timer, missed>>
  /\ UNCHANGED <<clientVars, shown, handlerVars, entry, entries, subs, usurped, last, reads, watching,
                 failures>>

WatcherReady ==
  /\ entry # 0 /\ ~watching /\ watching' = TRUE
  /\ UNCHANGED <<disk, clientVars, shown, handlerVars, entry, entries, subs, usurped, last, reads,
                 timer, missed, failures>>

-----------------------------------------------------------------------------
(* fs:watch, fs:unwatch and the sockets *)

\* A file tree is mounted.  Its id is the next of the window's counter, which trees of
\* other directories may have moved on; it is new to the window, so that handleWatch
\* finds no subscription to replace.
Watch(w, n) ==
  /\ <<w, conn[w]>> \in open /\ n >= mounts[w] /\ Cardinality(Mounted) < MaxTrees
  /\ mounts' = [mounts EXCEPT ![w] = n + 1]
  /\ heard' = heard \cup {<<w, conn[w]>>}
  /\ held' = held \cup {<<w, n, conn[w]>>}
  /\ Subscribe(<<w, n>>)
  /\ Usurp(w)
  /\ UNCHANGED <<disk, conn, open, overtaken, failures>>

\* (mutant: the map is cleared but off is not called)
UnwatchNotOff(w, n) ==
  /\ <<w, conn[w]>> \in open
  /\ <<w, n, conn[w]>> \in held
  /\ held' = held \ {<<w, n, conn[w]>>}
  /\ UNCHANGED <<disk, clientVars, shown, heard, entryVars, usurped, missed, failures>>

\* A file tree is unmounted.  What was held under an earlier connection's id is not
\* found, and an fs:unwatch sent into a half-open connection is lost: nothing changes.
Unwatch(w, n) ==
  /\ <<w, conn[w]>> \in open
  /\ <<w, n, conn[w]>> \in held
  /\ held' = held \ {<<w, n, conn[w]>>}
  /\ Unsubscribe({Id(<<w, n>>)})
  /\ Usurp(w)
  /\ UNCHANGED <<disk, clientVars, shown, heard, entries, reads, missed, failures>>

\* The window dials again, before or after the server has seen the close.  It does not
\* ask for its directories again.
Reconnect(w) ==
  /\ conn[w] < MaxConns
  /\ conn' = [conn EXCEPT ![w] = @ + 1]
  /\ open' = open \cup {<<w, conn[w] + 1>>}
  /\ overtaken' = overtaken \cup ({<<w, conn[w]>>} \cap open)
  /\ UNCHANGED <<disk, mounts, shown, handlerVars, entryVars, usurped, missed, failures>>

\* The disconnect listener asks for what is held under the socket's id, which after a
\* rebind is the id of the later connection.
Dropped(w, c) == {h \in held : h[1] = w /\ h[3] = conn[w] /\ <<w, c>> \in heard}

Close(w, c) ==
  /\ <<w, c>> \in open /\ open' = open \ {<<w, c>>}
  /\ held' = held \ Dropped(w, c)
  /\ Unsubscribe({Id(<<w, h[2]>>) : h \in Dropped(w, c)})
  /\ Usurp(w)
  /\ UNCHANGED <<disk, mounts, conn, overtaken, shown, heard, entries, reads, missed, failures>>

Next ==
  \/ \E w \in Windows :
       \/ Reconnect(w)
       \/ \E n \in Trees : Watch(w, n) \/ Unwatch(w, n)
       \/ \E c \in 1..MaxConns : Close(w, c)
  \/ Change \/ WatcherReady \/ SourceChange
  \/ \E r \in reads : ReadFails(r) \/ \E v \in Versions : ReadDone(r, v)

Spec == Init /\ [][Next]_vars

\* A read ends and an armed timer fires; parcel need not become ready.
FairSpec ==
  /\ Spec
  /\ WF_vars(\E r \in reads : ReadFails(r) \/ \E v \in Versions : ReadDone(r, v))
  /\ WF_vars(SourceChange)

-----------------------------------------------------------------------------
(* Properties *)

\* What a tree watches is delivered to it: the callback of every subscription the fs
\* handlers hold is the one the broadcaster calls, unless a tree of another window came or
\* went under the same id.
WatchedIsDelivered == \A h \in held : <<h[1], h[2]>> \in subs \cup usurped

\* No callback stays behind: whatever the broadcaster calls can still be taken off by
\* its window, and an entry with its watcher lives exactly as long as it has one.
CalledIsHeld ==
  /\ \A s \in subs : \E h \in held : <<h[1], h[2]>> = s
  /\ entry # 0 <=> subs # {}

\* A subscription outlives its connection only if the window was back before the
\* server saw the close.
HeldByOpen == \A h \in held : <<h[1], h[3]>> \in open \cup overtaken

\* A subscription is accounted for in three places, the broadcaster, the fs handlers
\* and the connections, which agree whatever a window does with its own trees and
\* connections; what windows do to each other's is in usurped.
SubscriptionsAgree == WatchedIsDelivered /\ CalledIsHeld /\ HeldByOpen

\* When nothing is on its way, every watching tree shows the directory as it is,
\* unless a change was lost in one of the four ways the code has of losing one.
Fresh ==
  entry # 0 /\ ~Reading /\ ~timer /\ missed = {}
    => /\ last = disk
       /\ \A s \in subs : shown[s] = disk

\* A tree that watches is shown a first snapshot, one that came while another's read
\* was on its way included.
SnapshotArrives ==
  \A s \in Subscribers : s \in subs ~> (shown[s] # 0 \/ failures > 0 \/ s \notin subs)
=============================================================================
