---------------------------- MODULE EventRecorder ----------------------------
(***************************************************************************)
(* What the server writes down of one process.  RawRecorder takes every    *)
(* line the process reads or prints; until session:init has given the      *)
(* channel its sessionId they wait in a buffer, and the first line after   *)
(* that writes the buffer before itself.  An append goes to every store of *)
(* the composite and fails only if all of them do; history is read from    *)
(* the first store, by time and row id.                                    *)
(*                                                                         *)
(* A line is the number of its arrival; lines of one millisecond are read  *)
(* in the order of their row ids, which the append allocates.  That the    *)
(* stores of one append answer at different times changes nothing here:    *)
(* the recorder waits for all of them.                                     *)
(***************************************************************************)
EXTENDS Naturals, Sequences, FiniteSets

CONSTANTS
  Stores,
  PendingCap,
  WriteDeltas,   \* rawEvents.writeDeltas
  MaxLines,      \* bound: lines of the process
  MaxFailures    \* bound: appends that fail in some store

ASSUME ConstantsAssumption ==
  /\ PendingCap \in Nat \ {0}
  /\ WriteDeltas \in BOOLEAN
  /\ MaxLines \in Nat /\ MaxFailures \in Nat

VARIABLES
  known,         \* channel.sessionId is set
  kinds,         \* the lines so far: "user" for a user message on stdin, "delta", "other"
  pendingEvents,
  jobs,          \* recordRaw calls whose promise is not settled
  root,          \* currentTurnRootId, 0 for null
  nextId,        \* row ids are allocated in order (uuid v7)
  rows,          \* raw_events of every store: <<id, line>>
  deltas,        \* raw_deltas of every store: <<parent, line>>
  (* history *)
  dropped,       \* lines the cap has pushed out
  failed,        \* <<store, line>> of appends that failed
  overlapped,    \* a flush began while another was on its way
  raced          \* a user message and a line after it were being written at once

historyVars == <<dropped, failed, overlapped, raced>>
vars == <<known, kinds, pendingEvents, jobs, root, nextId, rows, deltas, historyVars>>

Lines == 1..MaxLines
Kinds == {"user", "delta", "other"}
Arrived == 1..Len(kinds)

\* own: the line recordRaw was called with.  at: the place in the buffer its flush has
\* reached, 0 when it writes its own.  line, id: what it is writing, with the row id, or
\* for a delta the parent.
Job == [own : Lines, at : Nat, line : Lines, id : Nat]

TypeOK ==
  /\ known \in BOOLEAN
  /\ kinds \in Seq(Kinds) /\ Len(kinds) <= MaxLines
  /\ pendingEvents \in Seq(Lines) /\ Len(pendingEvents) <= PendingCap
  /\ jobs \subseteq Job
  /\ root \in Nat /\ nextId \in Nat
  /\ rows \in [Stores -> SUBSET (Nat \X Lines)]
  /\ deltas \in [Stores -> SUBSET (Nat \X Lines)]
  /\ dropped \subseteq Lines
  /\ failed \subseteq Stores \X Lines
  /\ overlapped \in BOOLEAN /\ raced \in BOOLEAN

Init ==
  /\ known = FALSE /\ kinds = <<>> /\ pendingEvents = <<>>
  /\ jobs = {} /\ root = 0 /\ nextId = 1
  /\ rows = [s \in Stores |-> {}] /\ deltas = [s \in Stores |-> {}]
  /\ dropped = {} /\ failed = {} /\ overlapped = FALSE /\ raced = FALSE

-----------------------------------------------------------------------------
(* Recording *)

\* session:init arrives.
SessionInit ==
  /\ ~known /\ known' = TRUE
  /\ UNCHANGED <<kinds, pendingEvents, jobs, root, nextId, rows, deltas, historyVars>>

\* (mutant: the buffer is written last line first)
PickLast(own, at, buffer) ==
  IF at = 0 THEN own ELSE buffer[Len(buffer) + 1 - at]

\* What a job writes at a place of the buffer.
Pick(own, at, buffer) == IF at = 0 THEN own ELSE buffer[at]

\* persistOne up to its await: an event gets its row id, a delta the turn root of now.
\* Others are the other jobs on their way, r the turn root.
Persist(own, at, buffer, ks, others, r) ==
  LET line == Pick(own, at, buffer)
      isDelta == ks[line] = "delta"
  IN /\ jobs' = others \cup
          {[own |-> own, at |-> at, line |-> line, id |-> IF isDelta THEN r ELSE nextId]}
     /\ nextId' = IF isDelta THEN nextId ELSE nextId + 1
     /\ raced' = (raced \/ (ks[line] # "other" /\ \E j \in others : ks[j.line] = "user"))

\* (mutant: the cap is not enforced)
BufferUncapped(n) ==
  /\ pendingEvents' = Append(pendingEvents, n)
  /\ UNCHANGED dropped

Buffer(n) ==
  IF Len(pendingEvents) >= PendingCap
  THEN /\ pendingEvents' = Append(Tail(pendingEvents), n)
       /\ dropped' = dropped \cup {Head(pendingEvents)}
  ELSE pendingEvents' = Append(pendingEvents, n) /\ UNCHANGED dropped

\* recordRaw: before session:init the line is buffered; after it, a buffer that is not
\* empty is written first, also when another call is already doing so.
RecordRaw(kind) ==
  LET n == Len(kinds) + 1
      flush == pendingEvents # <<>>
  IN /\ n <= MaxLines
     /\ kinds' = Append(kinds, kind)
     /\ IF known
        THEN /\ Persist(n, IF flush THEN 1 ELSE 0, pendingEvents, kinds', jobs, root)
             /\ overlapped' = (overlapped \/ (flush /\ \E j \in jobs : j.at # 0))
             /\ UNCHANGED <<pendingEvents, dropped>>
        ELSE /\ Buffer(n)
             /\ UNCHANGED <<jobs, nextId, overlapped, raced>>
     /\ UNCHANGED <<known, root, rows, deltas, failed>>

\* (mutant: any line becomes the root of the turn)
NewRootAny(j, ok) == IF kinds[j.line] # "delta" /\ ok # {} THEN j.id ELSE root

\* appendEvent resolves with the row id if one store has it.
NewRoot(j, ok) == IF kinds[j.line] = "user" /\ ok # {} THEN j.id ELSE root

\* fanOut over the stores: ok have the row, the others have failed and it is logged.
Write(j, ok) ==
  IF kinds[j.line] = "delta"
  THEN /\ deltas' = IF WriteDeltas
                    THEN [s \in Stores |-> deltas[s] \cup IF s \in ok THEN {<<j.id, j.line>>} ELSE {}]
                    ELSE deltas
       /\ UNCHANGED rows
  ELSE /\ rows' = [s \in Stores |-> rows[s] \cup IF s \in ok THEN {<<j.id, j.line>>} ELSE {}]
       /\ UNCHANGED deltas

\* (mutant: the flush stops at its first line)
NextPlaceNone(j) == 0

\* for (const pending of pendingEvents): a flush ends where the buffer ends now, which
\* is before its place when another flush has emptied it.
NextPlace(j) == IF j.at < Len(pendingEvents) THEN j.at + 1 ELSE 0

\* (mutant: the flush leaves the buffer as it is)
EmptiedNot == UNCHANGED pendingEvents

Emptied == pendingEvents' = <<>>

\* An append is answered, by success or by an error that is logged; the call goes on
\* with the next line of the buffer, or empties it and writes its own.
Appended(j, ok) ==
  /\ Cardinality(failed) + Cardinality(Stores \ ok) <= MaxFailures
  /\ failed' = failed \cup ((Stores \ ok) \X {j.line})
  /\ Write(j, ok)
  /\ root' = NewRoot(j, ok)
  /\ IF j.at = 0
     THEN jobs' = jobs \ {j} /\ UNCHANGED <<pendingEvents, nextId, raced>>
     ELSE /\ Persist(j.own, NextPlace(j), pendingEvents, kinds, jobs \ {j}, root')
          /\ IF NextPlace(j) = 0 THEN Emptied ELSE UNCHANGED pendingEvents
  /\ UNCHANGED <<known, kinds, dropped, overlapped>>

Next ==
  \/ SessionInit
  \/ \E kind \in Kinds : RecordRaw(kind)
  \/ \E j \in jobs, ok \in SUBSET Stores : Appended(j, ok)

Spec == Init /\ [][Next]_vars

\* The databases answer.
FairSpec == Spec /\ WF_vars(\E j \in jobs, ok \in SUBSET Stores : Appended(j, ok))

-----------------------------------------------------------------------------
(* Properties *)

Copies(s, n) == {r \in rows[s] : r[2] = n}
Written(s, n) == \E r \in rows[s] \cup deltas[s] : r[2] = n
Settled == jobs = {} /\ pendingEvents = <<>>

\* Nothing a process said is lost: with the buffer empty and no append on its way every
\* store has every line, but for those the cap pushed out and the appends that failed.
NothingLost ==
  Settled => \A s \in Stores, n \in Arrived :
    \/ Written(s, n)
    \/ n \in dropped \/ <<s, n>> \in failed
    \/ (kinds[n] = "delta" /\ ~WriteDeltas)

\* A line is in the history once, and read where it was said, unless two flushes of the
\* buffer overlapped: the buffer is emptied at the end of a flush, not at its start.
OnceInOrder ==
  overlapped \/ \A s \in Stores :
    /\ \A n \in Arrived : Cardinality(Copies(s, n)) <= 1
    /\ \A a, b \in rows[s] : a[2] < b[2] => a[1] < b[1]

\* A delta belongs to its turn: its parent is the last user message before it that was
\* written, or none, unless the two were being written at once or flushes overlapped.
LastUser(n) ==
  {r \in UNION {rows[s] : s \in Stores} :
     /\ kinds[r[2]] = "user" /\ r[2] < n
     /\ \A q \in UNION {rows[s] : s \in Stores} :
          kinds[q[2]] = "user" /\ q[2] < n => q[2] <= r[2]}

ParentIsTurn ==
  raced \/ overlapped \/ \A s \in Stores : \A d \in deltas[s] :
    IF LastUser(d[2]) = {} THEN d[1] = 0 ELSE \E r \in LastUser(d[2]) : r[1] = d[1]

\* A line that was recorded after session:init drains the buffer.
BufferDrains == jobs # {} ~> pendingEvents = <<>>
=============================================================================
