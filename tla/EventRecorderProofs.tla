------------------------- MODULE EventRecorderProofs -------------------------
(***************************************************************************)
(* Theorems about EventRecorder, for every set of stores, every size of    *)
(* the buffer, and any number of lines and failures.                       *)
(***************************************************************************)
EXTENDS EventRecorder, SequenceTheorems, FiniteSetTheorems, TLAPS

(***************************************************************************)
(* The inductive invariant                                                 *)
(***************************************************************************)

AllRows == UNION {rows[s] : s \in Stores}
AllDeltas == UNION {deltas[s] : s \in Stores}

\* Before session:init nothing is written or on its way.
QuietBefore ==
  ~known => jobs = {} /\ root = 0 /\ AllRows = {} /\ AllDeltas = {}

\* The buffer holds lines in the order of their arrival.
BufferSound ==
  /\ \A i \in DOMAIN pendingEvents : pendingEvents[i] \in Arrived
  /\ \A i, k \in DOMAIN pendingEvents : i < k => pendingEvents[i] < pendingEvents[k]

\* What has become of a line in a store.
Accounted(s, n) ==
  \/ Written(s, n)
  \/ n \in dropped \/ <<s, n>> \in failed
  \/ (kinds[n] = "delta" /\ ~WriteDeltas)

\* A job writes its own line or the one at its place of the buffer, and has seen to those
\* before it, unless another flush has emptied the buffer meanwhile.
JobSound(j) ==
  /\ j.own \in Arrived /\ j.line \in Arrived
  /\ j.at = 0 => j.line = j.own
  /\ j.at # 0 /\ pendingEvents # <<>> =>
       /\ j.at <= Len(pendingEvents) /\ j.line = pendingEvents[j.at]
       /\ \A i \in 1..(j.at - 1), s \in Stores : Accounted(s, pendingEvents[i])
       /\ \A i \in DOMAIN pendingEvents : pendingEvents[i] < j.own

\* No line is forgotten.
LinesKept ==
  \A s \in Stores, n \in Arrived :
    \/ Accounted(s, n)
    \/ \E i \in DOMAIN pendingEvents : pendingEvents[i] = n
    \/ \E j \in jobs : j.own = n

\* Of the jobs of a set: lines that have been written or that they are writing, ...
TakenBy(J) == {r[2] : r \in AllRows \cup AllDeltas} \cup {j.line : j \in J}

\* ... events among them with their row ids, ...
GivenBy(J) == AllRows \cup {<<j.id, j.line>> : j \in {i \in J : kinds[i.line] # "delta"}}

\* ... and deltas with their parents.
DeltasBy(J) == AllDeltas \cup {<<j.id, j.line>> : j \in {i \in J : kinds[i.line] = "delta"}}

\* Without an overlap one flush is all there is while the buffer is not empty, and what
\* is taken comes before what is to be taken.
OneFlush ==
  /\ pendingEvents = <<>> => \A j \in jobs : j.at = 0
  /\ pendingEvents # <<>> =>
       /\ \A j, k \in jobs : j = k
       /\ \A j \in jobs : j.at # 0
       /\ \A x \in TakenBy(jobs) : \E j \in jobs : x <= j.line

\* Row ids are given in the order of the lines.
Ordered(G) ==
  \A p, q \in G : /\ p[2] < q[2] => p[1] < q[1]
                  /\ p[2] = q[2] => p[1] = q[1]

IdsInOrder == (\A p \in GivenBy(jobs) : p[1] < nextId) /\ Ordered(GivenBy(jobs))

Users == {r \in AllRows : kinds[r[2]] = "user"}

\* root is the row of the last user message that was written.
RootIsLast ==
  \/ Users = {} /\ root = 0
  \/ \E r \in Users : r[1] = root /\ \A q \in Users : q[2] <= r[2]

ParentOf(id, n) ==
  IF LastUser(n) = {} THEN id = 0 ELSE \E r \in LastUser(n) : r[1] = id

ParentsSound(J) == \A d \in DeltasBy(J) : ParentOf(d[1], d[2])

\* While a user message is being written it is later than every other one and every delta.
UserIsLast(J) ==
  \A u \in J : kinds[u.line] = "user" =>
    /\ \A r \in Users \cup DeltasBy(J) : r[2] < u.line
    /\ \A j \in J : kinds[j.line] = "user" => j = u

IInv ==
  /\ TypeOK /\ QuietBefore /\ BufferSound
  /\ \A j \in jobs : JobSound(j)
  /\ LinesKept /\ TakenBy(jobs) \subseteq Arrived
  /\ overlapped \/ (OneFlush /\ IdsInOrder)
  /\ raced \/ overlapped \/ (RootIsLast /\ ParentsSound(jobs) /\ UserIsLast(jobs))

-----------------------------------------------------------------------------
(* Types *)

LEMMA Bounds ==
  /\ PendingCap \in Nat /\ PendingCap >= 1 /\ WriteDeltas \in BOOLEAN
  /\ MaxLines \in Nat /\ MaxFailures \in Nat
BY ConstantsAssumption DEF ConstantsAssumption

LEMMA JobFields ==
  ASSUME NEW j \in Job
  PROVE  j.own \in Lines /\ j.at \in Nat /\ j.line \in Lines /\ j.id \in Nat
BY DEF Job

\* Rows and deltas are pairs of numbers.
LEMMA Pairs ==
  ASSUME TypeOK
  PROVE  /\ AllRows \subseteq Nat \X Lines /\ AllDeltas \subseteq Nat \X Lines
         /\ \A J \in SUBSET Job : /\ GivenBy(J) \subseteq Nat \X Lines
                                   /\ DeltasBy(J) \subseteq Nat \X Lines
                                   /\ TakenBy(J) \subseteq Lines
<1>1. AllRows \subseteq Nat \X Lines /\ AllDeltas \subseteq Nat \X Lines
  BY DEF TypeOK, AllRows, AllDeltas
<1>2. ASSUME NEW J \in SUBSET Job
      PROVE  /\ GivenBy(J) \subseteq Nat \X Lines
             /\ DeltasBy(J) \subseteq Nat \X Lines
             /\ TakenBy(J) \subseteq Lines
  BY <1>1, JobFields DEF GivenBy, DeltasBy, TakenBy
<1> QED
  BY <1>1, <1>2

LEMMA ArrivedLines ==
  ASSUME TypeOK
  PROVE  /\ Len(kinds) \in Nat /\ Arrived \subseteq Lines /\ Lines \subseteq Nat
         /\ DOMAIN kinds = Arrived
BY Bounds, LenProperties DEF TypeOK, Arrived, Lines

LEMMA InitInvariant == Init => IInv
<1> SUFFICES ASSUME Init PROVE IInv
  OBVIOUS
<1>1. TypeOK
  <2>1. kinds \in Seq(Kinds) /\ pendingEvents \in Seq(Lines) /\ Len(kinds) = 0 /\ Len(pendingEvents) = 0
    BY EmptySeq DEF Init
  <2>2. rows \in [Stores -> SUBSET (Nat \X Lines)] /\ deltas \in [Stores -> SUBSET (Nat \X Lines)]
    BY DEF Init
  <2>3. known \in BOOLEAN /\ overlapped \in BOOLEAN /\ raced \in BOOLEAN
    BY DEF Init
  <2>4. /\ jobs \subseteq Job /\ root \in Nat /\ nextId \in Nat
        /\ dropped \subseteq Lines /\ failed \subseteq Stores \X Lines
    BY DEF Init
  <2> QED
    BY <2>1, <2>2, <2>3, <2>4, Bounds DEF TypeOK
<1>2. AllRows = {} /\ AllDeltas = {} /\ jobs = {} /\ pendingEvents = <<>> /\ Arrived = {}
  BY DEF Init, AllRows, AllDeltas, Arrived
<1>3. QuietBefore /\ BufferSound /\ LinesKept
  BY <1>2 DEF Init, QuietBefore, BufferSound, LinesKept
<1>4. TakenBy(jobs) = {} /\ GivenBy(jobs) = {} /\ DeltasBy(jobs) = {} /\ Users = {}
  BY <1>2 DEF TakenBy, GivenBy, DeltasBy, Users
<1>5. OneFlush /\ IdsInOrder /\ RootIsLast /\ ParentsSound(jobs) /\ UserIsLast(jobs)
  BY <1>2, <1>4 DEF Init, OneFlush, IdsInOrder, Ordered, RootIsLast, ParentsSound, UserIsLast
<1> QED
  BY <1>1, <1>2, <1>3, <1>4, <1>5 DEF IInv

-----------------------------------------------------------------------------
(* Steps on the buffer *)

\* A line stays accounted for.
LEMMA AccountedStays ==
  ASSUME NEW s \in Stores, NEW n \in Arrived, Accounted(s, n),
         dropped \subseteq dropped', failed \subseteq failed',
         rows[s] \subseteq rows'[s], deltas[s] \subseteq deltas'[s],
         kinds'[n] = kinds[n]
  PROVE  Accounted(s, n)'
BY DEF Accounted, Written

\* One more line.
LEMMA OneMoreLine ==
  ASSUME TypeOK, NEW kind \in Kinds, Len(kinds) + 1 <= MaxLines, kinds' = Append(kinds, kind)
  PROVE  /\ kinds' \in Seq(Kinds) /\ Len(kinds') = Len(kinds) + 1
         /\ Arrived' = Arrived \cup {Len(kinds) + 1}
         /\ Len(kinds) + 1 \in Lines /\ Len(kinds) + 1 \notin Arrived
         /\ kinds'[Len(kinds) + 1] = kind
         /\ \A n \in Arrived : kinds'[n] = kinds[n] /\ n < Len(kinds) + 1
<1>1. kinds \in Seq(Kinds) /\ Len(kinds) \in Nat /\ DOMAIN kinds = Arrived
  BY ArrivedLines DEF TypeOK
<1>2. /\ kinds' \in Seq(Kinds) /\ Len(kinds') = Len(kinds) + 1
      /\ kinds'[Len(kinds) + 1] = kind /\ \A n \in Arrived : kinds'[n] = kinds[n]
  BY <1>1, AppendProperties DEF Arrived
<1> QED
  BY <1>1, <1>2, Bounds DEF Arrived, Lines

LEMMA BufferKeeps ==
  ASSUME TypeOK, BufferSound, NEW n \in Lines, \A x \in Arrived : x < n,
         Buffer(n)
  PROVE  /\ pendingEvents' \in Seq(Lines) /\ Len(pendingEvents') <= PendingCap
         /\ dropped' \subseteq Lines /\ dropped \subseteq dropped'
         /\ pendingEvents' # <<>>
         /\ \A i \in DOMAIN pendingEvents' : pendingEvents'[i] \in Arrived \cup {n}
         /\ \A i, k \in DOMAIN pendingEvents' : i < k => pendingEvents'[i] < pendingEvents'[k]
         /\ \A i \in DOMAIN pendingEvents :
              pendingEvents[i] \in dropped' \/ \E k \in DOMAIN pendingEvents' : pendingEvents'[k] = pendingEvents[i]
         /\ \E k \in DOMAIN pendingEvents' : pendingEvents'[k] = n
<1>1. PICK p : p = pendingEvents
  OBVIOUS
<1>2. PICK m \in Nat : m = Len(p)
  BY <1>1, LenProperties DEF TypeOK
<1>3. /\ p \in Seq(Lines) /\ m <= PendingCap /\ DOMAIN p = 1..m
      /\ \A i \in 1..m : p[i] \in Lines
      /\ m = 0 => p = <<>>
  BY <1>1, <1>2, LenProperties, ElementOfSeq, EmptySeq DEF TypeOK
<1>4. /\ \A i \in 1..m : p[i] \in Arrived
      /\ \A i, k \in 1..m : i < k => p[i] < p[k]
  BY <1>1, <1>3 DEF BufferSound
<1>5. n \in Nat /\ \A i \in 1..m : p[i] < n /\ p[i] \in Nat
  BY <1>3, <1>4, ArrivedLines
<1>6. CASE m >= PendingCap
  <2>1. pendingEvents' = Append(Tail(p), n) /\ dropped' = dropped \cup {Head(p)}
    BY <1>1, <1>2, <1>6 DEF Buffer
  <2>2. p # <<>> /\ m = PendingCap /\ m >= 1
    BY <1>2, <1>3, <1>6, Bounds, EmptySeq
  <2>3. /\ Head(p) \in Lines /\ Head(p) = p[1]
        /\ Tail(p) \in Seq(Lines) /\ Len(Tail(p)) = m - 1
        /\ \A i \in 1..(m - 1) : Tail(p)[i] = p[i + 1]
    BY <1>2, <1>3, <2>2, HeadTailProperties
  <2>4. /\ pendingEvents' \in Seq(Lines) /\ Len(pendingEvents') = m
        /\ pendingEvents'[m] = n
        /\ \A i \in 1..(m - 1) : pendingEvents'[i] = p[i + 1]
    BY <1>3, <2>1, <2>2, <2>3, AppendProperties
  <2>5. PICK q : q = pendingEvents'
    OBVIOUS
  <2>6. /\ DOMAIN q = 1..m /\ q[m] = n /\ \A i \in 1..(m - 1) : q[i] = p[i + 1]
        /\ Len(q) = m /\ q \in Seq(Lines)
    BY <2>4, <2>5, LenProperties
  <2>7. \A i \in 1..m : i = m \/ (i \in 1..(m - 1) /\ i + 1 \in 1..m)
    OBVIOUS
  <2>8. \A i \in DOMAIN q : q[i] \in Arrived \cup {n}
    BY <1>4, <2>6, <2>7
  <2>9. \A i, k \in 1..m : i < k => q[i] < q[k]
    <3> SUFFICES ASSUME NEW i \in 1..m, NEW k \in 1..m, i < k
                 PROVE  q[i] < q[k]
      OBVIOUS
    <3>1. i \in 1..(m - 1) /\ q[i] = p[i + 1] /\ i + 1 \in 1..m
      BY <2>6
    <3>2. CASE k = m
      BY <1>5, <2>6, <3>1, <3>2
    <3>3. CASE k # m
      <4>1. k \in 1..(m - 1) /\ q[k] = p[k + 1] /\ k + 1 \in 1..m /\ i + 1 < k + 1
        BY <2>6, <3>3
      <4> QED
        BY <1>4, <3>1, <4>1
    <3> QED
      BY <3>2, <3>3
  <2>10. \A i \in 1..m : p[i] \in dropped' \/ \E k \in 1..m : q[k] = p[i]
    <3> SUFFICES ASSUME NEW i \in 1..m, i # 1
                 PROVE  \E k \in 1..m : q[k] = p[i]
      BY <2>1, <2>3
    <3>1. i - 1 \in 1..(m - 1) /\ (i - 1) + 1 = i /\ i - 1 \in 1..m
      OBVIOUS
    <3>2. q[i - 1] = p[i]
      BY <2>6, <3>1
    <3> QED
      BY <3>1, <3>2
  <2>11. /\ dropped' \subseteq Lines /\ dropped \subseteq dropped'
         /\ q # <<>> /\ m \in 1..m
    BY <2>1, <2>2, <2>3, <2>6, EmptySeq DEF TypeOK
  <2> QED
    BY <1>1, <1>3, <2>5, <2>6, <2>8, <2>9, <2>10, <2>11
<1>7. CASE ~(m >= PendingCap)
  <2>1. pendingEvents' = Append(p, n) /\ dropped' = dropped
    BY <1>1, <1>2, <1>7 DEF Buffer
  <2>2. PICK q : q = pendingEvents'
    OBVIOUS
  <2>3. /\ q \in Seq(Lines) /\ Len(q) = m + 1
        /\ q[m + 1] = n
        /\ \A i \in 1..m : q[i] = p[i]
    BY <1>2, <1>3, <2>1, <2>2, AppendProperties
  <2>4. DOMAIN q = 1..(m + 1) /\ q # <<>>
    BY <2>3, LenProperties, EmptySeq
  <2>5. \A i \in 1..(m + 1) : i = m + 1 \/ i \in 1..m
    OBVIOUS
  <2>6. \A i \in DOMAIN q : q[i] \in Arrived \cup {n}
    BY <1>4, <2>3, <2>4, <2>5
  <2>7. \A i, k \in DOMAIN q : i < k => q[i] < q[k]
    <3> SUFFICES ASSUME NEW i \in 1..(m + 1), NEW k \in 1..(m + 1), i < k
                 PROVE  q[i] < q[k]
      BY <2>4
    <3>1. i \in 1..m /\ q[i] = p[i]
      BY <2>3
    <3>2. CASE k = m + 1
      BY <1>5, <2>3, <3>1, <3>2
    <3>3. CASE k \in 1..m
      BY <1>4, <2>3, <3>1, <3>3
    <3> QED
      BY <2>5, <3>2, <3>3
  <2>8. m + 1 \in 1..(m + 1) /\ \A i \in 1..m : i \in 1..(m + 1)
    OBVIOUS
  <2>9. Len(q) <= PendingCap
    BY <1>7, <2>3, Bounds
  <2> QED
    BY <1>1, <1>3, <2>1, <2>2, <2>3, <2>4, <2>6, <2>7, <2>8, <2>9 DEF TypeOK
<1> QED
  BY <1>6, <1>7

-----------------------------------------------------------------------------
(* Steps before session:init *)

LEMMA SessionInitStep ==
  ASSUME IInv, SessionInit
  PROVE  IInv'
<1>1. known' = TRUE /\ UNCHANGED <<kinds, pendingEvents, jobs, root, nextId, rows, deltas, historyVars>>
  BY DEF SessionInit
<1>2. TypeOK' /\ QuietBefore' /\ BufferSound' /\ LinesKept'
  BY <1>1 DEF IInv, TypeOK, QuietBefore, BufferSound, LinesKept, Arrived, Accounted, Written, historyVars
<1>3. (\A j \in jobs : JobSound(j))' /\ (TakenBy(jobs) \subseteq Arrived)'
  BY <1>1 DEF IInv, JobSound, TakenBy, Arrived, Accounted, Written, AllRows, AllDeltas, historyVars
<1>4. overlapped' \/ (OneFlush' /\ IdsInOrder')
  BY <1>1 DEF IInv, OneFlush, IdsInOrder, Ordered, TakenBy, GivenBy, AllRows, AllDeltas, historyVars
<1>5. raced' \/ overlapped' \/ (RootIsLast' /\ ParentsSound(jobs)' /\ UserIsLast(jobs)')
  BY <1>1 DEF IInv, RootIsLast, ParentsSound, UserIsLast, ParentOf, LastUser, Users, DeltasBy,
              AllRows, AllDeltas, historyVars
<1> QED
  BY <1>2, <1>3, <1>4, <1>5 DEF IInv

\* Nothing is written or on its way: the statements about what is hold.
LEMMA NothingTaken ==
  ASSUME AllRows' = {}, AllDeltas' = {}, jobs' = {}, root' = 0, pendingEvents' # <<>>
  PROVE  /\ TakenBy(jobs)' = {} /\ OneFlush' /\ IdsInOrder'
         /\ RootIsLast' /\ ParentsSound(jobs)' /\ UserIsLast(jobs)'
<1>1. TakenBy(jobs)' = {} /\ GivenBy(jobs)' = {} /\ DeltasBy(jobs)' = {} /\ Users' = {}
  BY DEF TakenBy, GivenBy, DeltasBy, Users
<1> QED
  BY <1>1 DEF OneFlush, IdsInOrder, Ordered, RootIsLast, ParentsSound, UserIsLast

LEMMA BufferStep ==
  ASSUME IInv, NEW kind \in Kinds, RecordRaw(kind), ~known
  PROVE  IInv'
<1> DEFINE n == Len(kinds) + 1
<1>1. /\ n <= MaxLines /\ kinds' = Append(kinds, kind) /\ Buffer(n)
      /\ UNCHANGED <<known, jobs, root, nextId, rows, deltas, failed, overlapped, raced>>
  BY DEF RecordRaw
<1>2. /\ kinds' \in Seq(Kinds) /\ Len(kinds') = n
      /\ Arrived' = Arrived \cup {n} /\ n \in Lines /\ n \notin Arrived
      /\ \A x \in Arrived : kinds'[x] = kinds[x] /\ x < n
  BY <1>1, OneMoreLine DEF IInv
<1> HIDE DEF n
<1>3. /\ pendingEvents' \in Seq(Lines) /\ Len(pendingEvents') <= PendingCap
      /\ dropped' \subseteq Lines /\ dropped \subseteq dropped'
      /\ pendingEvents' # <<>>
      /\ \A i \in DOMAIN pendingEvents' : pendingEvents'[i] \in Arrived \cup {n}
      /\ \A i, k \in DOMAIN pendingEvents' : i < k => pendingEvents'[i] < pendingEvents'[k]
      /\ \A i \in DOMAIN pendingEvents :
           pendingEvents[i] \in dropped' \/ \E k \in DOMAIN pendingEvents' : pendingEvents'[k] = pendingEvents[i]
      /\ \E k \in DOMAIN pendingEvents' : pendingEvents'[k] = n
  BY <1>1, <1>2, BufferKeeps DEF IInv
<1>4. TypeOK'
  BY <1>1, <1>2, <1>3 DEF IInv, TypeOK, n
<1>5. jobs' = {} /\ root' = 0 /\ AllRows' = {} /\ AllDeltas' = {}
  BY <1>1 DEF IInv, QuietBefore, AllRows, AllDeltas
<1>6. QuietBefore' /\ BufferSound'
  BY <1>2, <1>3, <1>5 DEF QuietBefore, BufferSound
<1>7. LinesKept'
  <2> SUFFICES ASSUME NEW s \in Stores, NEW x \in Arrived'
               PROVE  Accounted(s, x)' \/ \E i \in DOMAIN pendingEvents' : pendingEvents'[i] = x
    BY DEF LinesKept
  <2>1. CASE x = n
    BY <1>3, <2>1
  <2>2. CASE x \in Arrived /\ Accounted(s, x)
    BY <1>1, <1>2, <1>3, <2>2, AccountedStays
  <2>3. CASE x \in Arrived /\ \E i \in DOMAIN pendingEvents : pendingEvents[i] = x
    BY <1>3, <2>3 DEF Accounted
  <2> QED
    BY <1>2, <1>5, <1>1, <2>1, <2>2, <2>3 DEF IInv, LinesKept
<1>8. /\ TakenBy(jobs)' = {} /\ OneFlush' /\ IdsInOrder'
      /\ RootIsLast' /\ ParentsSound(jobs)' /\ UserIsLast(jobs)'
  BY <1>3, <1>5, NothingTaken
<1> QED
  BY <1>4, <1>5, <1>6, <1>7, <1>8 DEF IInv

-----------------------------------------------------------------------------
(* A job takes a line *)

\* The job there is once a line was taken.
LEMMA PersistFacts ==
  ASSUME NEW own \in Lines, NEW at \in Nat, NEW buffer, NEW ks, NEW others, NEW r \in Nat,
         Pick(own, at, buffer) \in Lines, nextId \in Nat,
         Persist(own, at, buffer, ks, others, r)
  PROVE  \E J \in Job :
           /\ J.own = own /\ J.at = at /\ J.line = Pick(own, at, buffer)
           /\ jobs' = others \cup {J} /\ nextId' \in Nat
           /\ ks[J.line] = "delta" => J.id = r /\ nextId' = nextId
           /\ ks[J.line] # "delta" => J.id = nextId /\ nextId' = nextId + 1
           /\ raced' = (raced \/ (ks[J.line] # "other" /\ \E j \in others : ks[j.line] = "user"))
<1> DEFINE line == Pick(own, at, buffer)
           id == IF ks[line] = "delta" THEN r ELSE nextId
           J == [own |-> own, at |-> at, line |-> line, id |-> id]
<1>1. J \in Job /\ J.own = own /\ J.at = at /\ J.line = line /\ J.id = id
  BY DEF Job
<1>2. /\ jobs' = others \cup {J}
      /\ nextId' = IF ks[line] = "delta" THEN nextId ELSE nextId + 1
      /\ raced' = (raced \/ (ks[line] # "other" /\ \E j \in others : ks[j.line] = "user"))
  BY DEF Persist
<1> HIDE DEF J
<1>3. /\ J.own = own /\ J.at = at /\ J.line = Pick(own, at, buffer)
      /\ jobs' = others \cup {J} /\ nextId' \in Nat
      /\ ks[J.line] = "delta" => J.id = r /\ nextId' = nextId
      /\ ks[J.line] # "delta" => J.id = nextId /\ nextId' = nextId + 1
      /\ raced' = (raced \/ (ks[J.line] # "other" /\ \E j \in others : ks[j.line] = "user"))
  BY <1>1, <1>2
<1> QED
  BY <1>1, <1>3

\* A line that is later than all that are taken gets the next row id.
LEMMA PersistInOrder ==
  ASSUME TypeOK, TypeOK', NEW O \in SUBSET Job, NEW J \in Job, jobs' = O \cup {J},
         kinds'[J.line] = "delta" => nextId' = nextId,
         kinds'[J.line] # "delta" => J.id = nextId /\ nextId' = nextId + 1,
         IdsInOrder, GivenBy(O)' \subseteq GivenBy(jobs),
         \A x \in TakenBy(O)' : x < J.line
  PROVE  IdsInOrder'
<1>1. GivenBy(O)' \subseteq Nat \X Lines /\ Lines \subseteq Nat /\ nextId \in Nat
  BY Pairs, ArrivedLines DEF TypeOK
<1>2. \A p \in GivenBy(O)' : p[1] < nextId /\ p[2] < J.line
  <2>1. \A p \in GivenBy(O)' : p[2] \in TakenBy(O)'
    BY DEF GivenBy, TakenBy
  <2> QED
    BY <2>1 DEF IdsInOrder
<1>3. Ordered(GivenBy(O)')
  BY DEF IdsInOrder, Ordered
<1>4. CASE kinds'[J.line] = "delta"
  <2>1. GivenBy(jobs)' = GivenBy(O)'
    BY <1>4 DEF GivenBy
  <2> QED
    BY <1>2, <1>3, <1>4, <2>1 DEF IdsInOrder, Ordered
<1>5. CASE kinds'[J.line] # "delta"
  <2>1. GivenBy(jobs)' = GivenBy(O)' \cup {<<nextId, J.line>>}
    BY <1>5 DEF GivenBy
  <2>2. J.line \in Nat
    BY <1>1, JobFields
  <2>3. \A p \in GivenBy(jobs)' : p[1] < nextId'
    BY <1>1, <1>2, <1>5, <2>1
  <2>4. \A p, q \in GivenBy(jobs)' :
          (p[2] < q[2] => p[1] < q[1]) /\ (p[2] = q[2] => p[1] = q[1])
    <3> SUFFICES ASSUME NEW p \in GivenBy(jobs)', NEW q \in GivenBy(jobs)'
                 PROVE  (p[2] < q[2] => p[1] < q[1]) /\ (p[2] = q[2] => p[1] = q[1])
      OBVIOUS
    <3>1. CASE p \in GivenBy(O)' /\ q \in GivenBy(O)'
      BY <1>3, <3>1 DEF Ordered
    <3>2. CASE p \in GivenBy(O)' /\ q = <<nextId, J.line>>
      BY <1>1, <1>2, <2>2, <3>2
    <3>3. CASE p = <<nextId, J.line>> /\ q \in GivenBy(O)'
      <4>1. q[2] \in Nat /\ q[2] < J.line
        BY <1>1, <1>2, <3>3
      <4> QED
        BY <2>2, <3>3, <4>1
    <3>4. CASE p = <<nextId, J.line>> /\ q = <<nextId, J.line>>
      BY <2>2, <3>4
    <3> QED
      BY <2>1, <3>1, <3>2, <3>3, <3>4
  <2> QED
    BY <2>3, <2>4 DEF IdsInOrder, Ordered
<1> QED
  BY <1>4, <1>5

\* Unless it is taken beside a user message, its parent, if it is a delta, is the last one.
LEMMA PersistParents ==
  ASSUME TypeOK', NEW O \in SUBSET Job, NEW J \in Job, jobs' = O \cup {J},
         kinds'[J.line] = "delta" => J.id = root',
         kinds'[J.line] # "other" => \A j \in O : kinds'[j.line] # "user",
         RootIsLast', ParentsSound(O)', UserIsLast(O)',
         \A x \in TakenBy(O)' : x < J.line
  PROVE  ParentsSound(jobs)' /\ UserIsLast(jobs)'
<1>1. \A r \in Users' \cup DeltasBy(O)' : r[2] < J.line
  BY DEF Users, DeltasBy, TakenBy
<1>2. CASE kinds'[J.line] = "delta"
  <2>1. DeltasBy(jobs)' = DeltasBy(O)' \cup {<<J.id, J.line>>}
    BY <1>2 DEF DeltasBy
  <2>2. ParentOf(root, J.line)'
    <3>1. LastUser(J.line)' = {r \in Users' : r[2] < J.line /\ \A q \in Users' : q[2] < J.line => q[2] <= r[2]}
      BY DEF LastUser, Users, AllRows
    <3> QED
      BY <1>1, <3>1 DEF RootIsLast, ParentOf
  <2>3. ParentsSound(jobs)'
    BY <1>2, <2>1, <2>2 DEF ParentsSound
  <2>4. UserIsLast(jobs)'
    BY <1>2 DEF UserIsLast
  <2> QED
    BY <2>3, <2>4
<1>3. CASE kinds'[J.line] # "delta"
  <2>1. DeltasBy(jobs)' = DeltasBy(O)'
    BY <1>3 DEF DeltasBy
  <2>2. ParentsSound(jobs)'
    BY <2>1 DEF ParentsSound
  <2>3. UserIsLast(jobs)'
    <3>1. CASE kinds'[J.line] = "user"
      BY <1>1, <2>1, <3>1 DEF UserIsLast
    <3>2. CASE kinds'[J.line] # "user"
      BY <2>1, <3>2 DEF UserIsLast
    <3> QED
      BY <3>1, <3>2
  <2> QED
    BY <2>2, <2>3
<1> QED
  BY <1>2, <1>3

\* A line is recorded after session:init: it is written, or the buffer before it.
LEMMA RecordStep ==
  ASSUME IInv, NEW kind \in Kinds, RecordRaw(kind), known
  PROVE  IInv'
<1> DEFINE n == Len(kinds) + 1
<1>1. /\ n <= MaxLines /\ kinds' = Append(kinds, kind)
      /\ Persist(n, IF pendingEvents # <<>> THEN 1 ELSE 0, pendingEvents, kinds', jobs, root)
      /\ overlapped' = (overlapped \/ (pendingEvents # <<>> /\ \E j \in jobs : j.at # 0))
      /\ UNCHANGED <<pendingEvents, dropped, known, root, rows, deltas, failed>>
  BY DEF RecordRaw
<1>2. /\ kinds' \in Seq(Kinds) /\ Len(kinds') = n
      /\ Arrived' = Arrived \cup {n} /\ n \in Lines /\ n \notin Arrived
      /\ \A x \in Arrived : kinds'[x] = kinds[x] /\ x < n
  BY <1>1, OneMoreLine DEF IInv
<1> HIDE DEF n
<1>3. /\ pendingEvents # <<>> =>
            /\ 1 \in DOMAIN pendingEvents /\ pendingEvents[1] \in Arrived
            /\ 1 <= Len(pendingEvents)
      /\ DOMAIN pendingEvents = 1..Len(pendingEvents) /\ Len(pendingEvents) \in Nat
      /\ root \in Nat /\ nextId \in Nat
  <2>1. pendingEvents \in Seq(Lines) /\ root \in Nat /\ nextId \in Nat
    BY DEF IInv, TypeOK
  <2>2. pendingEvents # <<>> => Len(pendingEvents) # 0
    BY <2>1, EmptySeq
  <2> QED
    BY <2>1, <2>2, LenProperties DEF IInv, BufferSound
<1>4. PICK J \in Job :
        /\ J.own = n /\ J.at = (IF pendingEvents # <<>> THEN 1 ELSE 0)
        /\ J.line = Pick(n, J.at, pendingEvents)
        /\ jobs' = jobs \cup {J} /\ nextId' \in Nat
        /\ kinds'[J.line] = "delta" => J.id = root /\ nextId' = nextId
        /\ kinds'[J.line] # "delta" => J.id = nextId /\ nextId' = nextId + 1
        /\ raced' = (raced \/ (kinds'[J.line] # "other" /\ \E j \in jobs : kinds'[j.line] = "user"))
  <2>1. PICK at \in Nat : at = IF pendingEvents # <<>> THEN 1 ELSE 0
    OBVIOUS
  <2>2. Pick(n, at, pendingEvents) \in Lines
    BY <1>2, <1>3, <2>1, ArrivedLines DEF Pick, IInv
  <2>3. Persist(n, at, pendingEvents, kinds', jobs, root)
    BY <1>1, <2>1
  <2>4. PICK J \in Job :
           /\ J.own = n /\ J.at = at /\ J.line = Pick(n, at, pendingEvents)
           /\ jobs' = jobs \cup {J} /\ nextId' \in Nat
           /\ kinds'[J.line] = "delta" => J.id = root /\ nextId' = nextId
           /\ kinds'[J.line] # "delta" => J.id = nextId /\ nextId' = nextId + 1
           /\ raced' = (raced \/ (kinds'[J.line] # "other" /\ \E j \in jobs : kinds'[j.line] = "user"))
    BY <1>2, <1>3, <2>2, <2>3, PersistFacts
  <2> QED
    BY <2>1, <2>4
<1>5. /\ pendingEvents # <<>> => J.at = 1 /\ J.line = pendingEvents[1]
      /\ pendingEvents = <<>> => J.at = 0 /\ J.line = n
      /\ J.line \in Arrived'
  BY <1>2, <1>3, <1>4 DEF Pick
<1>6. TypeOK'
  <2>1. raced' \in BOOLEAN /\ overlapped' \in BOOLEAN
    BY <1>1, <1>4
  <2> QED
    BY <1>1, <1>2, <1>4, <2>1 DEF IInv, TypeOK, n
<1>7. AllRows' = AllRows /\ AllDeltas' = AllDeltas /\ jobs \in SUBSET Job
  BY <1>1 DEF AllRows, AllDeltas, IInv, TypeOK
<1>8. /\ TakenBy(jobs) \subseteq Arrived
      /\ \A r \in AllRows \cup AllDeltas : kinds'[r[2]] = kinds[r[2]] /\ r[2] \in Arrived
      /\ \A j \in jobs : kinds'[j.line] = kinds[j.line] /\ j.line \in Arrived
  BY <1>2 DEF IInv, TakenBy
<1>9. PICK O : O = jobs
  OBVIOUS
<1>10. /\ TakenBy(O)' = TakenBy(jobs) /\ GivenBy(O)' = GivenBy(jobs)
       /\ DeltasBy(O)' = DeltasBy(jobs) /\ Users' = Users
  <2>1. TakenBy(O)' = TakenBy(jobs)
    BY <1>7, <1>9 DEF TakenBy
  <2>2. GivenBy(O)' = GivenBy(jobs)
    BY <1>7, <1>8, <1>9 DEF GivenBy
  <2>3. DeltasBy(O)' = DeltasBy(jobs)
    BY <1>7, <1>8, <1>9 DEF DeltasBy
  <2>4. Users' = Users
    BY <1>7, <1>8 DEF Users
  <2> QED
    BY <2>1, <2>2, <2>3, <2>4
<1>11. QuietBefore' /\ BufferSound'
  BY <1>1, <1>2 DEF QuietBefore, IInv, BufferSound
<1>12. \A s \in Stores, x \in Arrived : Accounted(s, x) => Accounted(s, x)'
  BY <1>1, <1>2, AccountedStays
<1>13. \A j \in jobs' : JobSound(j)'
  <2>1. ASSUME NEW j \in jobs PROVE JobSound(j)'
    <3>1. j \in Job /\ j.at \in Nat /\ JobSound(j)
      BY <1>7, JobFields DEF IInv
    <3>2. j.at # 0 /\ pendingEvents # <<>> =>
            \A i \in 1..(j.at - 1), s \in Stores : Accounted(s, pendingEvents[i])'
      <4> SUFFICES ASSUME j.at # 0, pendingEvents # <<>>, NEW i \in 1..(j.at - 1), NEW s \in Stores
                   PROVE  Accounted(s, pendingEvents[i])'
        BY <1>1
      <4>1. i \in DOMAIN pendingEvents
        BY <1>3, <3>1 DEF JobSound
      <4>2. PICK x : x = pendingEvents[i]
        OBVIOUS
      <4>3. x \in Arrived /\ Accounted(s, x)
        BY <3>1, <4>1, <4>2 DEF JobSound, IInv, BufferSound
      <4>4. Accounted(s, x)' /\ pendingEvents' = pendingEvents
        BY <1>1, <1>12, <4>3
      <4> QED
        BY <4>2, <4>4
    <3> QED
      BY <1>1, <1>2, <3>1, <3>2 DEF JobSound
  <2>2. JobSound(J)'
    <3>1. \A i \in DOMAIN pendingEvents : pendingEvents[i] < J.own
      BY <1>2, <1>4 DEF IInv, BufferSound
    <3>2. J.own \in Arrived'
      BY <1>2, <1>4
    <3> QED
      BY <1>1, <1>3, <1>4, <1>5, <3>1, <3>2 DEF JobSound
  <2> QED
    BY <1>4, <2>1, <2>2
<1>14. LinesKept'
  BY <1>1, <1>2, <1>4, <1>12 DEF LinesKept, IInv
<1>15. TakenBy(jobs)' = TakenBy(O)' \cup {J.line}
  BY <1>4, <1>9 DEF TakenBy
<1>16. TakenBy(jobs)' \subseteq Arrived'
  BY <1>2, <1>5, <1>8, <1>10, <1>15
<1>17. ASSUME ~overlapped'
       PROVE  OneFlush' /\ IdsInOrder' /\ \A x \in TakenBy(O)' : x < J.line
  <2>1. ~overlapped /\ OneFlush /\ IdsInOrder /\ (pendingEvents # <<>> => \A j \in jobs : j.at = 0)
    BY <1>1, <1>17 DEF IInv
  <2>2. pendingEvents # <<>> => jobs = {} /\ TakenBy(jobs) = {}
    BY <2>1 DEF OneFlush
  <2>3. \A x \in TakenBy(O)' : x < J.line
    BY <1>2, <1>5, <1>8, <1>10, <2>2
  <2>4. OneFlush'
    <3>1. CASE pendingEvents = <<>>
      BY <1>1, <1>4, <1>5, <2>1, <3>1 DEF OneFlush
    <3>2. CASE pendingEvents # <<>>
      <4>1. jobs' = {J} /\ J.at # 0
        BY <1>4, <1>5, <2>2, <3>2
      <4>2. TakenBy(jobs)' = {J.line}
        BY <1>10, <1>15, <2>2, <3>2
      <4>3. J.line <= J.line
        BY JobFields, ArrivedLines DEF IInv
      <4>4. \A x \in TakenBy(jobs)' : \E j \in jobs' : x <= j.line
        BY <4>1, <4>2, <4>3
      <4>5. pendingEvents' # <<>>
        BY <1>1, <3>2
      <4> QED
        BY <4>1, <4>4, <4>5 DEF OneFlush
    <3> QED
      BY <3>1, <3>2
  <2>5. IdsInOrder'
    BY <1>4, <1>6, <1>7, <1>9, <1>10, <2>1, <2>3, PersistInOrder DEF IInv
  <2> QED
    BY <2>3, <2>4, <2>5
<1>18. ASSUME ~overlapped', ~raced'
       PROVE  RootIsLast' /\ ParentsSound(jobs)' /\ UserIsLast(jobs)'
  <2>1. /\ RootIsLast /\ ParentsSound(jobs) /\ UserIsLast(jobs)
        /\ kinds'[J.line] # "other" => \A j \in O : kinds'[j.line] # "user"
    BY <1>1, <1>4, <1>9, <1>18 DEF IInv
  <2>2. RootIsLast'
    BY <1>1, <1>10, <2>1 DEF RootIsLast
  <2>3. ParentsSound(O)'
    <3>1. \A x : LastUser(x)' = LastUser(x)
      <4>1. \A x : LastUser(x) = {r \in Users : r[2] < x /\ \A q \in Users : q[2] < x => q[2] <= r[2]}
        BY DEF LastUser, Users, AllRows
      <4>2. \A x : LastUser(x)' = {r \in Users' : r[2] < x /\ \A q \in Users' : q[2] < x => q[2] <= r[2]}
        BY DEF LastUser, Users, AllRows
      <4> QED
        BY <1>10, <4>1, <4>2
    <3> QED
      BY <1>10, <2>1, <3>1 DEF ParentsSound, ParentOf
  <2>4. UserIsLast(O)'
    BY <1>8, <1>9, <1>10, <2>1 DEF UserIsLast
  <2> QED
    BY <1>1, <1>4, <1>6, <1>7, <1>9, <1>17, <1>18, <2>1, <2>2, <2>3, <2>4, PersistParents
<1> QED
  BY <1>6, <1>11, <1>13, <1>14, <1>16, <1>17, <1>18 DEF IInv
-----------------------------------------------------------------------------
(* An append is answered *)

\* The stores that answered have the row; what is accounted for stays so.
LEMMA WriteFacts ==
  ASSUME TypeOK, NEW j \in jobs, NEW ok \in SUBSET Stores, Appended(j, ok)
  PROVE  /\ rows' \in [Stores -> SUBSET (Nat \X Lines)]
         /\ deltas' \in [Stores -> SUBSET (Nat \X Lines)]
         /\ failed' \subseteq Stores \X Lines /\ failed \subseteq failed'
         /\ \A s \in Stores : /\ rows[s] \subseteq rows'[s] /\ deltas[s] \subseteq deltas'[s]
                              /\ Accounted(s, j.line)'
         /\ kinds[j.line] = "delta" =>
              /\ AllRows' = AllRows /\ AllDeltas' \subseteq AllDeltas \cup {<<j.id, j.line>>}
              /\ root' = root
         /\ kinds[j.line] # "delta" =>
              /\ AllDeltas' = AllDeltas /\ AllRows' \subseteq AllRows \cup {<<j.id, j.line>>}
              /\ AllRows \subseteq AllRows'
         /\ kinds[j.line] = "user" /\ ok # {} =>
              AllRows' = AllRows \cup {<<j.id, j.line>>} /\ root' = j.id
         /\ kinds[j.line] = "user" /\ ok = {} => AllRows' = AllRows
         /\ ~(kinds[j.line] = "user" /\ ok # {}) => root' = root
         /\ root' \in Nat
<1> DEFINE pair == <<j.id, j.line>>
<1>1. j \in Job /\ j.line \in Lines /\ j.id \in Nat /\ pair \in Nat \X Lines
  BY JobFields DEF TypeOK
<1>2. /\ failed' = failed \cup ((Stores \ ok) \X {j.line}) /\ Write(j, ok)
      /\ root' = NewRoot(j, ok) /\ UNCHANGED <<known, kinds, dropped, overlapped>>
  BY DEF Appended
<1>3. failed' \subseteq Stores \X Lines /\ failed \subseteq failed'
  BY <1>1, <1>2 DEF TypeOK
<1>4. \A s \in Stores : s \notin ok => <<s, j.line>> \in failed'
  BY <1>2
<1>5. /\ root' \in Nat
      /\ ~(kinds[j.line] = "user" /\ ok # {}) => root' = root
      /\ kinds[j.line] = "user" /\ ok # {} => root' = j.id
  BY <1>1, <1>2 DEF NewRoot, TypeOK
<1>6. rows \in [Stores -> SUBSET (Nat \X Lines)] /\ deltas \in [Stores -> SUBSET (Nat \X Lines)]
  BY DEF TypeOK
<1>7. CASE kinds[j.line] = "delta"
  <2>1. rows' = rows /\ AllRows' = AllRows /\ kinds'[j.line] = "delta"
    BY <1>2, <1>7 DEF Write, AllRows
  <2>2. CASE WriteDeltas = TRUE
    <3>1. deltas' = [s \in Stores |-> deltas[s] \cup IF s \in ok THEN {pair} ELSE {}]
      BY <1>2, <1>7, <2>2 DEF Write
    <3>2. \A s \in Stores : /\ deltas'[s] = deltas[s] \cup IF s \in ok THEN {pair} ELSE {}
                            /\ s \in ok => pair \in deltas'[s]
      BY <3>1
    <3>3. deltas' \in [Stores -> SUBSET (Nat \X Lines)]
      BY <1>1, <1>6, <3>1
    <3>4. AllDeltas' \subseteq AllDeltas \cup {pair}
      BY <3>2 DEF AllDeltas
    <3>5. \A s \in Stores : s \in ok => Written(s, j.line)'
      BY <3>2 DEF Written
    <3> QED
      BY <1>3, <1>4, <1>5, <1>6, <1>7, <2>1, <3>2, <3>3, <3>4, <3>5 DEF Accounted
  <2>3. CASE WriteDeltas = FALSE
    <3>1. deltas' = deltas /\ AllDeltas' = AllDeltas
      BY <1>2, <1>7, <2>3 DEF Write, AllDeltas
    <3> QED
      BY <1>3, <1>5, <1>6, <1>7, <2>1, <2>3, <3>1 DEF Accounted
  <2> QED
    BY <2>2, <2>3, Bounds
<1>8. CASE kinds[j.line] # "delta"
  <2>1. deltas' = deltas /\ AllDeltas' = AllDeltas
    BY <1>2, <1>8 DEF Write, AllDeltas
  <2>2. rows' = [s \in Stores |-> rows[s] \cup IF s \in ok THEN {pair} ELSE {}]
    BY <1>2, <1>8 DEF Write
  <2>3. \A s \in Stores : /\ rows'[s] = rows[s] \cup IF s \in ok THEN {pair} ELSE {}
                          /\ s \in ok => pair \in rows'[s]
    BY <2>2
  <2>4. rows' \in [Stores -> SUBSET (Nat \X Lines)]
    BY <1>1, <1>6, <2>2
  <2>5. AllRows' \subseteq AllRows \cup {pair} /\ AllRows \subseteq AllRows'
    BY <2>3 DEF AllRows
  <2>6. ok # {} => pair \in AllRows'
    BY <2>3 DEF AllRows
  <2>7. ok = {} => AllRows' = AllRows
    BY <2>3 DEF AllRows
  <2>8. \A s \in Stores : s \in ok => Written(s, j.line)'
    BY <2>3 DEF Written
  <2> QED
    BY <1>3, <1>4, <1>5, <1>6, <1>8, <2>1, <2>3, <2>4, <2>5, <2>6, <2>7, <2>8 DEF Accounted
<1> QED
  BY <1>7, <1>8

\* The other jobs after an append: nothing is taken that was not.
LEMMA OthersFacts ==
  ASSUME TypeOK, NEW j \in jobs, NEW ok \in SUBSET Stores, Appended(j, ok),
         NEW O \in SUBSET Job, O = jobs \ {j}
  PROVE  /\ TakenBy(O)' \subseteq TakenBy(jobs) /\ GivenBy(O)' \subseteq GivenBy(jobs)
         /\ DeltasBy(O)' \subseteq DeltasBy(jobs)
<1>1. kinds' = kinds
  BY DEF Appended
<1>2. \/ /\ kinds[j.line] = "delta" /\ AllRows' = AllRows
         /\ AllDeltas' \subseteq AllDeltas \cup {<<j.id, j.line>>}
      \/ /\ kinds[j.line] # "delta" /\ AllDeltas' = AllDeltas
         /\ AllRows' \subseteq AllRows \cup {<<j.id, j.line>>}
  BY WriteFacts
<1>3. \A r \in AllRows' \cup AllDeltas' : r \in AllRows \cup AllDeltas \/ r = <<j.id, j.line>>
  BY <1>2
<1>4. TakenBy(O)' \subseteq TakenBy(jobs)
  BY <1>3 DEF TakenBy
<1>5. GivenBy(O)' \subseteq GivenBy(jobs)
  BY <1>1, <1>2 DEF GivenBy
<1>6. DeltasBy(O)' \subseteq DeltasBy(jobs)
  BY <1>1, <1>2 DEF DeltasBy
<1> QED
  BY <1>4, <1>5, <1>6

\* A user message becomes the root of the turn after every delta of the turns before it.
LEMMA WriteParents ==
  ASSUME TypeOK, NEW j \in jobs, NEW ok \in SUBSET Stores, Appended(j, ok),
         NEW O \in SUBSET Job, O = jobs \ {j},
         RootIsLast, ParentsSound(jobs), UserIsLast(jobs)
  PROVE  RootIsLast' /\ ParentsSound(O)' /\ UserIsLast(O)'
<1> DEFINE pair == <<j.id, j.line>>
<1>1. kinds' = kinds /\ j \in Job /\ j.line \in Nat /\ j.line <= j.line
  BY JobFields, ArrivedLines DEF Appended, TypeOK
<1>2. DeltasBy(O)' \subseteq DeltasBy(jobs)
  BY OthersFacts
<1>3. /\ DeltasBy(jobs) \subseteq Nat \X Lines /\ Lines \subseteq Nat
      /\ Users \subseteq Nat \X Lines
  BY Pairs, ArrivedLines DEF TypeOK, Users
<1>4. /\ \A x : LastUser(x) = {r \in Users : r[2] < x /\ \A q \in Users : q[2] < x => q[2] <= r[2]}
      /\ \A x : LastUser(x)' = {r \in Users' : r[2] < x /\ \A q \in Users' : q[2] < x => q[2] <= r[2]}
  BY DEF LastUser, Users, AllRows
<1>5. CASE kinds[j.line] = "user" /\ ok # {}
  <2>1. Users' = Users \cup {pair} /\ root' = j.id
    BY <1>1, <1>5, WriteFacts DEF Users
  <2>2. \A r \in Users \cup DeltasBy(jobs) : r[2] < j.line
    BY <1>5 DEF UserIsLast
  <2>3. \A q \in Users' : q[2] <= j.line
    <3>1. \A q \in Users : q[2] \in Nat /\ q[2] < j.line
      BY <1>3, <2>2
    <3>2. \A q \in Users : q[2] <= j.line
      BY <1>1, <3>1
    <3>3. pair[2] = j.line
      OBVIOUS
    <3> QED
      BY <1>1, <2>1, <3>2, <3>3
  <2>4. pair \in Users' /\ pair[1] = root' /\ pair[2] = j.line
    BY <2>1
  <2>5. RootIsLast'
    BY <2>3, <2>4 DEF RootIsLast
  <2>6. \A d \in DeltasBy(O)' : LastUser(d[2])' = LastUser(d[2])
    <3> SUFFICES ASSUME NEW d \in DeltasBy(O)' PROVE LastUser(d[2])' = LastUser(d[2])
      OBVIOUS
    <3>1. PICK x \in Nat : x = d[2] /\ x < j.line
      BY <1>2, <1>3, <2>2
    <3>2. ~(pair[2] < x)
      BY <1>1, <3>1
    <3>3. LastUser(x)' = LastUser(x)
      BY <1>4, <2>1, <3>2
    <3> QED
      BY <3>1, <3>3
  <2>7. ParentsSound(O)'
    BY <1>2, <2>6 DEF ParentsSound, ParentOf
  <2>8. UserIsLast(O)'
    BY <1>1, <1>5 DEF UserIsLast
  <2> QED
    BY <2>5, <2>7, <2>8
<1>6. CASE ~(kinds[j.line] = "user" /\ ok # {})
  <2>1. Users' = Users /\ root' = root
    <3>1. CASE kinds[j.line] = "user"
      BY <1>1, <1>6, <3>1, WriteFacts DEF Users
    <3>2. CASE kinds[j.line] # "user"
      <4>1. AllRows \subseteq AllRows' /\ AllRows' \subseteq AllRows \cup {pair}
        BY WriteFacts
      <4> QED
        BY <1>1, <1>6, <3>2, <4>1, WriteFacts DEF Users
    <3> QED
      BY <3>1, <3>2
  <2>2. RootIsLast'
    BY <2>1 DEF RootIsLast
  <2>3. \A x : LastUser(x)' = LastUser(x)
    BY <1>4, <2>1
  <2>4. ParentsSound(O)'
    BY <1>2, <2>3 DEF ParentsSound, ParentOf
  <2>5. UserIsLast(O)'
    BY <1>1, <1>2, <2>1 DEF UserIsLast
  <2> QED
    BY <2>2, <2>4, <2>5
<1> QED
  BY <1>5, <1>6

\* What an append leaves of the other jobs and of the lines, whatever the job does next.
LEMMA AppendKeeps ==
  ASSUME IInv, NEW j \in jobs, NEW ok \in SUBSET Stores, Appended(j, ok),
         NEW O \in SUBSET Job, O = jobs \ {j},
         pendingEvents' \in {pendingEvents, <<>>}
  PROVE  /\ \A s \in Stores, x \in Arrived : Accounted(s, x) => Accounted(s, x)'
         /\ \A k \in O : JobSound(k)'
         /\ TakenBy(O)' \subseteq Arrived'
         /\ BufferSound' /\ QuietBefore'
<1>1. UNCHANGED <<known, kinds, dropped, overlapped>> /\ Arrived' = Arrived
  BY DEF Appended, Arrived
<1>2. \A s \in Stores, x \in Arrived : Accounted(s, x) => Accounted(s, x)'
  BY <1>1, WriteFacts, AccountedStays DEF IInv
<1>3. /\ pendingEvents \in Seq(Lines) /\ DOMAIN pendingEvents = 1..Len(pendingEvents)
      /\ Len(pendingEvents) \in Nat /\ DOMAIN <<>> = {}
  BY LenProperties, EmptySeq DEF IInv, TypeOK
<1>4. ASSUME NEW k \in O PROVE JobSound(k)'
  <2>1. k \in Job /\ k \in jobs /\ k.at \in Nat /\ JobSound(k)
    BY JobFields DEF IInv
  <2>2. CASE pendingEvents' = <<>>
    BY <1>1, <2>1, <2>2 DEF JobSound
  <2>3. CASE pendingEvents' = pendingEvents
    <3>1. ASSUME k.at # 0, pendingEvents # <<>>, NEW i \in 1..(k.at - 1), NEW s \in Stores
          PROVE  Accounted(s, pendingEvents[i])'
      <4>1. i \in DOMAIN pendingEvents
        BY <1>3, <2>1, <3>1 DEF JobSound
      <4>2. PICK x : x = pendingEvents[i]
        OBVIOUS
      <4>3. x \in Arrived /\ Accounted(s, x)
        BY <2>1, <3>1, <4>1, <4>2 DEF JobSound, IInv, BufferSound
      <4>4. Accounted(s, x)'
        BY <1>2, <4>3
      <4> QED
        BY <2>3, <4>2, <4>4
    <3> QED
      BY <1>1, <2>1, <2>3, <3>1 DEF JobSound
  <2> QED
    BY <2>2, <2>3
<1>5. TakenBy(O)' \subseteq Arrived'
  BY <1>1, OthersFacts DEF IInv
<1>6. BufferSound'
  BY <1>1, <1>3 DEF IInv, BufferSound
<1>7. QuietBefore'
  BY <1>1 DEF IInv, QuietBefore
<1> QED
  BY <1>2, <1>4, <1>5, <1>6, <1>7

\* A call has written its own line.
LEMMA OwnWritten ==
  ASSUME IInv, NEW j \in jobs, NEW ok \in SUBSET Stores, Appended(j, ok), j.at = 0
  PROVE  IInv'
<1>1. /\ UNCHANGED <<known, kinds, dropped, overlapped, pendingEvents, nextId, raced>>
      /\ jobs' = jobs \ {j}
  BY DEF Appended
<1>2. PICK O \in SUBSET Job : O = jobs \ {j}
  BY DEF IInv, TypeOK
<1>3. TypeOK'
  <2>1. known' \in BOOLEAN /\ overlapped' \in BOOLEAN /\ raced' \in BOOLEAN
    BY <1>1 DEF IInv, TypeOK
  <2> QED
    BY <1>1, <1>2, <2>1, WriteFacts DEF IInv, TypeOK
<1>4. /\ \A s \in Stores, x \in Arrived : Accounted(s, x) => Accounted(s, x)'
      /\ \A k \in O : JobSound(k)'
      /\ TakenBy(O)' \subseteq Arrived' /\ BufferSound' /\ QuietBefore'
  BY <1>1, <1>2, AppendKeeps
<1>5. LinesKept'
  <2>1. Arrived' = Arrived /\ j.own = j.line /\ \A s \in Stores : Accounted(s, j.line)'
    BY <1>1, WriteFacts DEF IInv, JobSound, Arrived
  <2> QED
    BY <1>1, <1>4, <2>1 DEF IInv, LinesKept
<1>6. ASSUME ~overlapped' PROVE OneFlush' /\ IdsInOrder'
  <2>1. OneFlush /\ IdsInOrder
    BY <1>1, <1>6 DEF IInv
  <2>2. pendingEvents' = <<>> /\ \A k \in O : k.at = 0
    BY <1>1, <1>2, <2>1 DEF OneFlush
  <2>3. GivenBy(O)' \subseteq GivenBy(jobs)
    BY <1>2, OthersFacts DEF IInv
  <2> QED
    BY <1>1, <1>2, <2>1, <2>2, <2>3 DEF OneFlush, IdsInOrder, Ordered
<1>7. ASSUME ~overlapped', ~raced'
      PROVE  RootIsLast' /\ ParentsSound(jobs)' /\ UserIsLast(jobs)'
  <2>1. RootIsLast' /\ ParentsSound(O)' /\ UserIsLast(O)'
    BY <1>1, <1>2, <1>7, WriteParents DEF IInv
  <2> QED
    BY <1>1, <1>2, <2>1
<1> QED
  BY <1>1, <1>2, <1>3, <1>4, <1>5, <1>6, <1>7 DEF IInv

\* A flush has written a line of the buffer and takes the next one, or its own.
LEMMA FlushGoesOn ==
  ASSUME IInv, NEW j \in jobs, NEW ok \in SUBSET Stores, Appended(j, ok), j.at # 0
  PROVE  IInv'
<1>1. /\ UNCHANGED <<known, kinds, dropped, overlapped>>
      /\ Persist(j.own, NextPlace(j), pendingEvents, kinds, jobs \ {j}, root')
      /\ pendingEvents' = IF NextPlace(j) = 0 THEN <<>> ELSE pendingEvents
  BY DEF Appended, Emptied
<1>2. PICK O \in SUBSET Job : O = jobs \ {j}
  BY DEF IInv, TypeOK
<1>3. /\ pendingEvents \in Seq(Lines) /\ DOMAIN pendingEvents = 1..Len(pendingEvents)
      /\ Len(pendingEvents) \in Nat /\ <<>> \in Seq(Lines) /\ Len(<<>>) = 0
      /\ pendingEvents = <<>> => Len(pendingEvents) = 0
      /\ nextId \in Nat /\ Arrived' = Arrived /\ Arrived \subseteq Lines /\ Lines \subseteq Nat
  BY <1>1, LenProperties, EmptySeq, ArrivedLines DEF IInv, TypeOK, Arrived
<1>4. /\ j \in Job /\ j.own \in Lines /\ j.at \in Nat /\ j.line \in Lines /\ JobSound(j)
  BY JobFields DEF IInv, TypeOK
<1>5. PICK at \in Nat : at = NextPlace(j)
  BY <1>4 DEF NextPlace
<1>6. /\ at # 0 => at = j.at + 1 /\ at \in DOMAIN pendingEvents /\ pendingEvents # <<>>
      /\ at = 0 => Len(pendingEvents) <= j.at
  BY <1>3, <1>4, <1>5 DEF NextPlace
<1>7. PICK J \in Job :
        /\ J.own = j.own /\ J.at = at /\ J.line = Pick(j.own, at, pendingEvents)
        /\ jobs' = O \cup {J} /\ nextId' \in Nat
        /\ kinds[J.line] = "delta" => J.id = root' /\ nextId' = nextId
        /\ kinds[J.line] # "delta" => J.id = nextId /\ nextId' = nextId + 1
        /\ raced' = (raced \/ (kinds[J.line] # "other" /\ \E k \in O : kinds[k.line] = "user"))
  <2>1. PICK r \in Nat : r = root'
    BY WriteFacts DEF IInv
  <2>2. Pick(j.own, at, pendingEvents) \in Lines
    BY <1>3, <1>4, <1>6 DEF Pick, IInv, BufferSound
  <2>3. /\ Persist(j.own, at, pendingEvents, kinds, O, r)
        /\ j.own \in Lines /\ nextId \in Nat
    BY <1>1, <1>2, <1>3, <1>4, <1>5, <2>1
  <2>4. PICK J \in Job :
          /\ J.own = j.own /\ J.at = at /\ J.line = Pick(j.own, at, pendingEvents)
          /\ jobs' = O \cup {J} /\ nextId' \in Nat
          /\ kinds[J.line] = "delta" => J.id = r /\ nextId' = nextId
          /\ kinds[J.line] # "delta" => J.id = nextId /\ nextId' = nextId + 1
          /\ raced' = (raced \/ (kinds[J.line] # "other" /\ \E k \in O : kinds[k.line] = "user"))
    BY <2>2, <2>3, PersistFacts
  <2> QED
    BY <2>1, <2>4
<1>8. /\ at # 0 => J.line = pendingEvents[at] /\ pendingEvents' = pendingEvents
      /\ at = 0 => J.line = j.own /\ pendingEvents' = <<>>
      /\ J.line \in Arrived
  BY <1>1, <1>4, <1>5, <1>6, <1>7 DEF Pick, IInv, BufferSound, JobSound
<1>9. TypeOK'
  <2>1. known' \in BOOLEAN /\ overlapped' \in BOOLEAN /\ raced' \in BOOLEAN
    BY <1>1, <1>7 DEF IInv, TypeOK
  <2>2. pendingEvents' \in Seq(Lines) /\ Len(pendingEvents') <= PendingCap
    <3>1. Len(pendingEvents) <= PendingCap /\ 0 <= PendingCap
      BY Bounds DEF IInv, TypeOK
    <3>2. CASE at = 0
      BY <1>3, <1>8, <3>1, <3>2
    <3>3. CASE at # 0
      BY <1>3, <1>8, <3>1, <3>3
    <3> QED
      BY <3>2, <3>3
  <2>3. jobs' \subseteq Job
    BY <1>7
  <2> QED
    BY <1>1, <1>7, <2>1, <2>2, <2>3, WriteFacts DEF IInv, TypeOK
<1>10. /\ \A s \in Stores, x \in Arrived : Accounted(s, x) => Accounted(s, x)'
       /\ \A k \in O : JobSound(k)'
       /\ TakenBy(O)' \subseteq Arrived' /\ BufferSound' /\ QuietBefore'
  <2>1. pendingEvents' \in {pendingEvents, <<>>}
    BY <1>8
  <2> QED
    BY <1>2, <2>1, AppendKeeps
\* With its line written, the flush has seen to the buffer up to its place.
<1>11. ASSUME NEW i \in DOMAIN pendingEvents, i <= j.at, NEW x, x = pendingEvents[i], NEW s \in Stores
       PROVE  Accounted(s, x)'
  <2>1. pendingEvents # <<>> /\ x \in Arrived
    BY <1>3, <1>11 DEF IInv, BufferSound
  <2>2. CASE i = j.at
    BY <1>3, <1>4, <1>11, <2>1, <2>2, WriteFacts DEF JobSound, IInv
  <2>3. CASE i # j.at
    <3>1. i \in 1..(j.at - 1)
      BY <1>3, <1>4, <1>11, <2>3
    <3> QED
      BY <1>4, <1>10, <1>11, <2>1, <3>1 DEF JobSound
  <2> QED
    BY <2>2, <2>3
<1>12. JobSound(J)'
  <2>1. J.own \in Arrived' /\ J.line \in Arrived' /\ (J.at = 0 => J.line = J.own)
    BY <1>3, <1>4, <1>7, <1>8 DEF JobSound
  <2>2. ASSUME at # 0
        PROVE  /\ J.at <= Len(pendingEvents) /\ J.line = pendingEvents[J.at]
               /\ pendingEvents' = pendingEvents
               /\ \A i \in 1..(J.at - 1) : i \in DOMAIN pendingEvents /\ i <= j.at
               /\ \A i \in DOMAIN pendingEvents : pendingEvents[i] < J.own
    <3>1. \A i \in DOMAIN pendingEvents : pendingEvents[i] < J.own
      BY <1>4, <1>6, <1>7, <2>2 DEF JobSound
    <3>2. /\ J.at <= Len(pendingEvents)
          /\ \A i \in 1..(J.at - 1) : i \in DOMAIN pendingEvents /\ i <= j.at
      BY <1>3, <1>4, <1>6, <1>7, <2>2
    <3> QED
      BY <1>7, <1>8, <2>2, <3>1, <3>2
  <2>3. ASSUME at # 0, NEW i \in 1..(J.at - 1), NEW s \in Stores
        PROVE  Accounted(s, pendingEvents[i])'
    <3>1. i \in DOMAIN pendingEvents /\ i <= j.at /\ pendingEvents' = pendingEvents
      BY <2>2, <2>3
    <3>2. PICK x : x = pendingEvents[i]
      OBVIOUS
    <3>3. Accounted(s, x)'
      BY <1>11, <3>1, <3>2
    <3> QED
      BY <3>1, <3>2, <3>3
  <2> QED
    BY <1>7, <2>1, <2>2, <2>3 DEF JobSound
<1>13. LinesKept'
  <2> SUFFICES ASSUME NEW s \in Stores, NEW n \in Arrived
               PROVE  \/ Accounted(s, n)'
                      \/ \E i \in DOMAIN pendingEvents' : pendingEvents'[i] = n
                      \/ \E k \in jobs' : k.own = n
    BY <1>3 DEF LinesKept
  <2>1. CASE Accounted(s, n)
    BY <1>10, <2>1
  <2>2. CASE \E k \in jobs : k.own = n
    BY <1>2, <1>7, <2>2
  <2>3. CASE \E i \in DOMAIN pendingEvents : pendingEvents[i] = n
    <3>1. CASE at = 0
      <4>1. PICK i \in DOMAIN pendingEvents : pendingEvents[i] = n
        BY <2>3
      <4>2. i <= j.at
        BY <1>3, <1>4, <1>6, <3>1
      <4> QED
        BY <1>11, <4>1, <4>2
    <3>2. CASE at # 0
      BY <1>8, <2>3, <3>2
    <3> QED
      BY <3>1, <3>2
  <2> QED
    BY <2>1, <2>2, <2>3 DEF IInv, LinesKept
<1>14. TakenBy(jobs)' = TakenBy(O)' \cup {J.line}
  BY <1>7 DEF TakenBy
<1>15. TakenBy(jobs)' \subseteq Arrived'
  BY <1>3, <1>8, <1>10, <1>14
<1>16. /\ TakenBy(O)' \subseteq TakenBy(jobs) /\ GivenBy(O)' \subseteq GivenBy(jobs)
       /\ TakenBy(jobs) \subseteq Nat
  BY <1>2, <1>3, OthersFacts DEF IInv
\* Alone, the flush takes a line that is later than all it has written.
<1>17. ASSUME ~overlapped'
       PROVE  OneFlush' /\ IdsInOrder' /\ O = {} /\ \A x \in TakenBy(O)' : x < J.line
  <2>1. ~overlapped /\ OneFlush /\ IdsInOrder
    BY <1>1, <1>17 DEF IInv
  <2>2. /\ pendingEvents # <<>> /\ jobs = {j} /\ O = {}
        /\ \A x \in TakenBy(jobs) : x <= j.line
    <3>1. pendingEvents # <<>>
      BY <2>1 DEF OneFlush
    <3>2. \A k \in jobs : k = j
      BY <2>1, <3>1 DEF OneFlush
    <3> QED
      BY <1>2, <2>1, <3>1, <3>2 DEF OneFlush
  <2>3. j.line < J.line
    <3>1. j.at \in DOMAIN pendingEvents /\ j.line = pendingEvents[j.at]
      BY <1>3, <1>4, <2>2 DEF JobSound
    <3>2. CASE at = 0
      BY <1>4, <1>8, <2>2, <3>1, <3>2 DEF JobSound
    <3>3. CASE at # 0
      <4>1. j.at < at
        BY <1>4, <1>6, <3>3
      <4> QED
        BY <1>6, <1>8, <3>1, <3>3, <4>1 DEF IInv, BufferSound
    <3> QED
      BY <3>2, <3>3
  <2>4. \A x \in TakenBy(jobs) : x < J.line
    <3>1. J.line \in Nat /\ j.line \in Nat
      BY <1>3, <1>4, <1>8
    <3>2. \A x \in TakenBy(jobs) : x \in Nat /\ x <= j.line
      BY <1>16, <2>2
    <3> QED
      BY <2>3, <3>1, <3>2
  <2>5. \A x \in TakenBy(O)' : x < J.line
    BY <1>16, <2>4
  <2>6. jobs' = {J}
    BY <1>7, <2>2
  <2>7. OneFlush'
    <3>1. CASE at = 0
      BY <1>7, <1>8, <2>6, <3>1 DEF OneFlush
    <3>2. CASE at # 0
      <4>1. J.line \in Nat /\ J.line <= J.line
        <5>1. J.line \in Nat
          BY <1>3, <1>8
        <5> QED
          BY <5>1
      <4>2. \A x \in TakenBy(O)' : x <= J.line
        <5>1. TakenBy(O)' \subseteq Nat
          BY <1>16
        <5> QED
          BY <2>5, <4>1, <5>1
      <4>3. \A x \in TakenBy(jobs)' : \E k \in jobs' : x <= k.line
        BY <1>14, <2>6, <4>1, <4>2
      <4>4. pendingEvents' # <<>> /\ J.at # 0
        BY <1>7, <1>8, <2>2, <3>2
      <4> QED
        BY <2>6, <4>3, <4>4 DEF OneFlush
    <3> QED
      BY <3>1, <3>2
  <2>8. IdsInOrder'
    BY <1>1, <1>7, <1>9, <1>16, <2>1, <2>5, PersistInOrder DEF IInv
  <2> QED
    BY <2>2, <2>5, <2>7, <2>8
<1>18. ASSUME ~overlapped', ~raced'
       PROVE  RootIsLast' /\ ParentsSound(jobs)' /\ UserIsLast(jobs)'
  <2>1. ~overlapped /\ ~raced
    BY <1>1, <1>7, <1>18
  <2>2. RootIsLast' /\ ParentsSound(O)' /\ UserIsLast(O)'
    BY <1>2, <2>1, WriteParents DEF IInv
  <2> QED
    BY <1>1, <1>7, <1>9, <1>17, <1>18, <2>2, PersistParents
<1> QED
  BY <1>1, <1>7, <1>9, <1>10, <1>12, <1>13, <1>15, <1>17, <1>18 DEF IInv

-----------------------------------------------------------------------------
(* The invariant *)

LEMMA NextInvariant == IInv /\ [Next]_vars => IInv'
<1> SUFFICES ASSUME IInv, [Next]_vars PROVE IInv'
  OBVIOUS
<1>1. CASE SessionInit
  BY <1>1, SessionInitStep
<1>2. CASE \E kind \in Kinds : RecordRaw(kind)
  BY <1>2, BufferStep, RecordStep
<1>3. CASE \E j \in jobs, ok \in SUBSET Stores : Appended(j, ok)
  BY <1>3, OwnWritten, FlushGoesOn
<1>4. CASE UNCHANGED vars
  <2>1. UNCHANGED <<known, kinds, pendingEvents, jobs, root, nextId, rows, deltas, historyVars>>
    BY <1>4 DEF vars
  <2>2. TypeOK' /\ QuietBefore' /\ BufferSound' /\ LinesKept'
    <3>1. TypeOK'
      BY <2>1 DEF IInv, TypeOK, historyVars
    <3>2. QuietBefore' /\ BufferSound'
      BY <2>1 DEF IInv, QuietBefore, BufferSound, Arrived, AllRows, AllDeltas
    <3>3. \A s, n : Accounted(s, n)' <=> Accounted(s, n)
      BY <2>1 DEF Accounted, Written, historyVars
    <3>4. LinesKept'
      BY <2>1, <3>3 DEF IInv, LinesKept, Arrived
    <3> QED
      BY <3>1, <3>2, <3>4
  <2>3. (\A j \in jobs : JobSound(j))' /\ (TakenBy(jobs) \subseteq Arrived)'
    BY <2>1 DEF IInv, JobSound, TakenBy, Arrived, Accounted, Written, AllRows, AllDeltas, historyVars
  <2>4. overlapped' \/ (OneFlush' /\ IdsInOrder')
    BY <2>1 DEF IInv, OneFlush, IdsInOrder, Ordered, TakenBy, GivenBy, AllRows, AllDeltas, historyVars
  <2>5. raced' \/ overlapped' \/ (RootIsLast' /\ ParentsSound(jobs)' /\ UserIsLast(jobs)')
    BY <2>1 DEF IInv, RootIsLast, ParentsSound, UserIsLast, ParentOf, LastUser, Users, DeltasBy,
                AllRows, AllDeltas, historyVars
  <2> QED
    BY <2>2, <2>3, <2>4, <2>5 DEF IInv
<1> QED
  BY <1>1, <1>2, <1>3, <1>4 DEF Next

\* The invariant holds of every reachable state.
THEOREM Invariance == Spec => []IInv
BY InitInvariant, NextInvariant, PTL DEF Spec

\* Every variable of EventRecorder keeps its type: the buffer its cap, the jobs lines
\* that have a number.
THEOREM TypeCorrect == Spec => []TypeOK
<1>1. IInv => TypeOK
  BY DEF IInv
<1> QED
  BY <1>1, Invariance, PTL

(***************************************************************************)
(* What the recorder promises                                              *)
(***************************************************************************)

\* With no call on its way and the buffer empty, each store has each line, but for those
\* that the cap pushed out, that the store failed on, or that are not to be written:
\* whatever the overlaps of the flushes of RawRecorder were.
THEOREM NothingIsLost == Spec => []NothingLost
<1>1. IInv => NothingLost
  <2> SUFFICES ASSUME IInv, Settled, NEW s \in Stores, NEW n \in Arrived
               PROVE  Accounted(s, n)
    BY DEF NothingLost, Accounted
  <2>1. jobs = {} /\ DOMAIN pendingEvents = {}
    BY EmptySeq DEF Settled
  <2> QED
    BY <2>1 DEF IInv, LinesKept
<1> QED
  BY <1>1, Invariance, PTL

\* Unless two flushes overlapped, no store has a line twice, and row ids are in the order
\* in which the lines came.
THEOREM HistoryInOrder == Spec => []OnceInOrder
<1>1. IInv => OnceInOrder
  <2> SUFFICES ASSUME IInv, ~overlapped, NEW s \in Stores
               PROVE  /\ \A n \in Arrived : Cardinality(Copies(s, n)) <= 1
                      /\ \A a, b \in rows[s] : a[2] < b[2] => a[1] < b[1]
    BY DEF OnceInOrder
  <2>1. /\ \A p, q \in rows[s] : /\ p[2] < q[2] => p[1] < q[1]
                                 /\ p[2] = q[2] => p[1] = q[1]
        /\ rows[s] \subseteq Nat \X Lines
    <3>1. rows[s] \subseteq GivenBy(jobs)
      BY DEF GivenBy, AllRows
    <3> QED
      BY <3>1 DEF IInv, IdsInOrder, Ordered, TypeOK
  <2>2. ASSUME NEW n \in Arrived PROVE Cardinality(Copies(s, n)) <= 1
    <3>1. \A p, q \in Copies(s, n) : p = q
      BY <2>1 DEF Copies
    <3>2. CASE Copies(s, n) = {}
      BY <3>2, FS_EmptySet
    <3>3. CASE Copies(s, n) # {}
      <4>1. PICK p : Copies(s, n) = {p}
        BY <3>1, <3>3
      <4> QED
        BY <4>1, FS_Singleton
    <3> QED
      BY <3>2, <3>3
  <2> QED
    BY <2>1, <2>2
<1> QED
  BY <1>1, Invariance, PTL

\* Unless flushes overlapped or a user message was being written beside a line after it,
\* the parent of a delta is the last user message before it.
THEOREM DeltasFindTheirTurn == Spec => []ParentIsTurn
<1>1. IInv => ParentIsTurn
  <2> SUFFICES ASSUME IInv, ~raced, ~overlapped, NEW s \in Stores, NEW d \in deltas[s]
               PROVE  ParentOf(d[1], d[2])
    BY DEF ParentIsTurn, ParentOf
  <2>1. d \in DeltasBy(jobs)
    BY DEF DeltasBy, AllDeltas
  <2> QED
    BY <2>1 DEF IInv, ParentsSound
<1> QED
  BY <1>1, Invariance, PTL
=============================================================================
