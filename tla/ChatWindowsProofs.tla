------------------------- MODULE ChatWindowsProofs -------------------------
(***************************************************************************)
(* Theorems about ChatWindows, for every set of windows and of texts,      *)
(* every size of a batch, number of pieces of a block and bound on the     *)
(* prompts, blocks and events.                                             *)
(***************************************************************************)
EXTENDS ChatWindows, SequenceTheorems, FiniteSetTheorems, WellFoundedInduction, TLAPS

-----------------------------------------------------------------------------
(* Induction over data.  The library states induction for a predicate, but *)
(* the theorem on well-founded orderings it follows from is about sets.    *)

\* Every set of numbers has a least one.
LEMMA LeastNumber ==
  ASSUME NEW T, T \subseteq Nat, T # {}
  PROVE  \E x \in T : \A y \in T : x <= y
<1> DEFINE R == {ss \in Nat \X Nat : ss[1] < ss[2]}
<1>1. IsWellFoundedOn(R, Nat)
  BY NatLessThanWellFounded DEF OpToRel
<1>2. \E x \in T : \A y \in T : ~ (<<y, x>> \in R)
  <2> HIDE DEF R
  <2> QED BY <1>1, WFMin
<1>3. PICK x \in T : \A y \in T : ~ (<<y, x>> \in R)
  BY <1>2
<1>4. ASSUME NEW y \in T PROVE x <= y
  <2>1. x \in Nat /\ y \in Nat
    OBVIOUS
  <2>2. y < x => <<y, x>> \in R
    BY <2>1
  <2> QED BY <2>1, <2>2, <1>3
<1> QED BY <1>4

\* A set that 0 is in, and n + 1 with n, has all natural numbers.
LEMMA Induction ==
  ASSUME NEW S, 0 \in S, \A n \in Nat : n \in S => n + 1 \in S
  PROVE  Nat \subseteq S
<1> DEFINE T == Nat \ S
<1> SUFFICES ASSUME T # {} PROVE FALSE
  OBVIOUS
<1>1. T \subseteq Nat
  OBVIOUS
<1>2. \E x \in T : \A y \in T : x <= y
  <2> HIDE DEF T
  <2> QED BY <1>1, LeastNumber
<1>3. PICK x \in T : \A y \in T : x <= y
  BY <1>2
<1>4. x \in Nat /\ x # 0
  OBVIOUS
<1>5. x - 1 \in Nat /\ ~(x <= x - 1) /\ (x - 1) + 1 = x
  BY <1>4
<1>6. x - 1 \in S
  BY <1>3, <1>5
<1> QED BY <1>5, <1>6, <1>3

\* The same up to a number.
LEMMA BoundedInduction ==
  ASSUME NEW N \in Nat, NEW S, 0 \in S, \A n \in 0..N : n < N /\ n \in S => n + 1 \in S
  PROVE  0..N \subseteq S
<1> DEFINE U == {n \in Nat : n <= N => n \in S}
<1>1. 0 \in U
  OBVIOUS
<1>2. ASSUME NEW n \in Nat, n \in U PROVE n + 1 \in U
  BY <1>2
<1>3. Nat \subseteq U
  <2> HIDE DEF U
  <2> QED BY <1>1, <1>2, Induction
<1> QED BY <1>3

\* The greatest of a bounded set of numbers.
LEMMA Greatest ==
  ASSUME NEW n \in Nat, NEW T, T \subseteq 1..n, T # {}
  PROVE  Max(T) \in T /\ \A y \in T : y <= Max(T)
<1> DEFINE U == {n - x : x \in T}
<1>1. U \subseteq Nat /\ U # {}
  <2>1. ASSUME NEW x \in T PROVE n - x \in Nat
    <3>1. x \in Nat /\ x <= n
      OBVIOUS
    <3> QED BY <3>1
  <2> QED BY <2>1
<1>2. \E u \in U : \A v \in U : u <= v
  <2> HIDE DEF U
  <2> QED BY <1>1, LeastNumber
<1>3. PICK x \in T : \A v \in U : n - x <= v
  BY <1>2
<1>4. ASSUME NEW y \in T PROVE x >= y
  <2>1. n - x <= n - y
    BY <1>3
  <2>2. x \in Nat /\ y \in Nat
    OBVIOUS
  <2> QED BY <2>1, <2>2
<1>5. \E z \in T : \A y \in T : z >= y
  BY <1>4
<1>6. PICK z : z = Max(T)
  OBVIOUS
<1>7. z \in T /\ \A y \in T : z >= y
  BY <1>5, <1>6 DEF Max
<1>8. z \in Nat /\ \A y \in T : y \in Nat
  BY <1>7
<1> QED BY <1>6, <1>7, <1>8

\* What SelectLastInSeq returns of the positions that pass its test.
LEMMA LastOfSet ==
  ASSUME NEW n \in Nat, NEW I, I \subseteq 1..n, NEW i, i = IF I # {} THEN Max(I) ELSE 0
  PROVE  /\ i \in 0..n /\ (i # 0 => i \in I) /\ (i = 0 => I = {})
         /\ \A j \in I : j <= i
<1>1. CASE I = {}
  BY <1>1
<1>2. CASE I # {}
  <2>1. i \in I /\ \A j \in I : j <= i
    BY <1>2, Greatest
  <2> QED BY <1>2, <2>1
<1> QED BY <1>1, <1>2

-----------------------------------------------------------------------------
(* FlattenSeq *)

\* The partial concatenations of a sequence of sequences.
Flattening(s, g) ==
  g = [i \in 1..Len(s) |-> IF i = 1 THEN s[i] ELSE g[i - 1] \o s[i]]

\* FlattenSeq is the last of the partial concatenations.
LEMMA FlatteningExists ==
  ASSUME NEW X, NEW s \in Seq(Seq(X))
  PROVE  \E g : Flattening(s, g)
<1> DEFINE E(m) == \E g : g = [i \in 1..m |-> IF i = 1 THEN s[i] ELSE g[i - 1] \o s[i]]
           U == {m \in Nat : E(m)}
<1>1. 0 \in U
  <2> DEFINE g == [i \in 1..0 |-> s[i]]
  <2>1. g = [i \in 1..0 |-> IF i = 1 THEN s[i] ELSE g[i - 1] \o s[i]]
    OBVIOUS
  <2> QED BY <2>1
<1>2. ASSUME NEW m \in Nat, m \in U PROVE m + 1 \in U
  <2>1. PICK g : g = [i \in 1..m |-> IF i = 1 THEN s[i] ELSE g[i - 1] \o s[i]]
    BY <1>2
  <2> DEFINE h == [i \in 1..(m + 1) |-> IF i = m + 1
                                         THEN IF i = 1 THEN s[i] ELSE g[m] \o s[i]
                                         ELSE g[i]]
  <2>2. h = [i \in 1..(m + 1) |-> IF i = 1 THEN s[i] ELSE h[i - 1] \o s[i]]
    <3> SUFFICES ASSUME NEW i \in 1..(m + 1)
                 PROVE  h[i] = IF i = 1 THEN s[i] ELSE h[i - 1] \o s[i]
      OBVIOUS
    <3>1. CASE i = m + 1 /\ i = 1
      BY <3>1
    <3>2. CASE i = m + 1 /\ i # 1
      <4>1. i - 1 = m /\ m \in 1..(m + 1) /\ m # m + 1
        BY <3>2
      <4>2. h[m] = g[m]
        BY <4>1
      <4> QED BY <3>2, <4>1, <4>2
    <3>3. CASE i # m + 1
      <4>1. i \in 1..m /\ (i # 1 => i - 1 \in 1..m)
        BY <3>3
      <4>2. g[i] = IF i = 1 THEN s[i] ELSE g[i - 1] \o s[i]
        BY <2>1, <4>1
      <4>3. h[i] = g[i]
        BY <3>3
      <4>4. i # 1 => h[i - 1] = g[i - 1]
        BY <4>1
      <4> QED BY <4>2, <4>3, <4>4
    <3> QED BY <3>1, <3>2, <3>3
  <2> HIDE DEF h
  <2>3. E(m + 1)
    BY <2>2
  <2> HIDE DEF E
  <2> QED BY <2>3
<1>3. Nat \subseteq U
  <2> HIDE DEF U
  <2> QED BY <1>1, <1>2, Induction
<1>4. Len(s) \in U
  <2>1. Len(s) \in Nat
    OBVIOUS
  <2> HIDE DEF U
  <2> QED BY <1>3, <2>1
<1> QED BY <1>4 DEF Flattening

LEMMA FlattenIs ==
  ASSUME NEW X, NEW s \in Seq(Seq(X))
  PROVE  \E g : Flattening(s, g) /\ FlattenSeq(s) = IF Len(s) = 0 THEN <<>> ELSE g[Len(s)]
<1>1. CASE Len(s) = 0
  <2>1. s = <<>>
    BY <1>1
  <2> QED BY <1>1, <2>1, FlatteningExists DEF FlattenSeq
<1>2. CASE Len(s) # 0
  <2> DEFINE g == CHOOSE g : Flattening(s, g)
  <2>1. Flattening(s, g)
    BY FlatteningExists
  <2>2. FlattenSeq(s) = g[Len(s)]
    BY <1>2 DEF FlattenSeq, Flattening
  <2> QED BY <1>2, <2>1, <2>2
<1> QED BY <1>1, <1>2

\* What a flattening function is at its places.
LEMMA FlatteningAt ==
  ASSUME NEW s, NEW g, Len(s) \in Nat, Flattening(s, g)
  PROVE  /\ Len(s) # 0 => g[1] = s[1]
         /\ \A m \in 1..Len(s) : m + 1 \in 1..Len(s) => g[m + 1] = g[m] \o s[m + 1]
<1>1. \A i \in 1..Len(s) : g[i] = IF i = 1 THEN s[i] ELSE g[i - 1] \o s[i]
  BY DEF Flattening
<1>2. ASSUME NEW m \in 1..Len(s), m + 1 \in 1..Len(s) PROVE g[m + 1] = g[m] \o s[m + 1]
  <2>1. m + 1 # 1 /\ (m + 1) - 1 = m
    OBVIOUS
  <2>2. g[m + 1] = IF m + 1 = 1 THEN s[m + 1] ELSE g[(m + 1) - 1] \o s[m + 1]
    BY <1>1, <1>2
  <2> QED BY <2>1, <2>2
<1>3. Len(s) # 0 => g[1] = s[1]
  <2>1. Len(s) # 0 => 1 \in 1..Len(s)
    OBVIOUS
  <2> QED BY <1>1, <2>1
<1> QED BY <1>2, <1>3

\* They are sequences of the elements.
LEMMA FlatteningType ==
  ASSUME NEW X, NEW s \in Seq(Seq(X)), NEW g, Flattening(s, g)
  PROVE  \A m \in 1..Len(s) : g[m] \in Seq(X)
<1> DEFINE U == {m \in Nat : m \in 1..Len(s) => g[m] \in Seq(X)}
<1>0. Len(s) \in Nat
  OBVIOUS
<1>1. /\ Len(s) # 0 => g[1] = s[1]
      /\ \A m \in 1..Len(s) : m + 1 \in 1..Len(s) => g[m + 1] = g[m] \o s[m + 1]
  BY <1>0, FlatteningAt
<1>2. 0 \in U
  OBVIOUS
<1>3. ASSUME NEW m \in Nat, m \in U PROVE m + 1 \in U
  <2> SUFFICES ASSUME m + 1 \in 1..Len(s) PROVE g[m + 1] \in Seq(X)
    OBVIOUS
  <2>1. s[m + 1] \in Seq(X)
    OBVIOUS
  <2>2. CASE m = 0
    BY <1>0, <1>1, <2>1, <2>2
  <2>3. CASE m # 0
    <3>1. m \in 1..Len(s)
      BY <2>3
    <3>2. g[m] \in Seq(X)
      BY <1>3, <3>1
    <3>3. g[m + 1] = g[m] \o s[m + 1]
      BY <1>1, <3>1
    <3> QED BY <2>1, <3>2, <3>3
  <2> QED BY <2>2, <2>3
<1>4. Nat \subseteq U
  <2> HIDE DEF U
  <2> QED BY <1>2, <1>3, Induction
<1> QED BY <1>4

\* Two sequences that begin alike are flattened alike so far.
LEMMA FlatteningsAgree ==
  ASSUME NEW s, NEW t, Len(s) \in Nat, Len(t) \in Nat, NEW g, NEW h,
         Flattening(s, g), Flattening(t, h),
         NEW k \in 1..Len(s), k \in 1..Len(t), \A i \in 1..k : s[i] = t[i]
  PROVE  g[k] = h[k]
<1> DEFINE U == {m \in Nat : m \in 1..k => g[m] = h[m]}
<1>1. 0 \in U
  OBVIOUS
<1>2. ASSUME NEW m \in Nat, m \in U PROVE m + 1 \in U
  <2> SUFFICES ASSUME m + 1 \in 1..k PROVE g[m + 1] = h[m + 1]
    OBVIOUS
  <2>1. s[m + 1] = t[m + 1] /\ m + 1 \in 1..Len(s) /\ m + 1 \in 1..Len(t)
    OBVIOUS
  <2>2. CASE m = 0
    <3>1. g[1] = s[1]
      <4>1. Len(s) # 0
        BY <2>1
      <4> QED BY <4>1, FlatteningAt
    <3>2. h[1] = t[1]
      <4>1. Len(t) # 0
        BY <2>1
      <4> QED BY <4>1, FlatteningAt
    <3> QED BY <2>1, <2>2, <3>1, <3>2
  <2>3. CASE m # 0
    <3>1. m \in 1..Len(s) /\ m \in 1..Len(t) /\ m \in 1..k
      BY <2>3
    <3>2. g[m + 1] = g[m] \o s[m + 1]
      <4>1. \A x \in 1..Len(s) : x + 1 \in 1..Len(s) => g[x + 1] = g[x] \o s[x + 1]
        BY FlatteningAt
      <4> QED BY <2>1, <3>1, <4>1
    <3>3. h[m + 1] = h[m] \o t[m + 1]
      <4>1. \A x \in 1..Len(t) : x + 1 \in 1..Len(t) => h[x + 1] = h[x] \o t[x + 1]
        BY FlatteningAt
      <4> QED BY <2>1, <3>1, <4>1
    <3> QED BY <1>2, <2>1, <3>1, <3>2, <3>3
  <2> QED BY <2>2, <2>3
<1>3. Nat \subseteq U
  <2> HIDE DEF U
  <2> QED BY <1>1, <1>2, Induction
<1> QED BY <1>3

\* Nothing is added by empty sequences.
LEMMA FlatteningEmpties ==
  ASSUME NEW X, NEW s \in Seq(Seq(X)), NEW g, Flattening(s, g),
         NEW k \in 1..Len(s), \A i \in 1..Len(s) : i > k => s[i] = <<>>
  PROVE  g[Len(s)] = g[k]
<1> DEFINE U == {m \in Nat : m \in k..Len(s) => g[m] = g[k]}
<1>1. 0 \in U
  OBVIOUS
<1>2. ASSUME NEW m \in Nat, m \in U PROVE m + 1 \in U
  <2> SUFFICES ASSUME m + 1 \in k..Len(s) PROVE g[m + 1] = g[k]
    OBVIOUS
  <2>1. CASE m + 1 = k
    BY <2>1
  <2>2. CASE m + 1 # k
    <3>1. m \in 1..Len(s) /\ m + 1 \in 1..Len(s) /\ m + 1 > k /\ m \in k..Len(s)
      BY <2>2
    <3>2. s[m + 1] = <<>>
      BY <3>1
    <3>3. /\ \A x \in 1..Len(s) : x + 1 \in 1..Len(s) => g[x + 1] = g[x] \o s[x + 1]
          /\ \A x \in 1..Len(s) : g[x] \in Seq(X)
      <4>1. Len(s) \in Nat
        OBVIOUS
      <4> QED BY <4>1, FlatteningAt, FlatteningType
    <3>4. g[m + 1] = g[m] \o s[m + 1] /\ g[m] \in Seq(X)
      BY <3>1, <3>3
    <3> QED BY <1>2, <3>1, <3>2, <3>4
  <2> QED BY <2>1, <2>2
<1>3. Nat \subseteq U
  <2> HIDE DEF U
  <2> QED BY <1>1, <1>2, Induction
<1>4. Len(s) \in Nat /\ Len(s) \in k..Len(s)
  OBVIOUS
<1> QED BY <1>3, <1>4

LEMMA FlattenType ==
  ASSUME NEW X, NEW s \in Seq(Seq(X))
  PROVE  FlattenSeq(s) \in Seq(X) /\ (s = <<>> => FlattenSeq(s) = <<>>)
<1>1. PICK g : Flattening(s, g) /\ FlattenSeq(s) = IF Len(s) = 0 THEN <<>> ELSE g[Len(s)]
  BY FlattenIs
<1>2. Len(s) # 0 => g[Len(s)] \in Seq(X)
  <2>1. Len(s) # 0 => Len(s) \in 1..Len(s)
    OBVIOUS
  <2> QED BY <1>1, <2>1, FlatteningType
<1> QED BY <1>1, <1>2

\* One sequence more is concatenated at the end.
LEMMA FlattenAppend ==
  ASSUME NEW X, NEW s \in Seq(Seq(X)), NEW x \in Seq(X)
  PROVE  FlattenSeq(Append(s, x)) = FlattenSeq(s) \o x
<1> DEFINE t == Append(s, x)
           n == Len(s)
<1>1. /\ t \in Seq(Seq(X)) /\ Len(t) = n + 1 /\ n \in Nat
      /\ t[n + 1] = x /\ \A i \in 1..n : s[i] = t[i]
  OBVIOUS
<1> HIDE DEF t
<1>2. PICK g : Flattening(s, g) /\ FlattenSeq(s) = IF n = 0 THEN <<>> ELSE g[n]
  BY FlattenIs
<1>3. PICK h : Flattening(t, h) /\ FlattenSeq(t) = h[n + 1]
  <2>1. PICK h : Flattening(t, h) /\ FlattenSeq(t) = IF Len(t) = 0 THEN <<>> ELSE h[Len(t)]
    BY <1>1, FlattenIs
  <2> QED BY <1>1, <2>1
<1>4. CASE n = 0
  <2>0. Len(t) \in Nat /\ Len(t) # 0
    BY <1>1
  <2>1. h[1] = t[1]
    BY <1>3, <2>0, FlatteningAt
  <2>2. FlattenSeq(s) \o x = x
    BY <1>2, <1>4
  <2> QED BY <1>1, <1>3, <1>4, <2>1, <2>2 DEF t
<1>5. CASE n # 0
  <2>0. Len(s) \in Nat /\ Len(t) \in Nat
    BY <1>1
  <2>1. \A m \in 1..Len(t) : m + 1 \in 1..Len(t) => h[m + 1] = h[m] \o t[m + 1]
    BY <1>3, <2>0, FlatteningAt
  <2>2. n \in 1..Len(t) /\ n + 1 \in 1..Len(t) /\ n \in 1..n
    BY <1>1, <1>5
  <2>3. h[n + 1] = h[n] \o t[n + 1]
    BY <2>1, <2>2
  <2>5. g[n] = h[n]
    <3>1. Flattening(s, g) /\ Flattening(t, h) /\ n \in 1..Len(s) /\ \A i \in 1..n : s[i] = t[i]
      BY <1>1, <1>2, <1>3, <1>5
    <3> HIDE DEF n
    <3> QED BY <2>0, <2>2, <3>1, FlatteningsAgree
  <2> QED BY <1>1, <1>2, <1>3, <1>5, <2>2, <2>3, <2>5 DEF t
<1> QED BY <1>4, <1>5

\* One element is replaced after which there are only empty ones.
LEMMA FlattenReplace ==
  ASSUME NEW X, NEW s \in Seq(Seq(X)), NEW t \in Seq(Seq(X)), Len(s) = Len(t),
         NEW k \in 1..Len(s),
         \A i \in 1..Len(s) : i # k => s[i] = t[i],
         \A i \in 1..Len(s) : i > k => s[i] = <<>>
  PROVE  \E pre \in Seq(X) : FlattenSeq(s) = pre \o s[k] /\ FlattenSeq(t) = pre \o t[k]
<1>1. PICK g : Flattening(s, g) /\ FlattenSeq(s) = IF Len(s) = 0 THEN <<>> ELSE g[Len(s)]
  BY FlattenIs
<1>2. PICK h : Flattening(t, h) /\ FlattenSeq(t) = IF Len(t) = 0 THEN <<>> ELSE h[Len(t)]
  BY FlattenIs
<1>3. Len(s) # 0 /\ Len(s) \in Nat /\ k \in Nat /\ k \in 1..Len(t)
  OBVIOUS
<1>4. FlattenSeq(s) = g[k]
  BY <1>1, <1>3, FlatteningEmpties
<1>5. FlattenSeq(t) = h[k]
  <2>1. \A i \in 1..Len(t) : i > k => t[i] = <<>>
    OBVIOUS
  <2>2. h[Len(t)] = h[k]
    BY <1>2, <1>3, <2>1, FlatteningEmpties
  <2> QED BY <1>2, <1>3, <2>2
<1>6. s[k] \in Seq(X) /\ t[k] \in Seq(X)
  BY <1>3
<1>7. CASE k = 1
  <2>1. g[1] = s[1]
    BY <1>1, <1>3, FlatteningAt
  <2>2. h[1] = t[1]
    BY <1>2, <1>3, FlatteningAt
  <2>3. <<>> \o s[k] = s[k] /\ <<>> \o t[k] = t[k] /\ <<>> \in Seq(X)
    BY <1>6
  <2> QED BY <1>4, <1>5, <1>7, <2>1, <2>2, <2>3
<1>8. CASE k # 1
  <2>1. PICK m \in Nat : m + 1 = k /\ m \in 1..Len(s) /\ m \in 1..Len(t) /\ m \in 1..m
    <3>1. k - 1 \in Nat /\ (k - 1) + 1 = k
      BY <1>3
    <3>2. k - 1 \in 1..Len(s) /\ k - 1 \in 1..Len(t) /\ k - 1 \in 1..(k - 1)
      BY <1>3, <1>8
    <3> QED BY <3>1, <3>2
  <2>2. /\ \A x \in 1..Len(s) : x + 1 \in 1..Len(s) => g[x + 1] = g[x] \o s[x + 1]
        /\ \A x \in 1..Len(s) : g[x] \in Seq(X)
    BY <1>1, <1>3, FlatteningAt, FlatteningType
  <2>3. \A x \in 1..Len(t) : x + 1 \in 1..Len(t) => h[x + 1] = h[x] \o t[x + 1]
    BY <1>2, <1>3, FlatteningAt
  <2>4. g[k] = g[m] \o s[k] /\ g[m] \in Seq(X) /\ h[k] = h[m] \o t[k]
    BY <1>3, <2>1, <2>2, <2>3
  <2>5. \A i \in 1..m : s[i] = t[i]
    BY <1>3, <2>1
  <2>6. g[m] = h[m]
    <3>1. Flattening(s, g) /\ Flattening(t, h) /\ Len(s) \in Nat /\ Len(t) \in Nat
      BY <1>1, <1>2, <1>3
    <3> QED BY <2>1, <2>5, <3>1, FlatteningsAgree
  <2> QED BY <1>4, <1>5, <2>1, <2>4, <2>6
<1> QED BY <1>7, <1>8

\* Sequences with an element more, with one, with one replaced.
LEMMA Appended ==
  ASSUME NEW S, NEW s \in Seq(S), NEW e \in S
  PROVE  /\ Append(s, e) \in Seq(S) /\ Len(Append(s, e)) = Len(s) + 1 /\ Len(s) + 1 \in Nat
         /\ DOMAIN Append(s, e) = 1..(Len(s) + 1) /\ DOMAIN s = 1..Len(s)
         /\ Append(s, e)[Len(s) + 1] = e /\ Len(s) + 1 \in DOMAIN Append(s, e)
         /\ \A j \in DOMAIN s : Append(s, e)[j] = s[j] /\ j # Len(s) + 1 /\ j \in DOMAIN Append(s, e)
         /\ \A j \in DOMAIN Append(s, e) : j = Len(s) + 1 \/ j \in DOMAIN s
OBVIOUS

\* A sequence with an element inserted: the others keep their order.
LEMMA Inserted ==
  ASSUME NEW S, NEW s \in Seq(S), NEW e \in S, NEW i \in 1..(Len(s) + 1)
  PROVE  LET t == InsertAt(s, i, e)
         IN /\ t \in Seq(S) /\ Len(t) = Len(s) + 1 /\ t[i] = e /\ i \in DOMAIN t
            /\ \A j \in DOMAIN t : j # i => \E k \in DOMAIN s : /\ t[j] = s[k]
                                                               /\ k = IF j < i THEN j ELSE j - 1
<1> DEFINE a == SubSeq(s, 1, i - 1)
           b == SubSeq(s, i, Len(s))
           u == a \o <<e>>
           t == InsertAt(s, i, e)
<1>1. Len(s) \in Nat /\ i \in Nat /\ i >= 1 /\ i <= Len(s) + 1 /\ DOMAIN s = 1..Len(s)
  OBVIOUS
<1>2. /\ a \in Seq(S) /\ Len(a) = i - 1 /\ \A j \in 1..(i - 1) : a[j] = s[j]
  BY <1>1
<1>3. /\ b \in Seq(S) /\ Len(b) = Len(s) - i + 1
      /\ \A j \in 1..(Len(s) - i + 1) : b[j] = s[i + j - 1]
  BY <1>1
<1>4. t = u \o b
  BY DEF InsertAt
<1> HIDE DEF a, b, t
<1>5. u \in Seq(S) /\ Len(u) = i /\ u[i] = e /\ \A j \in 1..(i - 1) : u[j] = s[j]
  BY <1>1, <1>2
<1> HIDE DEF u
<1>6. /\ t \in Seq(S) /\ Len(t) = Len(s) + 1 /\ DOMAIN t = 1..(Len(s) + 1)
      /\ \A j \in 1..i : t[j] = u[j]
      /\ \A j \in (i + 1)..(Len(s) + 1) : t[j] = b[j - i]
  <2>1. t \in Seq(S) /\ Len(t) = Len(u) + Len(b) /\ DOMAIN t = 1..Len(t)
    BY <1>3, <1>4, <1>5
  <2>2. Len(t) = Len(s) + 1
    BY <1>1, <1>3, <1>5, <2>1
  <2>3. \A j \in 1..(Len(u) + Len(b)) : t[j] = IF j <= Len(u) THEN u[j] ELSE b[j - Len(u)]
    BY <1>3, <1>4, <1>5
  <2>4. ASSUME NEW j \in 1..i PROVE t[j] = u[j]
    BY <1>1, <1>5, <2>1, <2>2, <2>3
  <2>5. ASSUME NEW j \in (i + 1)..(Len(s) + 1) PROVE t[j] = b[j - i]
    BY <1>1, <1>5, <2>1, <2>2, <2>3
  <2> QED BY <2>1, <2>2, <2>4, <2>5
<1>7. ASSUME NEW j \in DOMAIN t, j # i
      PROVE  \E k \in DOMAIN s : t[j] = s[k] /\ k = IF j < i THEN j ELSE j - 1
  <2>1. CASE j < i
    <3>1. j \in 1..(i - 1) /\ j \in 1..i /\ j \in DOMAIN s
      BY <1>1, <1>6, <2>1
    <3>2. t[j] = s[j]
      BY <1>5, <1>6, <3>1
    <3> QED BY <2>1, <3>1, <3>2
  <2>2. CASE j > i
    <3>1. /\ j \in Nat /\ j - 1 \in DOMAIN s /\ t[j] = b[j - i] /\ j - i \in 1..(Len(s) - i + 1)
      BY <1>1, <1>6, <1>7, <2>2
    <3>2. t[j] = s[i + (j - i) - 1]
      BY <1>3, <3>1
    <3>3. i + (j - i) - 1 = j - 1
      BY <1>1, <3>1
    <3> QED BY <1>1, <2>2, <3>1, <3>2, <3>3
  <2> QED BY <1>1, <1>6, <1>7, <2>1, <2>2
<1>8. t[i] = e /\ i \in DOMAIN t
  BY <1>1, <1>5, <1>6
<1> QED BY <1>6, <1>7, <1>8 DEF t

\* One that is new leaves no element twice.
LEMMA InsertedOnce ==
  ASSUME NEW S, NEW s \in Seq(S), NEW e \in S, NEW i \in 1..(Len(s) + 1),
         \A j \in DOMAIN s : s[j] # e, \A j, k \in DOMAIN s : s[j] = s[k] => j = k
  PROVE  LET t == InsertAt(s, i, e) IN \A j, k \in DOMAIN t : t[j] = t[k] => j = k
<1> DEFINE t == InsertAt(s, i, e)
<1>1. /\ t \in Seq(S) /\ t[i] = e /\ i \in Nat
      /\ \A j \in DOMAIN t : j # i => \E k \in DOMAIN s : /\ t[j] = s[k]
                                                         /\ k = IF j < i THEN j ELSE j - 1
  BY Inserted
<1> HIDE DEF t
<1>2. ASSUME NEW j \in DOMAIN t, NEW k \in DOMAIN t, t[j] = t[k], j # k PROVE FALSE
  <2>1. CASE j = i \/ k = i
    BY <1>1, <1>2, <2>1
  <2>2. CASE j # i /\ k # i
    <3>1. PICK m \in DOMAIN s : t[j] = s[m] /\ m = IF j < i THEN j ELSE j - 1
      BY <1>1, <2>2
    <3>2. PICK n \in DOMAIN s : t[k] = s[n] /\ n = IF k < i THEN k ELSE k - 1
      BY <1>1, <2>2
    <3>3. m = n
      BY <1>2, <3>1, <3>2
    <3>4. j \in Nat /\ k \in Nat
      BY <1>1
    <3> QED BY <1>1, <1>2, <2>2, <3>1, <3>2, <3>3, <3>4
  <2> QED BY <2>1, <2>2
<1> QED BY <1>2 DEF t
LEMMA Single ==
  ASSUME NEW S, NEW e \in S
  PROVE  /\ <<e>> \in Seq(S) /\ Len(<<e>>) = 1 /\ <<e>>[1] = e /\ DOMAIN <<e>> = {1}
         /\ <<e>> # <<>>
OBVIOUS

LEMMA Replaced ==
  ASSUME NEW S, NEW s \in Seq(S), NEW i \in DOMAIN s, NEW e \in S
  PROVE  /\ [s EXCEPT ![i] = e] \in Seq(S) /\ Len([s EXCEPT ![i] = e]) = Len(s)
         /\ DOMAIN [s EXCEPT ![i] = e] = DOMAIN s /\ [s EXCEPT ![i] = e][i] = e
         /\ \A j \in DOMAIN s : j # i => [s EXCEPT ![i] = e][j] = s[j]
OBVIOUS

-----------------------------------------------------------------------------
(* The positions the reducers look up *)

\* The blocks of a turn; a turn that is streaming is open.
Blocks == [kind : {"text", "tool", ""}, id : Nat, pieces : Seq(Nat \X Nat)]
Open(m) == m.type = "turn" /\ m.streaming

\* The kinds of messages and what makes them.
LEMMA MessageKinds ==
  /\ \A m \in Messages :
       /\ m.type = "turn" => /\ m.streaming \in BOOLEAN /\ m.blocks \in Seq(Blocks)
                             /\ m = Turn(m.streaming, m.blocks)
       /\ m.type = "user" => /\ m.text \in Texts /\ m.uuid \in 0..MaxInputs
                             /\ m = UserMessage(m.text, m.uuid)
       /\ m.type \in {"user", "turn", "tool_result", "result"}
       /\ m.type \in {"tool_result", "result"} => m.n \in Nat /\ m = Note(m.type, m.n)
  /\ \A s \in BOOLEAN, bs \in Seq(Blocks) : Turn(s, bs) \in Messages
  /\ \A t \in Texts, u \in 0..MaxInputs : UserMessage(t, u) \in Messages
  /\ \A k \in {"tool_result", "result"}, n \in Nat : Note(k, n) \in Messages
<1>1. ASSUME NEW m \in [type : {"user"}, text : Texts, uuid : 0..MaxInputs]
      PROVE  m.type = "user" /\ m.text \in Texts /\ m.uuid \in 0..MaxInputs
             /\ m = UserMessage(m.text, m.uuid)
  BY DEF UserMessage
<1>2. ASSUME NEW m \in [type : {"turn"}, streaming : BOOLEAN, blocks : Seq(Blocks)]
      PROVE  m.type = "turn" /\ m.streaming \in BOOLEAN /\ m.blocks \in Seq(Blocks)
             /\ m = Turn(m.streaming, m.blocks)
  BY DEF Turn
<1>3. ASSUME NEW m \in [type : {"tool_result", "result"}, n : Nat]
      PROVE  m.type \in {"tool_result", "result"} /\ m.n \in Nat /\ m = Note(m.type, m.n)
  BY DEF Note
<1>4. Messages = [type : {"user"}, text : Texts, uuid : 0..MaxInputs]
                 \cup [type : {"turn"}, streaming : BOOLEAN, blocks : Seq(Blocks)]
                 \cup [type : {"tool_result", "result"}, n : Nat]
  BY DEF Messages, Blocks
<1>5. /\ \A s \in BOOLEAN, bs \in Seq(Blocks) :
            Turn(s, bs) \in [type : {"turn"}, streaming : BOOLEAN, blocks : Seq(Blocks)]
      /\ \A t \in Texts, u \in 0..MaxInputs :
            UserMessage(t, u) \in [type : {"user"}, text : Texts, uuid : 0..MaxInputs]
      /\ \A k \in {"tool_result", "result"}, n \in Nat :
            Note(k, n) \in [type : {"tool_result", "result"}, n : Nat]
  BY DEF Turn, UserMessage, Note
<1> QED BY <1>1, <1>2, <1>3, <1>4, <1>5

LEMMA Refilled ==
  \A s, bs, cs : [Turn(s, bs) EXCEPT !.blocks = cs] = Turn(s, cs)
BY DEF Turn

\* What the searches from the end find.
LEMMA StreamingTurn ==
  ASSUME NEW ms \in Seq(Messages)
  PROVE  /\ findStreamingTurn(ms) \in 0..Len(ms)
         /\ findStreamingTurn(ms) # 0 => Open(ms[findStreamingTurn(ms)])
         /\ \A j \in DOMAIN ms : Open(ms[j]) => findStreamingTurn(ms) # 0 /\ j <= findStreamingTurn(ms)
<1> DEFINE I == {i \in 1..Len(ms) : Open(ms[i])}
           i == findStreamingTurn(ms)
<1>1. i = IF I # {} THEN Max(I) ELSE 0
  BY DEF findStreamingTurn, SelectLastInSeq, Open
<1>2. I \subseteq 1..Len(ms) /\ Len(ms) \in Nat /\ DOMAIN ms = 1..Len(ms)
  OBVIOUS
<1>3. /\ i \in 0..Len(ms) /\ (i # 0 => i \in I) /\ (i = 0 => I = {})
      /\ \A j \in I : j <= i
  <2> HIDE DEF I, i
  <2> QED BY <1>1, <1>2, LastOfSet
<1> QED BY <1>2, <1>3

LEMMA LastOfKind ==
  ASSUME NEW bs \in Seq(Blocks), NEW kind
  PROVE  /\ LastOf(bs, kind) \in 0..Len(bs)
         /\ LastOf(bs, kind) # 0 => bs[LastOf(bs, kind)].kind = kind
         /\ \A j \in DOMAIN bs : bs[j].kind = kind => LastOf(bs, kind) # 0 /\ j <= LastOf(bs, kind)
<1> DEFINE I == {i \in 1..Len(bs) : bs[i].kind = kind}
           i == LastOf(bs, kind)
<1>1. i = IF I # {} THEN Max(I) ELSE 0
  BY DEF LastOf, SelectLastInSeq
<1>2. I \subseteq 1..Len(bs) /\ Len(bs) \in Nat /\ DOMAIN bs = 1..Len(bs)
  OBVIOUS
<1>3. /\ i \in 0..Len(bs) /\ (i # 0 => i \in I) /\ (i = 0 => I = {})
      /\ \A j \in I : j <= i
  <2> HIDE DEF I, i
  <2> QED BY <1>1, <1>2, LastOfSet
<1> QED BY <1>2, <1>3

\* A turn shows a tool; a message is taken for the one that is echoed.
Has(m, b) == m.type = "turn" /\ \E i \in DOMAIN m.blocks : m.blocks[i].id = b

LEMMA LastWithTool ==
  ASSUME NEW ms \in Seq(Messages), NEW b
  PROVE  /\ TurnOfTool(ms, b) \in 0..Len(ms)
         /\ TurnOfTool(ms, b) # 0 => Has(ms[TurnOfTool(ms, b)], b)
         /\ \A j \in DOMAIN ms : Has(ms[j], b) => TurnOfTool(ms, b) # 0 /\ j <= TurnOfTool(ms, b)
<1> DEFINE I == {i \in 1..Len(ms) : Has(ms[i], b)}
           i == TurnOfTool(ms, b)
<1>1. i = IF I # {} THEN Max(I) ELSE 0
  BY DEF TurnOfTool, SelectLastInSeq, Has
<1>2. I \subseteq 1..Len(ms) /\ Len(ms) \in Nat /\ DOMAIN ms = 1..Len(ms)
  OBVIOUS
<1>3. /\ i \in 0..Len(ms) /\ (i # 0 => i \in I) /\ (i = 0 => I = {})
      /\ \A j \in I : j <= i
  <2> HIDE DEF I, i
  <2> QED BY <1>1, <1>2, LastOfSet
<1> QED BY <1>2, <1>3

Matches(m, text, uuid) == m.type = "user" /\ (m.uuid = uuid \/ (m.text = text /\ m.uuid = 0))

LEMMA LastMatch ==
  ASSUME NEW ms \in Seq(Messages), NEW text, NEW uuid
  PROVE  /\ MatchOf(ms, text, uuid) \in 0..Len(ms)
         /\ MatchOf(ms, text, uuid) # 0 => Matches(ms[MatchOf(ms, text, uuid)], text, uuid)
         /\ \A j \in DOMAIN ms : Matches(ms[j], text, uuid) => MatchOf(ms, text, uuid) # 0
<1> DEFINE I == {i \in 1..Len(ms) : Matches(ms[i], text, uuid)}
           i == MatchOf(ms, text, uuid)
<1>1. i = IF I # {} THEN Max(I) ELSE 0
  BY DEF MatchOf, SelectLastInSeq, Matches
<1>2. I \subseteq 1..Len(ms) /\ Len(ms) \in Nat /\ DOMAIN ms = 1..Len(ms)
  OBVIOUS
<1>3. /\ i \in 0..Len(ms) /\ (i # 0 => i \in I) /\ (i = 0 => I = {})
      /\ \A j \in I : j <= i
  <2> HIDE DEF I, i
  <2> QED BY <1>1, <1>2, LastOfSet
<1> QED BY <1>2, <1>3

\* The streaming turn of a sequence.
LEMMA TheStreamingTurn ==
  ASSUME NEW ms \in Seq(Messages), findStreamingTurn(ms) # 0
  PROVE  /\ findStreamingTurn(ms) \in DOMAIN ms /\ StreamingBlocks(ms) \in Seq(Blocks)
         /\ ms[findStreamingTurn(ms)] = Turn(TRUE, StreamingBlocks(ms))
<1> DEFINE i == findStreamingTurn(ms)
<1>1. i \in DOMAIN ms /\ Open(ms[i])
  BY StreamingTurn
<1>2. ms[i] \in Messages
  BY <1>1
<1> QED BY <1>1, <1>2, MessageKinds DEF StreamingBlocks, Open

\* The streaming turn with other blocks.
LEMMA InTurnIs ==
  ASSUME NEW ms \in Seq(Messages), findStreamingTurn(ms) # 0, NEW bs \in Seq(Blocks)
  PROVE  /\ InTurn(ms, bs) \in Seq(Messages) /\ Len(InTurn(ms, bs)) = Len(ms)
         /\ DOMAIN InTurn(ms, bs) = DOMAIN ms
         /\ InTurn(ms, bs)[findStreamingTurn(ms)] = Turn(TRUE, bs)
         /\ \A j \in DOMAIN ms : j # findStreamingTurn(ms) => InTurn(ms, bs)[j] = ms[j]
<1> DEFINE i == findStreamingTurn(ms)
<1>1. i \in DOMAIN ms /\ ms[i] = Turn(TRUE, StreamingBlocks(ms))
  BY TheStreamingTurn
<1>2. InTurn(ms, bs) = [ms EXCEPT ![i] = Turn(TRUE, bs)]
  <2>1. [ms[i] EXCEPT !.blocks = bs] = Turn(TRUE, bs)
    <3>1. [Turn(TRUE, StreamingBlocks(ms)) EXCEPT !.blocks = bs] = Turn(TRUE, bs)
      BY Refilled
    <3> HIDE DEF i
    <3> QED BY <3>1, <1>1
  <2>2. InTurn(ms, bs) = [ms EXCEPT ![i] = [ms[i] EXCEPT !.blocks = bs]]
    BY DEF InTurn
  <2> QED BY <2>1, <2>2
<1>3. Turn(TRUE, bs) \in Messages
  BY MessageKinds
<1>4. /\ [ms EXCEPT ![i] = Turn(TRUE, bs)] \in Seq(Messages)
      /\ Len([ms EXCEPT ![i] = Turn(TRUE, bs)]) = Len(ms)
      /\ DOMAIN [ms EXCEPT ![i] = Turn(TRUE, bs)] = DOMAIN ms
      /\ [ms EXCEPT ![i] = Turn(TRUE, bs)][i] = Turn(TRUE, bs)
      /\ \A j \in DOMAIN ms : j # i => [ms EXCEPT ![i] = Turn(TRUE, bs)][j] = ms[j]
  <2> DEFINE e == Turn(TRUE, bs)
  <2>1. i \in DOMAIN ms /\ e \in Messages
    BY <1>1, <1>3
  <2> HIDE DEF i, e
  <2>2. /\ [ms EXCEPT ![i] = e] \in Seq(Messages) /\ Len([ms EXCEPT ![i] = e]) = Len(ms)
        /\ DOMAIN [ms EXCEPT ![i] = e] = DOMAIN ms /\ [ms EXCEPT ![i] = e][i] = e
        /\ \A j \in DOMAIN ms : j # i => [ms EXCEPT ![i] = e][j] = ms[j]
    BY <2>1
  <2> QED BY <2>2 DEF e
<1> QED BY <1>2, <1>4

\* There is a streaming turn afterwards.
LEMMA EnsureTurnIs ==
  ASSUME NEW ms \in Seq(Messages)
  PROVE  /\ EnsureTurn(ms) \in Seq(Messages) /\ findStreamingTurn(EnsureTurn(ms)) # 0
         /\ findStreamingTurn(ms) # 0 => EnsureTurn(ms) = ms
         /\ findStreamingTurn(ms) = 0 => EnsureTurn(ms) = Append(ms, Turn(TRUE, <<>>))
<1>1. Turn(TRUE, <<>>) \in Messages
  <2>1. <<>> \in Seq(Blocks)
    OBVIOUS
  <2> QED BY <2>1, MessageKinds
<1>2. CASE findStreamingTurn(ms) # 0
  BY <1>2 DEF EnsureTurn
<1>3. CASE findStreamingTurn(ms) = 0
  <2> DEFINE t == Append(ms, Turn(TRUE, <<>>))
  <2>1. t \in Seq(Messages) /\ Len(t) \in DOMAIN t /\ t[Len(t)] = Turn(TRUE, <<>>)
    <3> DEFINE e == Turn(TRUE, <<>>)
    <3>1. e \in Messages
      BY <1>1
    <3> HIDE DEF e
    <3>2. Append(ms, e) \in Seq(Messages) /\ Len(Append(ms, e)) \in DOMAIN Append(ms, e)
          /\ Append(ms, e)[Len(Append(ms, e))] = e
      BY <3>1
    <3> QED BY <3>2 DEF e
  <2>2. Open(t[Len(t)])
    BY <2>1 DEF Open, Turn
  <2>3. EnsureTurn(ms) = t
    BY <1>3 DEF EnsureTurn
  <2> HIDE DEF t
  <2>4. findStreamingTurn(t) # 0
    BY <2>1, <2>2, StreamingTurn
  <2> QED BY <1>3, <2>1, <2>3, <2>4 DEF t
<1> QED BY <1>2, <1>3

-----------------------------------------------------------------------------
(* What the reducers make of a window *)

\* The state of a window.
Views == [msgs : Seq(Messages), tool : 0..MaxBlocks, replay : Rounds, round : Rounds,
          ready : BOOLEAN]

\* A reducer leaves the rest of a window alone.
Reduces(v, x) ==
  /\ v \in Views /\ x \in Views
  /\ x.replay = v.replay /\ x.round = v.round /\ x.ready = v.ready

\* The messages of the user stay as they are, and there are no new ones.
KeepsUsers(ms, ns) ==
  /\ DOMAIN ms \subseteq DOMAIN ns
  /\ \A i \in DOMAIN ns :
       IF i \in DOMAIN ms /\ ms[i].type = "user" THEN ns[i] = ms[i] ELSE ns[i].type # "user"

\* The changes that leave the messages of the user alone.
LEMMA KeptUsers ==
  ASSUME NEW ms, NEW ns, NEW ls, KeepsUsers(ms, ns), KeepsUsers(ns, ls)
  PROVE  KeepsUsers(ms, ls)
BY DEF KeepsUsers

LEMMA AppendKeepsUsers ==
  ASSUME NEW ms \in Seq(Messages), NEW m \in Messages, m.type # "user"
  PROVE  Append(ms, m) \in Seq(Messages) /\ KeepsUsers(ms, Append(ms, m))
BY DEF KeepsUsers

LEMMA ReplaceKeepsUsers ==
  ASSUME NEW ms \in Seq(Messages), NEW i \in DOMAIN ms, ms[i].type # "user",
         NEW m \in Messages, m.type # "user"
  PROVE  [ms EXCEPT ![i] = m] \in Seq(Messages) /\ KeepsUsers(ms, [ms EXCEPT ![i] = m])
BY DEF KeepsUsers

LEMMA EnsureTurnKeepsUsers ==
  ASSUME NEW ms \in Seq(Messages)
  PROVE  KeepsUsers(ms, EnsureTurn(ms))
<1> DEFINE m == Turn(TRUE, <<>>)
<1>1. m \in Messages /\ m.type # "user"
  <2>1. <<>> \in Seq(Blocks)
    OBVIOUS
  <2> QED BY <2>1, MessageKinds DEF Turn
<1>2. CASE findStreamingTurn(ms) # 0
  BY <1>2, EnsureTurnIs DEF KeepsUsers
<1>3. CASE findStreamingTurn(ms) = 0
  <2>1. EnsureTurn(ms) = Append(ms, m)
    BY <1>3, EnsureTurnIs
  <2> HIDE DEF m
  <2> QED BY <1>1, <2>1, AppendKeepsUsers
<1> QED BY <1>2, <1>3

LEMMA InTurnKeepsUsers ==
  ASSUME NEW ms \in Seq(Messages), findStreamingTurn(ms) # 0, NEW bs \in Seq(Blocks)
  PROVE  InTurn(ms, bs) \in Seq(Messages) /\ KeepsUsers(ms, InTurn(ms, bs))
<1> DEFINE i == findStreamingTurn(ms)
           ns == InTurn(ms, bs)
<1>1. /\ ns \in Seq(Messages) /\ DOMAIN ns = DOMAIN ms /\ ns[i] = Turn(TRUE, bs)
      /\ \A j \in DOMAIN ms : j # i => ns[j] = ms[j]
  BY InTurnIs
<1>2. i \in DOMAIN ms /\ ms[i] = Turn(TRUE, StreamingBlocks(ms))
  BY TheStreamingTurn
<1>3. ms[i].type = "turn" /\ ns[i].type = "turn"
  BY <1>1, <1>2 DEF Turn
<1> HIDE DEF i, ns
<1>4. KeepsUsers(ms, ns)
  BY <1>1, <1>2, <1>3 DEF KeepsUsers
<1> QED BY <1>1, <1>4 DEF ns

\* A window with other messages.
LEMMA MessagesReduced ==
  ASSUME NEW v \in Views, NEW ms \in Seq(Messages)
  PROVE  /\ Reduces(v, [v EXCEPT !.msgs = ms]) /\ [v EXCEPT !.msgs = ms].msgs = ms
         /\ [v EXCEPT !.msgs = ms].tool = v.tool
BY DEF Views, Reduces

\* Blocks and their pieces.
LEMMA BlockType ==
  ASSUME NEW kind \in {"text", "tool", ""}, NEW b \in Nat, NEW p \in Seq(Nat \X Nat)
  PROVE  Block(kind, b, p) \in Blocks
BY DEF Block, Blocks

LEMMA WholeType ==
  ASSUME NEW b \in Nat
  PROVE  Whole(b) \in Seq(Nat \X Nat) /\ Len(Whole(b)) = Pieces /\ DOMAIN Whole(b) = 1..Pieces
         /\ \A k \in 1..Pieces : Whole(b)[k] = <<b, k>>
BY ConstantsAssumption DEF Whole, ConstantsAssumption

\* A piece is added to a block.
Extended(x, p) == [x EXCEPT !.pieces = Append(@, p)]

LEMMA ExtendedType ==
  ASSUME NEW x \in Blocks, NEW p \in Nat \X Nat
  PROVE  /\ Extended(x, p) \in Blocks /\ Extended(x, p).kind = x.kind /\ Extended(x, p).id = x.id
         /\ Extended(x, p).pieces = Append(x.pieces, p) /\ x.pieces \in Seq(Nat \X Nat)
<1>1. x.pieces \in Seq(Nat \X Nat) /\ x.kind \in {"text", "tool", ""} /\ x.id \in Nat
  BY DEF Blocks
<1>2. Append(x.pieces, p) \in Seq(Nat \X Nat)
  <2> DEFINE S == Nat \X Nat
             q == x.pieces
  <2>1. q \in Seq(S) /\ p \in S
    BY <1>1
  <2> HIDE DEF S, q
  <2>2. Append(q, p) \in Seq(S)
    BY <2>1
  <2> QED BY <2>2 DEF S, q
<1>3. \A q \in Seq(Nat \X Nat) : /\ [x EXCEPT !.pieces = q] \in Blocks
                                 /\ [x EXCEPT !.pieces = q].kind = x.kind
                                 /\ [x EXCEPT !.pieces = q].id = x.id
                                 /\ [x EXCEPT !.pieces = q].pieces = q
  BY DEF Blocks
<1>4. Extended(x, p) = [x EXCEPT !.pieces = Append(x.pieces, p)]
  BY DEF Extended
<1> QED BY <1>1, <1>2, <1>3, <1>4

-----------------------------------------------------------------------------
(* The stream events *)

StreamEvents == [type : {"start", "block", "chunk", "stop", "end"}, b : 0..MaxBlocks,
                 kind : {"text", "tool", ""}, k : 0..Pieces]

LEMMA StreamEventIs ==
  ASSUME NEW e \in StreamEvents
  PROVE  /\ e.b \in 0..MaxBlocks /\ e.b \in Nat /\ e.k \in Nat /\ e.kind \in {"text", "tool", ""}
         /\ <<e.b, e.k>> \in Nat \X Nat /\ e.type \in {"start", "block", "chunk", "stop", "end"}
<1>1. MaxBlocks \in Nat /\ Pieces \in Nat
  BY ConstantsAssumption DEF ConstantsAssumption
<1>2. /\ e.b \in 0..MaxBlocks /\ e.k \in 0..Pieces /\ e.kind \in {"text", "tool", ""}
      /\ e.type \in {"start", "block", "chunk", "stop", "end"}
  BY DEF StreamEvents
<1>3. \A x \in 0..MaxBlocks : x \in Nat
  BY <1>1
<1>4. \A x \in 0..Pieces : x \in Nat
  BY <1>1
<1> QED BY <1>2, <1>3, <1>4

LEMMA Closed ==
  \A s, bs, r : [Turn(s, bs) EXCEPT !.streaming = r] = Turn(r, bs)
BY DEF Turn

\* What each reducer returns.
LEMMA StartIs ==
  ASSUME NEW v \in Views
  PROVE  LET x == onMessageStart(v)
         IN /\ Reduces(v, x) /\ KeepsUsers(v.msgs, x.msgs)
            /\ x.msgs = Append(v.msgs, Turn(TRUE, <<>>)) /\ x.tool = v.tool
<1> DEFINE m == Turn(TRUE, <<>>)
<1>1. m \in Messages /\ m.type # "user"
  <2>1. <<>> \in Seq(Blocks)
    OBVIOUS
  <2> QED BY <2>1, MessageKinds DEF Turn
<1>2. v.msgs \in Seq(Messages)
  BY DEF Views
<1>3. Append(v.msgs, m) \in Seq(Messages) /\ KeepsUsers(v.msgs, Append(v.msgs, m))
  <2> HIDE DEF m
  <2> QED BY <1>1, <1>2, AppendKeepsUsers
<1>4. onMessageStart(v) = [v EXCEPT !.msgs = Append(v.msgs, m)]
  BY DEF onMessageStart
<1> HIDE DEF m
<1>5. v.tool \in 0..MaxBlocks
  BY DEF Views
<1>6. /\ Reduces(v, [v EXCEPT !.msgs = Append(v.msgs, m)])
      /\ [v EXCEPT !.msgs = Append(v.msgs, m)].msgs = Append(v.msgs, m)
      /\ [v EXCEPT !.msgs = Append(v.msgs, m)].tool = v.tool
  BY <1>3, <1>5, MessagesReduced
<1> QED BY <1>3, <1>4, <1>6 DEF m

LEMMA EndIs ==
  ASSUME NEW v \in Views
  PROVE  LET x == onStreamEnd(v)
             i == findStreamingTurn(v.msgs)
         IN /\ Reduces(v, x) /\ KeepsUsers(v.msgs, x.msgs) /\ x.tool = v.tool
            /\ i = 0 => x = v
            /\ i # 0 => x.msgs = [v.msgs EXCEPT ![i] = Turn(FALSE, StreamingBlocks(v.msgs))]
<1> DEFINE i == findStreamingTurn(v.msgs)
           m == Turn(FALSE, StreamingBlocks(v.msgs))
<1>1. v.msgs \in Seq(Messages) /\ v.tool \in 0..MaxBlocks
  BY DEF Views
<1>2. CASE i = 0
  <2>1. onStreamEnd(v) = v
    BY <1>2 DEF onStreamEnd
  <2>2. Reduces(v, v) /\ KeepsUsers(v.msgs, v.msgs)
    BY <1>1 DEF Reduces, KeepsUsers
  <2> QED BY <1>2, <2>1, <2>2
<1>3. CASE i # 0
  <2>1. /\ i \in DOMAIN v.msgs /\ v.msgs[i] = Turn(TRUE, StreamingBlocks(v.msgs))
        /\ StreamingBlocks(v.msgs) \in Seq(Blocks)
    BY <1>1, <1>3, TheStreamingTurn
  <2>2. m \in Messages /\ m.type = "turn" /\ v.msgs[i].type # "user"
    BY <2>1, MessageKinds DEF Turn
  <2>3. [Turn(TRUE, StreamingBlocks(v.msgs)) EXCEPT !.streaming = FALSE] = m
    BY Closed
  <2>4. onStreamEnd(v) = [v EXCEPT !.msgs = [v.msgs EXCEPT ![i] = m]]
    <3>1. onStreamEnd(v) = [v EXCEPT !.msgs[i].streaming = FALSE]
      BY <1>3 DEF onStreamEnd
    <3> HIDE DEF i, m
    <3>2. onStreamEnd(v) = [v EXCEPT !.msgs = [v.msgs EXCEPT ![i] = [v.msgs[i] EXCEPT !.streaming = FALSE]]]
      BY <3>1
    <3>3. [v.msgs[i] EXCEPT !.streaming = FALSE] = m
      BY <2>1, <2>3
    <3> QED BY <3>2, <3>3
  <2> DEFINE ms == [v.msgs EXCEPT ![i] = m]
  <2>5. ms \in Seq(Messages) /\ KeepsUsers(v.msgs, ms)
    <3> HIDE DEF i, m
    <3> QED BY <1>1, <2>1, <2>2, ReplaceKeepsUsers
  <2>6. onStreamEnd(v) = [v EXCEPT !.msgs = ms]
    BY <2>4
  <2>7. i # 0 => onStreamEnd(v).msgs = ms
    <3> HIDE DEF ms
    <3> QED BY <1>1, <2>5, <2>6, MessagesReduced
  <2>8. Reduces(v, onStreamEnd(v)) /\ onStreamEnd(v).tool = v.tool
    <3> HIDE DEF ms
    <3> QED BY <1>1, <2>5, <2>6, MessagesReduced
  <2> QED BY <1>3, <2>5, <2>7, <2>8
<1> QED BY <1>2, <1>3

LEMMA BlockStartIs ==
  ASSUME NEW v \in Views, NEW e \in StreamEvents
  PROVE  LET x == onBlockStart(v, e)
             ms == EnsureTurn(v.msgs)
         IN /\ Reduces(v, x) /\ KeepsUsers(v.msgs, x.msgs)
            /\ x.msgs = InTurn(ms, Append(StreamingBlocks(ms), Block(e.kind, e.b, <<>>)))
            /\ x.tool = IF e.kind = "tool" THEN e.b ELSE v.tool
<1> DEFINE ms == EnsureTurn(v.msgs)
           c == Block(e.kind, e.b, <<>>)
           bs == StreamingBlocks(ms)
           tool == IF e.kind = "tool" THEN e.b ELSE v.tool
<1>1. v.msgs \in Seq(Messages) /\ v.tool \in 0..MaxBlocks
  BY DEF Views
<1>2. ms \in Seq(Messages) /\ findStreamingTurn(ms) # 0 /\ KeepsUsers(v.msgs, ms)
  BY <1>1, EnsureTurnIs, EnsureTurnKeepsUsers
<1>3. bs \in Seq(Blocks)
  <2> HIDE DEF ms
  <2> QED BY <1>2, TheStreamingTurn
<1>4. c \in Blocks
  <2>1. <<>> \in Seq(Nat \X Nat)
    OBVIOUS
  <2> QED BY <2>1, StreamEventIs, BlockType
<1>5. Append(bs, c) \in Seq(Blocks)
  <2> HIDE DEF bs, c
  <2> QED BY <1>3, <1>4
<1>6. tool \in 0..MaxBlocks
  BY <1>1, StreamEventIs
<1> DEFINE cs == Append(bs, c)
<1>7. InTurn(ms, cs) \in Seq(Messages) /\ KeepsUsers(ms, InTurn(ms, cs))
  <2> HIDE DEF ms, cs
  <2> QED BY <1>2, <1>5, InTurnKeepsUsers DEF cs
<1>8. onBlockStart(v, e) = [v EXCEPT !.msgs = InTurn(ms, cs), !.tool = tool]
  BY DEF onBlockStart
<1>9. KeepsUsers(v.msgs, InTurn(ms, cs))
  <2> HIDE DEF ms, cs
  <2> QED BY <1>2, <1>7, KeptUsers
<1> HIDE DEF tool
<1>10. /\ Reduces(v, onBlockStart(v, e)) /\ onBlockStart(v, e).tool = tool
       /\ onBlockStart(v, e).msgs = InTurn(ms, cs)
  <2> DEFINE ns == InTurn(ms, cs)
  <2>1. ns \in Seq(Messages) /\ onBlockStart(v, e) = [v EXCEPT !.msgs = ns, !.tool = tool]
    BY <1>7, <1>8
  <2> HIDE DEF ns
  <2>2. /\ Reduces(v, onBlockStart(v, e)) /\ onBlockStart(v, e).tool = tool
        /\ onBlockStart(v, e).msgs = ns
    <3>1. /\ Reduces(v, [v EXCEPT !.msgs = ns, !.tool = tool])
          /\ [v EXCEPT !.msgs = ns, !.tool = tool].msgs = ns
          /\ [v EXCEPT !.msgs = ns, !.tool = tool].tool = tool
      BY <2>1, <1>6 DEF Views, Reduces
    <3> QED BY <2>1, <3>1
  <2> QED BY <2>2 DEF ns
<1> QED BY <1>9, <1>10 DEF tool

LEMMA BlockStopIs ==
  ASSUME NEW v \in Views
  PROVE  LET x == onBlockStop(v)
         IN Reduces(v, x) /\ KeepsUsers(v.msgs, x.msgs) /\ x.msgs = v.msgs /\ x.tool = 0
<1>1. v.msgs \in Seq(Messages) /\ 0 \in 0..MaxBlocks
  BY ConstantsAssumption DEF Views, ConstantsAssumption
<1>2. Reduces(v, onBlockStop(v)) /\ onBlockStop(v).msgs = v.msgs /\ onBlockStop(v).tool = 0
  BY <1>1 DEF Views, Reduces, onBlockStop
<1>3. KeepsUsers(v.msgs, v.msgs)
  BY <1>1 DEF KeepsUsers
<1> QED BY <1>2, <1>3

\* What a chunk of text is added to.
TextAdded(bs, e) ==
  IF LastOf(bs, "text") = 0 THEN Append(bs, Block("text", e.b, <<<<e.b, e.k>>>>))
  ELSE [bs EXCEPT ![LastOf(bs, "text")] = Extended(@, <<e.b, e.k>>)]

LEMMA TextAddedType ==
  ASSUME NEW bs \in Seq(Blocks), NEW e \in StreamEvents
  PROVE  TextAdded(bs, e) \in Seq(Blocks)
<1> DEFINE p == <<e.b, e.k>>
           i == LastOf(bs, "text")
<1>1. p \in Nat \X Nat /\ e.b \in Nat
  BY StreamEventIs
<1>2. CASE i = 0
  <2> DEFINE c == Block("text", e.b, <<p>>)
  <2>1. <<p>> \in Seq(Nat \X Nat)
    <3> HIDE DEF p
    <3> QED BY <1>1
  <2>2. c \in Blocks
    BY <1>1, <2>1, BlockType
  <2>3. TextAdded(bs, e) = Append(bs, c)
    BY <1>2 DEF TextAdded
  <2> HIDE DEF c
  <2> QED BY <2>2, <2>3
<1>3. CASE i # 0
  <2> DEFINE c == Extended(bs[i], p)
  <2>1. i \in DOMAIN bs
    BY <1>3, LastOfKind
  <2> HIDE DEF i
  <2>2. bs[i] \in Blocks
    BY <2>1
  <2>3. c \in Blocks
    BY <1>1, <2>2, ExtendedType
  <2>4. TextAdded(bs, e) = [bs EXCEPT ![i] = c]
    BY <1>3, <2>1 DEF TextAdded, i
  <2> HIDE DEF c
  <2> QED BY <2>1, <2>3, <2>4
<1> QED BY <1>2, <1>3

LEMMA TextIs ==
  ASSUME NEW v \in Views, NEW e \in StreamEvents
  PROVE  LET x == onTextChunk(v, e)
             ms == EnsureTurn(v.msgs)
         IN /\ Reduces(v, x) /\ KeepsUsers(v.msgs, x.msgs) /\ x.tool = v.tool
            /\ x.msgs = InTurn(ms, TextAdded(StreamingBlocks(ms), e))
<1> DEFINE ms == EnsureTurn(v.msgs)
           bs == StreamingBlocks(ms)
           cs == TextAdded(bs, e)
           ns == InTurn(ms, cs)
<1>1. v.msgs \in Seq(Messages)
  BY DEF Views
<1>2. ms \in Seq(Messages) /\ findStreamingTurn(ms) # 0 /\ KeepsUsers(v.msgs, ms)
  BY <1>1, EnsureTurnIs, EnsureTurnKeepsUsers
<1>3. bs \in Seq(Blocks)
  <2> HIDE DEF ms
  <2> QED BY <1>2, TheStreamingTurn
<1>4. cs \in Seq(Blocks)
  <2> HIDE DEF bs
  <2> QED BY <1>3, TextAddedType
<1>5. ns \in Seq(Messages) /\ KeepsUsers(v.msgs, ns)
  <2> HIDE DEF ms, cs
  <2> QED BY <1>2, <1>4, InTurnKeepsUsers, KeptUsers
<1>6. onTextChunk(v, e) = [v EXCEPT !.msgs = ns]
  BY DEF onTextChunk, TextAdded, Extended
<1>7. /\ Reduces(v, onTextChunk(v, e)) /\ onTextChunk(v, e).msgs = ns
      /\ onTextChunk(v, e).tool = v.tool
  <2> HIDE DEF ns
  <2> QED BY <1>5, <1>6, MessagesReduced
<1> QED BY <1>5, <1>7

\* What a chunk of input is added to.
InputAdded(bs, tool, p) ==
  [i \in DOMAIN bs |-> IF bs[i].id = tool THEN Extended(bs[i], p) ELSE bs[i]]

LEMMA InputAddedType ==
  ASSUME NEW bs \in Seq(Blocks), NEW tool, NEW p \in Nat \X Nat
  PROVE  /\ InputAdded(bs, tool, p) \in Seq(Blocks) /\ Len(InputAdded(bs, tool, p)) = Len(bs)
         /\ DOMAIN InputAdded(bs, tool, p) = DOMAIN bs
<1> DEFINE f(i) == IF bs[i].id = tool THEN Extended(bs[i], p) ELSE bs[i]
<1>1. \A i \in DOMAIN bs : bs[i] \in Blocks
  OBVIOUS
<1>2. \A i \in DOMAIN bs : f(i) \in Blocks
  BY <1>1, ExtendedType
<1>3. InputAdded(bs, tool, p) = [i \in 1..Len(bs) |-> f(i)] /\ Len(bs) \in Nat /\ DOMAIN bs = 1..Len(bs)
  BY DEF InputAdded
<1> HIDE DEF f
<1> QED BY <1>2, <1>3

LEMMA InputIs ==
  ASSUME NEW v \in Views, NEW e \in StreamEvents
  PROVE  LET x == onInputJsonChunk(v, e)
         IN /\ Reduces(v, x) /\ KeepsUsers(v.msgs, x.msgs) /\ x.tool = v.tool
            /\ IF v.tool = 0 \/ findStreamingTurn(v.msgs) = 0 THEN x = v
               ELSE x.msgs = InTurn(v.msgs,
                               InputAdded(StreamingBlocks(v.msgs), v.tool, <<e.b, e.k>>))
<1> DEFINE bs == StreamingBlocks(v.msgs)
           cs == InputAdded(bs, v.tool, <<e.b, e.k>>)
           ns == InTurn(v.msgs, cs)
<1>1. v.msgs \in Seq(Messages)
  BY DEF Views
<1>2. CASE v.tool = 0 \/ findStreamingTurn(v.msgs) = 0
  <2>1. onInputJsonChunk(v, e) = v
    BY <1>2 DEF onInputJsonChunk
  <2>2. Reduces(v, v) /\ KeepsUsers(v.msgs, v.msgs)
    BY <1>1 DEF Reduces, KeepsUsers
  <2> QED BY <1>2, <2>1, <2>2
<1>3. CASE ~(v.tool = 0 \/ findStreamingTurn(v.msgs) = 0)
  <2>1. bs \in Seq(Blocks)
    BY <1>1, <1>3, TheStreamingTurn
  <2>2. cs \in Seq(Blocks)
    <3> HIDE DEF bs
    <3> QED BY <2>1, StreamEventIs, InputAddedType
  <2>3. ns \in Seq(Messages) /\ KeepsUsers(v.msgs, ns)
    <3> HIDE DEF cs
    <3> QED BY <1>1, <1>3, <2>2, InTurnKeepsUsers
  <2>4. onInputJsonChunk(v, e) = [v EXCEPT !.msgs = ns]
    BY <1>3 DEF onInputJsonChunk, InputAdded, Extended
  <2>5. /\ Reduces(v, onInputJsonChunk(v, e)) /\ onInputJsonChunk(v, e).msgs = ns
        /\ onInputJsonChunk(v, e).tool = v.tool
    <3> HIDE DEF ns
    <3> QED BY <2>3, <2>4, MessagesReduced
  <2> QED BY <1>3, <2>3, <2>5
<1> QED BY <1>2, <1>3

LEMMA StreamedReduces ==
  ASSUME NEW v \in Views, NEW e \in StreamEvents
  PROVE  Reduces(v, Streamed(v, e)) /\ KeepsUsers(v.msgs, Streamed(v, e).msgs)
<1>1. CASE e.type = "start"
  BY <1>1, StartIs DEF Streamed
<1>2. CASE e.type = "block"
  BY <1>2, BlockStartIs DEF Streamed
<1>3. CASE e.type = "chunk" /\ e.kind = "text"
  BY <1>3, TextIs DEF Streamed
<1>4. CASE e.type = "chunk" /\ e.kind # "text"
  BY <1>4, InputIs DEF Streamed
<1>5. CASE e.type = "stop"
  BY <1>5, BlockStopIs DEF Streamed
<1>6. CASE e.type = "end"
  BY <1>6, EndIs DEF Streamed
<1> QED BY <1>1, <1>2, <1>3, <1>4, <1>5, <1>6, StreamEventIs

-----------------------------------------------------------------------------
(* The lines *)

\* The blocks of a turn with the input of a tool as it was said.
WholeIn(bs, b) ==
  [i \in DOMAIN bs |-> IF bs[i].id = b THEN [bs[i] EXCEPT !.pieces = Whole(b)] ELSE bs[i]]

LEMMA FilledType ==
  ASSUME NEW x \in Blocks, NEW p \in Seq(Nat \X Nat)
  PROVE  /\ [x EXCEPT !.pieces = p] \in Blocks /\ [x EXCEPT !.pieces = p].kind = x.kind
         /\ [x EXCEPT !.pieces = p].id = x.id /\ [x EXCEPT !.pieces = p].pieces = p
BY DEF Blocks

LEMMA WholeInType ==
  ASSUME NEW bs \in Seq(Blocks), NEW b \in Nat
  PROVE  /\ WholeIn(bs, b) \in Seq(Blocks) /\ Len(WholeIn(bs, b)) = Len(bs)
         /\ DOMAIN WholeIn(bs, b) = DOMAIN bs
<1> DEFINE f(i) == IF bs[i].id = b THEN [bs[i] EXCEPT !.pieces = Whole(b)] ELSE bs[i]
<1>1. \A i \in DOMAIN bs : bs[i] \in Blocks
  OBVIOUS
<1>2. \A i \in DOMAIN bs : f(i) \in Blocks
  <2> DEFINE p == Whole(b)
  <2>1. p \in Seq(Nat \X Nat)
    BY WholeType
  <2> HIDE DEF p
  <2>2. ASSUME NEW i \in DOMAIN bs PROVE [bs[i] EXCEPT !.pieces = p] \in Blocks
    BY <1>1, <2>1, FilledType
  <2>3. \A i \in DOMAIN bs : (IF bs[i].id = b THEN [bs[i] EXCEPT !.pieces = p] ELSE bs[i]) \in Blocks
    BY <1>1, <2>2
  <2> QED BY <2>3 DEF p
<1>3. WholeIn(bs, b) = [i \in 1..Len(bs) |-> f(i)] /\ Len(bs) \in Nat /\ DOMAIN bs = 1..Len(bs)
  BY DEF WholeIn
<1> HIDE DEF f
<1> QED BY <1>2, <1>3

\* The turn that shows the tool is given its input whole.
LEMMA PatchedIs ==
  ASSUME NEW ms \in Seq(Messages), NEW b \in Nat, TurnOfTool(ms, b) # 0
  PROVE  LET k == TurnOfTool(ms, b)
         IN /\ k \in DOMAIN ms /\ ms[k].blocks \in Seq(Blocks) /\ ms[k].streaming \in BOOLEAN
            /\ ms[k] = Turn(ms[k].streaming, ms[k].blocks)
            /\ Patched(ms, b) = [ms EXCEPT ![k] = Turn(ms[k].streaming, WholeIn(ms[k].blocks, b))]
            /\ Patched(ms, b) \in Seq(Messages) /\ KeepsUsers(ms, Patched(ms, b))
<1> DEFINE k == TurnOfTool(ms, b)
<1>1. k \in DOMAIN ms /\ ms[k].type = "turn"
  BY LastWithTool DEF Has
<1> DEFINE bs == ms[k].blocks
           s == ms[k].streaming
           m == Turn(s, WholeIn(bs, b))
<1>2. ms[k] \in Messages
  <2> HIDE DEF k
  <2> QED BY <1>1
<1>3. bs \in Seq(Blocks) /\ s \in BOOLEAN /\ ms[k] = Turn(s, bs)
  BY <1>1, <1>2, MessageKinds
<1>4. WholeIn(bs, b) \in Seq(Blocks)
  <2> HIDE DEF bs
  <2> QED BY <1>3, WholeInType
<1>5. m \in Messages /\ m.type = "turn"
  <2> DEFINE cs == WholeIn(bs, b)
  <2> HIDE DEF bs, cs, s
  <2> SUFFICES Turn(s, cs) \in Messages /\ Turn(s, cs).type = "turn"
    BY DEF cs
  <2>1. cs \in Seq(Blocks)
    BY <1>4 DEF cs
  <2> QED BY <1>3, <2>1, MessageKinds DEF Turn
<1>6. Patched(ms, b) = [ms EXCEPT ![k] = m]
  <2> DEFINE cs == WholeIn(bs, b)
  <2>1. Patched(ms, b) = [ms EXCEPT ![k] = [ms[k] EXCEPT !.blocks = cs]]
    BY <1>1 DEF Patched, WholeIn
  <2>2. [Turn(s, bs) EXCEPT !.blocks = cs] = Turn(s, cs)
    BY Refilled
  <2>3. [ms[k] EXCEPT !.blocks = cs] = Turn(s, cs)
    <3> HIDE DEF bs, s, cs, k
    <3> QED BY <1>3, <2>2
  <2> QED BY <2>1, <2>3
<1>7. [ms EXCEPT ![k] = m] \in Seq(Messages) /\ KeepsUsers(ms, [ms EXCEPT ![k] = m])
  <2>1. ms[k].type # "user" /\ m.type # "user"
    BY <1>1, <1>5
  <2> HIDE DEF k, m
  <2> QED BY <1>1, <1>5, <2>1, ReplaceKeepsUsers
<1> QED BY <1>1, <1>3, <1>6, <1>7

SaidAdded(bs, b, kind) ==
  IF kind = "text" /\ LastOf(bs, "text") # 0 THEN bs ELSE Append(bs, Block(kind, b, Whole(b)))

LEMMA SaidAddedType ==
  ASSUME NEW bs \in Seq(Blocks), NEW b \in Nat, NEW kind \in {"text", "tool", ""}
  PROVE  Block(kind, b, Whole(b)) \in Blocks /\ SaidAdded(bs, b, kind) \in Seq(Blocks)
<1> DEFINE c == Block(kind, b, Whole(b))
<1>1. c \in Blocks
  BY WholeType, BlockType
<1>2. Append(bs, c) \in Seq(Blocks)
  <2> HIDE DEF c
  <2> QED BY <1>1, Appended
<1> QED BY <1>1, <1>2 DEF SaidAdded

\* A block said whole is patched in, is there already, or is added.
LEMMA SaidIs ==
  ASSUME NEW v \in Views, NEW b \in Nat, NEW kind \in {"text", "tool", ""}
  PROVE  LET x == onMessageAssistant(v, b, kind)
             ms == v.msgs
         IN /\ Reduces(v, x) /\ KeepsUsers(v.msgs, x.msgs) /\ x.tool = v.tool
            /\ x.msgs = IF kind = "tool" /\ TurnOfTool(ms, b) # 0 THEN Patched(ms, b)
                        ELSE IF findStreamingTurn(ms) # 0
                        THEN InTurn(ms, SaidAdded(StreamingBlocks(ms), b, kind))
                        ELSE Append(ms, Turn(FALSE, <<Block(kind, b, Whole(b))>>))
<1> DEFINE ms == v.msgs
           ns == IF kind = "tool" /\ TurnOfTool(ms, b) # 0 THEN Patched(ms, b)
                 ELSE IF findStreamingTurn(ms) # 0
                 THEN InTurn(ms, SaidAdded(StreamingBlocks(ms), b, kind))
                 ELSE Append(ms, Turn(FALSE, <<Block(kind, b, Whole(b))>>))
<1>1. ms \in Seq(Messages)
  BY DEF Views
<1>2. onMessageAssistant(v, b, kind) = [v EXCEPT !.msgs = ns]
  BY DEF onMessageAssistant, livePath, replayPath, SaidAdded
<1>3. ns \in Seq(Messages) /\ KeepsUsers(ms, ns)
  <2>1. CASE kind = "tool" /\ TurnOfTool(ms, b) # 0
    BY <1>1, <2>1, PatchedIs
  <2>2. CASE ~(kind = "tool" /\ TurnOfTool(ms, b) # 0) /\ findStreamingTurn(ms) # 0
    <3> DEFINE bs == StreamingBlocks(ms)
               cs == SaidAdded(bs, b, kind)
    <3>1. bs \in Seq(Blocks)
      BY <1>1, <2>2, TheStreamingTurn
    <3>2. cs \in Seq(Blocks)
      <4> HIDE DEF bs
      <4> QED BY <3>1, SaidAddedType
    <3>3. InTurn(ms, cs) \in Seq(Messages) /\ KeepsUsers(ms, InTurn(ms, cs))
      <4> HIDE DEF cs
      <4> QED BY <1>1, <2>2, <3>2, InTurnKeepsUsers
    <3> QED BY <2>2, <3>3
  <2>3. CASE ~(kind = "tool" /\ TurnOfTool(ms, b) # 0) /\ findStreamingTurn(ms) = 0
    <3> DEFINE c == Block(kind, b, Whole(b))
               m == Turn(FALSE, <<c>>)
    <3>1. c \in Blocks
      BY WholeType, BlockType
    <3>2. m \in Messages /\ m.type # "user"
      <4> HIDE DEF c
      <4>1. <<c>> \in Seq(Blocks)
        BY <3>1, Single
      <4> QED BY <4>1, MessageKinds DEF Turn
    <3>3. Append(ms, m) \in Seq(Messages) /\ KeepsUsers(ms, Append(ms, m))
      <4> HIDE DEF m
      <4> QED BY <1>1, <3>2, AppendKeepsUsers
    <3> QED BY <2>3, <3>3
  <2> HIDE DEF ns
  <2> QED BY <2>1, <2>2, <2>3
<1>4. /\ Reduces(v, onMessageAssistant(v, b, kind)) /\ onMessageAssistant(v, b, kind).msgs = ns
      /\ onMessageAssistant(v, b, kind).tool = v.tool
  <2>1. /\ Reduces(v, [v EXCEPT !.msgs = ns]) /\ [v EXCEPT !.msgs = ns].msgs = ns
        /\ [v EXCEPT !.msgs = ns].tool = v.tool
    <3>1. ns \in Seq(Messages)
      BY <1>3
    <3> HIDE DEF ns
    <3> QED BY <3>1 DEF Views, Reduces
  <2> HIDE DEF ns
  <2> QED BY <1>2, <2>1
<1> QED BY <1>3, <1>4

\* A message of the user is added, or the one it echoes is marked.
LEMMA UserIs ==
  ASSUME NEW v \in Views, NEW text \in Texts, NEW uuid \in 0..MaxInputs
  PROVE  LET x == onMessageUser(v, text, uuid)
             ms == v.msgs
             i == MatchOf(ms, text, uuid)
         IN /\ Reduces(v, x) /\ x.tool = v.tool
            /\ IF uuid = 0 \/ i = 0 THEN x.msgs = Append(ms, UserMessage(text, uuid))
               ELSE /\ i \in DOMAIN ms /\ ms[i].type = "user" /\ ms[i].text \in Texts
                    /\ x.msgs = [ms EXCEPT ![i] = UserMessage(ms[i].text, uuid)]
<1> DEFINE ms == v.msgs
           i == MatchOf(ms, text, uuid)
<1>1. ms \in Seq(Messages)
  BY DEF Views
<1>2. CASE uuid = 0 \/ i = 0
  <2> DEFINE m == UserMessage(text, uuid)
             ns == Append(ms, m)
  <2>1. m \in Messages
    BY MessageKinds
  <2>2. ns \in Seq(Messages)
    <3> HIDE DEF m
    <3> QED BY <1>1, <2>1
  <2>3. onMessageUser(v, text, uuid) = [v EXCEPT !.msgs = ns]
    BY <1>2 DEF onMessageUser
  <2> HIDE DEF ns
  <2>4. /\ Reduces(v, onMessageUser(v, text, uuid)) /\ onMessageUser(v, text, uuid).msgs = ns
        /\ onMessageUser(v, text, uuid).tool = v.tool
    BY <2>2, <2>3, MessagesReduced
  <2> QED BY <1>2, <2>4 DEF ns
<1>3. CASE ~(uuid = 0 \/ i = 0)
  <2> DEFINE m == UserMessage(ms[i].text, uuid)
             ns == [ms EXCEPT ![i] = m]
  <2>1. i \in DOMAIN ms /\ ms[i].type = "user"
    BY <1>1, <1>3, LastMatch DEF Matches
  <2>2. ms[i] \in Messages
    <3> HIDE DEF i, ms
    <3> QED BY <1>1, <2>1
  <2>3. ms[i].text \in Texts /\ ms[i] = UserMessage(ms[i].text, ms[i].uuid)
    BY <2>1, <2>2, MessageKinds
  <2>4. m \in Messages
    BY <2>3, MessageKinds
  <2>5. [ms[i] EXCEPT !.uuid = uuid] = m
    <3>1. \A t, u, x : [UserMessage(t, u) EXCEPT !.uuid = x] = UserMessage(t, x)
      BY DEF UserMessage
    <3>2. [UserMessage(ms[i].text, ms[i].uuid) EXCEPT !.uuid = uuid] = m
      BY <3>1
    <3> HIDE DEF m, i, ms
    <3> QED BY <2>3, <3>2
  <2>6. onMessageUser(v, text, uuid) = [v EXCEPT !.msgs = ns]
    <3>1. onMessageUser(v, text, uuid) = [v EXCEPT !.msgs = [ms EXCEPT ![i] = [ms[i] EXCEPT !.uuid = uuid]]]
      BY <1>3 DEF onMessageUser
    <3> QED BY <3>1, <2>5
  <2>7. ns \in Seq(Messages)
    <3> HIDE DEF m, i, ms
    <3> QED BY <1>1, <2>1, <2>4
  <2>8. /\ Reduces(v, onMessageUser(v, text, uuid)) /\ onMessageUser(v, text, uuid).msgs = ns
        /\ onMessageUser(v, text, uuid).tool = v.tool
    <3> HIDE DEF ns
    <3> QED BY <2>6, <2>7, MessagesReduced
  <2> QED BY <1>3, <2>1, <2>3, <2>8
<1> QED BY <1>2, <1>3

\* What a line refers to is there.
LineKnown(line) == line.type \in {"in", "echo"} => line.n \in DOMAIN prompts

\* The prompts typed so far are few enough to be numbered.
PromptsType == prompts \in Seq([text : Texts, by : Windows]) /\ Len(prompts) <= MaxInputs

LEMMA PromptIs ==
  ASSUME PromptsType, NEW p \in DOMAIN prompts
  PROVE  /\ prompts[p].text \in Texts /\ prompts[p].by \in Windows
         /\ p \in Nat /\ p # 0 /\ p \in 0..MaxInputs /\ p \in PromptIds
<1>1. prompts[p] \in [text : Texts, by : Windows]
  <2> DEFINE R == [text : Texts, by : Windows]
  <2>1. prompts \in Seq(R)
    BY DEF PromptsType
  <2> HIDE DEF R
  <2>2. prompts[p] \in R
    BY <2>1
  <2> QED BY <2>2 DEF R
<1>2. Len(prompts) \in Nat /\ Len(prompts) <= MaxInputs /\ DOMAIN prompts = 1..Len(prompts)
  BY DEF PromptsType
<1>3. MaxInputs \in Nat
  BY ConstantsAssumption DEF ConstantsAssumption
<1>4. p \in Nat /\ p # 0 /\ p \in 0..MaxInputs /\ p \in PromptIds
  BY <1>2, <1>3 DEF PromptIds
<1> QED BY <1>1, <1>4

LEMMA LineIs ==
  ASSUME NEW line \in Lines
  PROVE  /\ line.type \in {"in", "echo", "said", "tool_result", "result"} /\ line.n \in Nat
         /\ line.kind \in {"text", "tool", ""}
BY DEF Lines

\* A line keeps the rest of the window, and the messages of the user unless it is one.
LEMMA ReducedReduces ==
  ASSUME PromptsType, NEW v \in Views, NEW line \in Lines, LineKnown(line)
  PROVE  /\ Reduces(v, Reduced(v, line)) /\ Reduced(v, line).tool = v.tool
         /\ line.type \notin {"in", "echo"} => KeepsUsers(v.msgs, Reduced(v, line).msgs)
<1>0. line.n \in Nat /\ line.kind \in {"text", "tool", ""}
  BY LineIs
<1>1. CASE line.type = "in"
  <2>1. Reduced(v, line) = onMessageUser(v, prompts[line.n].text, 0)
    BY <1>1 DEF Reduced
  <2>2. line.n \in DOMAIN prompts /\ 0 \in 0..MaxInputs
    BY <1>1, ConstantsAssumption DEF LineKnown, ConstantsAssumption
  <2>3. prompts[line.n].text \in Texts
    BY <2>2, PromptIs
  <2>4. \A x \in Texts : Reduces(v, onMessageUser(v, x, 0)) /\ onMessageUser(v, x, 0).tool = v.tool
    BY <2>2, UserIs
  <2>5. /\ Reduces(v, onMessageUser(v, prompts[line.n].text, 0))
        /\ onMessageUser(v, prompts[line.n].text, 0).tool = v.tool
    BY <2>3, <2>4
  <2> QED BY <1>1, <2>1, <2>5
<1>2. CASE line.type = "echo"
  <2>1. Reduced(v, line) = onMessageUser(v, prompts[line.n].text, line.n)
    BY <1>2 DEF Reduced
  <2>2. line.n \in DOMAIN prompts
    BY <1>2 DEF LineKnown
  <2>3. prompts[line.n].text \in Texts /\ line.n \in 0..MaxInputs
    BY <2>2, PromptIs
  <2>4. \A x \in Texts, y \in 0..MaxInputs :
          Reduces(v, onMessageUser(v, x, y)) /\ onMessageUser(v, x, y).tool = v.tool
    BY UserIs
  <2>5. /\ Reduces(v, onMessageUser(v, prompts[line.n].text, line.n))
        /\ onMessageUser(v, prompts[line.n].text, line.n).tool = v.tool
    BY <2>3, <2>4
  <2> QED BY <1>2, <2>1, <2>5
<1>3. CASE line.type = "said"
  <2>1. Reduced(v, line) = onMessageAssistant(v, line.n, line.kind)
    BY <1>3 DEF Reduced
  <2>2. \A x \in Nat, y \in {"text", "tool", ""} :
          /\ Reduces(v, onMessageAssistant(v, x, y)) /\ onMessageAssistant(v, x, y).tool = v.tool
          /\ KeepsUsers(v.msgs, onMessageAssistant(v, x, y).msgs)
    BY SaidIs
  <2>3. /\ Reduces(v, onMessageAssistant(v, line.n, line.kind))
        /\ onMessageAssistant(v, line.n, line.kind).tool = v.tool
        /\ KeepsUsers(v.msgs, onMessageAssistant(v, line.n, line.kind).msgs)
    BY <1>0, <2>2
  <2> QED BY <2>1, <2>3
<1>4. CASE line.type \in {"tool_result", "result"}
  <2> DEFINE m == Note(line.type, line.n)
             ns == Append(v.msgs, m)
  <2>1. m \in Messages /\ m.type # "user"
    BY <1>0, <1>4, MessageKinds DEF Note
  <2>2. v.msgs \in Seq(Messages)
    BY DEF Views
  <2>3. ns \in Seq(Messages) /\ KeepsUsers(v.msgs, ns)
    <3> HIDE DEF m
    <3> QED BY <2>1, <2>2, AppendKeepsUsers
  <2>4. Reduced(v, line) = [v EXCEPT !.msgs = ns]
    BY <1>4 DEF Reduced
  <2> HIDE DEF ns
  <2> QED BY <2>3, <2>4, MessagesReduced
<1> QED BY <1>1, <1>2, <1>3, <1>4, LineIs

-----------------------------------------------------------------------------
(* A batch *)

\* A replay, line by line.
Replay(v, rows, f, N) ==
  f = [n \in 0..N |-> IF n = 0 THEN v
                      ELSE IF n \in rows THEN Reduced(f[n - 1], log[n]) ELSE f[n - 1]]

\* A replay is defined for every number of lines.
LEMMA ReplayExists ==
  ASSUME NEW v, NEW rows, NEW N \in Nat
  PROVE  \E f : Replay(v, rows, f, N)
<1> DEFINE E(m) == \E f : Replay(v, rows, f, m)
           U == {m \in Nat : E(m)}
<1>1. 0 \in U
  <2> DEFINE f == [n \in 0..0 |-> v]
  <2>1. Replay(v, rows, f, 0)
    BY DEF Replay
  <2> QED BY <2>1
<1>2. ASSUME NEW m \in Nat, m \in U PROVE m + 1 \in U
  <2>1. PICK f : Replay(v, rows, f, m)
    BY <1>2
  <2> DEFINE h == [n \in 0..(m + 1) |-> IF n = m + 1
                                         THEN IF n \in rows THEN Reduced(f[m], log[n]) ELSE f[m]
                                         ELSE f[n]]
  <2>2. Replay(v, rows, h, m + 1)
    <3> SUFFICES ASSUME NEW n \in 0..(m + 1)
                 PROVE  h[n] = IF n = 0 THEN v
                               ELSE IF n \in rows THEN Reduced(h[n - 1], log[n]) ELSE h[n - 1]
      BY DEF Replay
    <3>1. CASE n = m + 1
      <4>1. n # 0 /\ n - 1 = m /\ m \in 0..(m + 1) /\ m # m + 1
        BY <3>1
      <4>2. h[n - 1] = f[m]
        BY <4>1
      <4>3. h[n] = IF n \in rows THEN Reduced(f[m], log[n]) ELSE f[m]
        BY <3>1
      <4> QED BY <4>1, <4>2, <4>3
    <3>2. CASE n # m + 1
      <4>1. n \in 0..m /\ (n # 0 => n - 1 \in 0..m /\ n - 1 \in 0..(m + 1) /\ n - 1 # m + 1)
        BY <3>2
      <4>2. f[n] = IF n = 0 THEN v
                   ELSE IF n \in rows THEN Reduced(f[n - 1], log[n]) ELSE f[n - 1]
        BY <2>1, <4>1 DEF Replay
      <4>3. h[n] = f[n] /\ (n # 0 => h[n - 1] = f[n - 1])
        BY <3>2, <4>1
      <4> HIDE DEF h
      <4> QED BY <4>2, <4>3
    <3> QED BY <3>1, <3>2
  <2> HIDE DEF h
  <2>3. E(m + 1)
    BY <2>2
  <2> HIDE DEF E
  <2> QED BY <2>3
<1>3. Nat \subseteq U
  <2> HIDE DEF U
  <2> QED BY <1>1, <1>2, Induction
<1> QED BY <1>3

\* What holds of a window before a batch and is preserved by its lines holds after it; S has
\* pairs of a place in the log and a window that was given the lines so far.
LEMMA ReplayInduction ==
  ASSUME NEW v, NEW rows, Len(log) \in Nat, NEW S, <<0, v>> \in S,
         \A n \in 1..Len(log) : \A x :
           <<n - 1, x>> \in S => <<n, IF n \in rows THEN Reduced(x, log[n]) ELSE x>> \in S
  PROVE  <<Len(log), Replayed(v, rows)>> \in S
<1> DEFINE N == Len(log)
           f == CHOOSE f : Replay(v, rows, f, N)
           U == {m \in Nat : m <= N => <<m, f[m]>> \in S}
<1>1. Replay(v, rows, f, N)
  BY ReplayExists
<1>2. Replayed(v, rows) = f[N]
  BY DEF Replayed, Replay
<1> HIDE DEF f
<1>3. 0 \in U
  <2>1. f[0] = v
    BY <1>1 DEF Replay
  <2> QED BY <2>1
<1>4. ASSUME NEW m \in Nat, m \in U PROVE m + 1 \in U
  <2> SUFFICES ASSUME m + 1 <= N PROVE <<m + 1, f[m + 1]>> \in S
    OBVIOUS
  <2>1. m + 1 \in 1..N /\ m + 1 \in 0..N /\ m + 1 # 0 /\ (m + 1) - 1 = m
    OBVIOUS
  <2>2. <<m, f[m]>> \in S
    BY <1>4
  <2>3. f[m + 1] = IF m + 1 \in rows THEN Reduced(f[m], log[m + 1]) ELSE f[m]
    <3>1. \A n \in 0..N : f[n] = IF n = 0 THEN v
                      ELSE IF n \in rows THEN Reduced(f[n - 1], log[n]) ELSE f[n - 1]
      BY <1>1 DEF Replay
    <3>2. f[m + 1] = IF m + 1 = 0 THEN v
                     ELSE IF m + 1 \in rows THEN Reduced(f[(m + 1) - 1], log[m + 1]) ELSE f[(m + 1) - 1]
      BY <2>1, <3>1
    <3> QED BY <2>1, <3>2
  <2> QED BY <2>1, <2>2, <2>3
<1>5. Nat \subseteq U
  <2> HIDE DEF U
  <2> QED BY <1>3, <1>4, Induction
<1> QED BY <1>2, <1>5

-----------------------------------------------------------------------------
(* Types *)

\* Where the process can be, the joins that can be suspended, what a window remembers.
States == [at : {"idle", "between", "message", "block", "said", "tool"},
           b : 0..MaxBlocks, kind : {"text", "tool", ""}, n : 0..Pieces]
Calls == [phase : {"none", "echo", "read", "rows"}, round : Rounds, echo : BOOLEAN,
          pos : 0..stored, upto : 0..stored]
Histories == [typed : SUBSET PromptIds, given : SUBSET Nat, missed : SUBSET Nat,
              taken : BOOLEAN, cut : BOOLEAN, lossy : BOOLEAN, disturbed : BOOLEAN]

\* The parts of TypeOK.
LogType == log \in Seq(Lines) /\ stored \in 0..Len(log)
QueuesType == stdin \in Seq(PromptIds) /\ up \in [Windows -> Seq(PromptIds)]
BoundsType == prompts \in Seq([text : Texts, by : Windows])
              /\ gaps \in Nat /\ gaps + Len(prompts) <= MaxInputs
InboxType == inbox \in [Windows -> Seq(Events)] /\ members \subseteq Windows
WindowType == win \in [Windows -> Views] /\ past \in [Windows -> Histories]

\* TypeOK in its parts, now and in the next state.
LEMMA TypeParts ==
  TypeOK <=> /\ LogType /\ speech \in States /\ QueuesType /\ BoundsType /\ InboxType
             /\ call \in [Windows -> Calls] /\ WindowType
BY DEF TypeOK, LogType, States, QueuesType, BoundsType, InboxType, Calls, WindowType, Views, Histories

LEMMA TypePartsNext ==
  ASSUME LogType', speech' \in States, QueuesType', BoundsType', InboxType',
         call' \in [Windows -> Calls'], WindowType'
  PROVE  TypeOK'
BY DEF TypeOK, LogType, States, QueuesType, BoundsType, InboxType, Calls, WindowType, Views, Histories

LEMMA Constants ==
  /\ MaxInputs \in Nat /\ MaxBlocks \in Nat /\ BatchSize \in Nat /\ BatchSize # 0
  /\ Pieces \in Nat /\ Pieces # 0 /\ MaxLag \in Nat
  /\ 0 \in Rounds /\ 1 \in Rounds /\ 0 \in 0..MaxBlocks /\ 0 \in 0..Pieces
<1>1. /\ MaxInputs \in Nat /\ MaxBlocks \in Nat /\ BatchSize \in Nat /\ BatchSize # 0
      /\ Pieces \in Nat /\ Pieces # 0 /\ MaxLag \in Nat
  BY ConstantsAssumption DEF ConstantsAssumption
<1> QED BY <1>1 DEF Rounds

LEMMA BoundsGivePrompts == BoundsType => PromptsType
<1> SUFFICES ASSUME BoundsType PROVE PromptsType
  OBVIOUS
<1>1. /\ prompts \in Seq([text : Texts, by : Windows])
      /\ gaps \in Nat /\ gaps + Len(prompts) <= MaxInputs
  BY DEF BoundsType
<1>2. Len(prompts) \in Nat
  BY <1>1
<1>3. Len(prompts) <= MaxInputs
  BY <1>1, <1>2, Constants
<1> QED BY <1>1, <1>3 DEF PromptsType

\* The events by type.
LEMMA EventKinds ==
  /\ \A e \in Events :
       /\ e.type \in {"start", "block", "chunk", "stop", "end"} => e \in StreamEvents
       /\ e.type = "line" => e.n \in Nat
       /\ e.type = "history" => e.round \in Rounds /\ e.rows \subseteq Nat
       /\ e.type \in {"start", "block", "chunk", "stop", "end", "line", "history", "joined", "refresh"}
  /\ StreamEvents \subseteq Events
  /\ \A n \in Nat : [type |-> "line", n |-> n] \in Events
  /\ \A r \in Rounds, s \in SUBSET Nat : [type |-> "history", round |-> r, rows |-> s] \in Events
  /\ [type |-> "joined"] \in Events /\ [type |-> "refresh"] \in Events
<1> DEFINE L == [type : {"line"}, n : Nat]
           H == [type : {"history"}, round : Rounds, rows : SUBSET Nat]
           J == [type : {"joined", "refresh"}]
<1>1. Events = StreamEvents \cup L \cup H \cup J
  BY DEF Events, StreamEvents
<1>2. \A e \in StreamEvents : e.type \in {"start", "block", "chunk", "stop", "end"}
  BY DEF StreamEvents
<1>3. \A e \in L : e.type = "line" /\ e.n \in Nat
  OBVIOUS
<1>4. \A e \in H : e.type = "history" /\ e.round \in Rounds /\ e.rows \subseteq Nat
  OBVIOUS
<1>5. \A e \in J : e.type \in {"joined", "refresh"}
  OBVIOUS
<1>6. \A n \in Nat : [type |-> "line", n |-> n] \in L
  OBVIOUS
<1>7. \A r \in Rounds, s \in SUBSET Nat : [type |-> "history", round |-> r, rows |-> s] \in H
  OBVIOUS
<1>8. [type |-> "joined"] \in J /\ [type |-> "refresh"] \in J
  OBVIOUS
<1> HIDE DEF L, H, J
<1> QED BY <1>1, <1>2, <1>3, <1>4, <1>5, <1>6, <1>7, <1>8

\* The channel starts empty.
LEMMA InitType == Init => TypeOK
<1> SUFFICES ASSUME Init PROVE TypeOK
  OBVIOUS
<1>0. \A S : <<>> \in Seq(S)
  OBVIOUS
<1>1. LogType
  <2>1. log = <<>> /\ stored = 0 /\ Len(<<>>) = 0
    BY DEF Init
  <2> QED BY <1>0, <2>1 DEF LogType
<1>2. speech \in States
  <2>1. speech = [at |-> "idle", b |-> 0, kind |-> "", n |-> 0]
    BY DEF Init
  <2> QED BY <2>1, Constants DEF States
<1>3. QueuesType
  <2>1. stdin = <<>> /\ up = [w \in Windows |-> <<>>]
    BY DEF Init
  <2> QED BY <1>0, <2>1 DEF QueuesType
<1>4. BoundsType
  <2>1. prompts = <<>> /\ gaps = 0 /\ Len(<<>>) = 0
    BY DEF Init
  <2>2. gaps \in Nat /\ gaps + Len(prompts) <= MaxInputs
    BY <2>1, Constants
  <2> QED BY <1>0, <2>1, <2>2 DEF BoundsType
<1>5. InboxType
  <2>1. inbox = [w \in Windows |-> <<>>] /\ members = {}
    BY DEF Init
  <2> QED BY <1>0, <2>1 DEF InboxType
<1>6. call \in [Windows -> Calls]
  <2>1. call = [w \in Windows |-> NoCall] /\ stored = 0
    BY DEF Init
  <2>2. NoCall \in Calls
    BY <2>1, Constants DEF Calls, NoCall
  <2> QED BY <2>1, <2>2
<1>7. WindowType
  <2> DEFINE v == [msgs |-> <<>>, tool |-> 0, replay |-> 0, round |-> 0, ready |-> FALSE]
             h == [typed |-> {}, given |-> {}, missed |-> {}, taken |-> FALSE, cut |-> FALSE,
                   lossy |-> FALSE, disturbed |-> FALSE]
  <2>1. win = [w \in Windows |-> v] /\ past = [w \in Windows |-> h]
    BY DEF Init
  <2>2. v \in Views
    BY <1>0, Constants DEF Views
  <2>3. h \in Histories
    BY DEF Histories
  <2> HIDE DEF v, h
  <2> QED BY <2>1, <2>2, <2>3 DEF WindowType
<1> QED BY <1>1, <1>2, <1>3, <1>4, <1>5, <1>6, <1>7, TypeParts

LEMMA ReducesOn ==
  ASSUME NEW v, NEW x, NEW y, Reduces(v, x), Reduces(x, y)
  PROVE  Reduces(v, y)
BY DEF Reduces

\* A replay keeps the rest of the window.
LEMMA ReplayedReduces ==
  ASSUME PromptsType, log \in Seq(Lines), \A n \in DOMAIN log : LineKnown(log[n]),
         NEW v \in Views, NEW rows
  PROVE  Reduces(v, Replayed(v, rows)) /\ Replayed(v, rows).tool = v.tool
<1> DEFINE S == {y \in Nat \X Views : Reduces(v, y[2]) /\ y[2].tool = v.tool}
<1>1. <<0, v>> \in S
  BY DEF Reduces
<1>2. ASSUME NEW n \in 1..Len(log), NEW x, <<n - 1, x>> \in S
      PROVE  <<n, IF n \in rows THEN Reduced(x, log[n]) ELSE x>> \in S
  <2>1. x \in Views /\ Reduces(v, x) /\ x.tool = v.tool /\ n \in Nat
    BY <1>2
  <2>2. log[n] \in Lines /\ LineKnown(log[n])
    OBVIOUS
  <2>3. Reduces(x, Reduced(x, log[n])) /\ Reduced(x, log[n]).tool = x.tool
    BY <2>1, <2>2, ReducedReduces
  <2>4. Reduces(v, Reduced(x, log[n])) /\ Reduced(x, log[n]).tool = v.tool
    BY <2>1, <2>3, ReducesOn
  <2>5. Reduced(x, log[n]) \in Views
    BY <2>4 DEF Reduces
  <2> QED BY <2>1, <2>4, <2>5
<1>3. Len(log) \in Nat
  OBVIOUS
<1>4. <<Len(log), Replayed(v, rows)>> \in S
  <2> HIDE DEF S
  <2> QED BY <1>1, <1>2, <1>3, ReplayInduction
<1> QED BY <1>4

-----------------------------------------------------------------------------
(* What the process says, as it is heard *)

\* A stream event is heard in a state of the answer and leads to another.
Streams(s, e, t) ==
  \/ e.type = "start" /\ s.at = "between" /\ t = [s EXCEPT !.at = "message", !.kind = ""]
  \/ /\ e.type = "block" /\ s.at = "message" /\ e.b = s.b + 1 /\ e.kind \in {"text", "tool"}
     /\ t = [at |-> "block", b |-> e.b, kind |-> e.kind, n |-> 0]
  \/ /\ e.type = "chunk" /\ s.at = "block" /\ e.b = s.b /\ e.kind = s.kind /\ e.k = s.n + 1
     /\ t = [s EXCEPT !.n = s.n + 1]
  \/ e.type = "stop" /\ s.at = "said" /\ t = [s EXCEPT !.at = "message"]
  \/ /\ e.type = "end" /\ s.at = "message" /\ s.kind # ""
     /\ t \in {[s EXCEPT !.at = "tool"], [s EXCEPT !.at = "between"]}

\* So is a line.
HeardLine(s, line, t) ==
  \/ line.type = "in" /\ t = s
  \/ line.type = "echo" /\ s.at = "idle" /\ t = [s EXCEPT !.at = "between"]
  \/ /\ line.type = "said" /\ s.at = "block" /\ s.n = Pieces /\ line.n = s.b
     /\ line.kind = s.kind /\ t = [s EXCEPT !.at = "said"]
  \/ line.type = "tool_result" /\ s.at = "tool" /\ t = [s EXCEPT !.at = "between"]
  \/ line.type = "result" /\ s.at = "between" /\ t = [s EXCEPT !.at = "idle"]

TheLine(n) == [type |-> "line", n |-> n]

\* The process streams something, or says a line.
SpeakStream(e) ==
  /\ e \in StreamEvents /\ Streams(speech, e, speech') /\ speech' \in States
  /\ SendTo(members, e)
  /\ UNCHANGED <<log, stdin, stored, prompts, up, members, call, win, gaps>>

SpeakLine(line) ==
  /\ line \in Lines /\ line.type # "in" /\ HeardLine(speech, line, speech') /\ speech' \in States
  /\ SendTo(members, TheLine(Len(log) + 1)) /\ log' = Append(log, line)
  /\ IF line.type = "echo" THEN stdin # <<>> /\ line.n = Head(stdin) /\ stdin' = Tail(stdin)
     ELSE stdin' = stdin
  /\ UNCHANGED <<stored, prompts, up, members, call, win, gaps>>

\* The states of the process.
LEMMA StateIs ==
  ASSUME NEW s \in States
  PROVE  /\ s.at \in {"idle", "between", "message", "block", "said", "tool"} /\ s.b \in 0..MaxBlocks
         /\ s.b \in Nat /\ s.kind \in {"text", "tool", ""} /\ s.n \in 0..Pieces /\ s.n \in Nat
         /\ \A at \in {"idle", "between", "message", "block", "said", "tool"} :
              [s EXCEPT !.at = at] \in States /\ [s EXCEPT !.at = at, !.kind = ""] \in States
         /\ \A k \in 0..Pieces : [s EXCEPT !.n = k] \in States
<1>1. /\ s.at \in {"idle", "between", "message", "block", "said", "tool"} /\ s.b \in 0..MaxBlocks
      /\ s.kind \in {"text", "tool", ""} /\ s.n \in 0..Pieces
  BY DEF States
<1>2. \A x \in 0..MaxBlocks : x \in Nat
  BY Constants
<1>3. \A x \in 0..Pieces : x \in Nat
  BY Constants
<1>4. \A at \in {"idle", "between", "message", "block", "said", "tool"} :
        [s EXCEPT !.at = at] \in States /\ [s EXCEPT !.at = at, !.kind = ""] \in States
  BY DEF States
<1>5. \A k \in 0..Pieces : [s EXCEPT !.n = k] \in States
  BY DEF States
<1> QED BY <1>1, <1>2, <1>3, <1>4, <1>5

\* What the process does is to stream an event or to say a line.
LEMMA SpeakIs ==
  ASSUME TypeOK, Speak
  PROVE  (\E e \in StreamEvents : SpeakStream(e)) \/ \E line \in Lines : SpeakLine(line)
<1>1. /\ speech \in States /\ LogType /\ QueuesType
  BY TypeParts
<1>2. CASE Echo
  <2> DEFINE line == Line("echo", Head(stdin), "")
  <2>1. /\ speech.at = "idle" /\ stdin # <<>> /\ speech' = [speech EXCEPT !.at = "between"]
        /\ log' = Append(log, line) /\ stdin' = Tail(stdin)
        /\ SendTo(members, TheLine(Len(log) + 1))
        /\ UNCHANGED <<stored, prompts, up, members, call, win, gaps>>
    BY <1>2 DEF Echo, Utter, Say, TheLine
  <2>2. Head(stdin) \in Nat
    <3>1. Head(stdin) \in PromptIds
      <4>1. stdin \in Seq(PromptIds) /\ stdin # <<>>
        BY <1>1, <2>1 DEF QueuesType
      <4> QED BY <4>1, HeadTailProperties
    <3> QED BY <3>1, Constants DEF PromptIds
  <2>3. line \in Lines /\ line.type = "echo" /\ line.n = Head(stdin)
    BY <2>2 DEF Line, Lines
  <2>4. speech' \in States
    BY Zenon, <1>1, <2>1, StateIs
  <2> HIDE DEF line
  <2>5. SpeakLine(line)
    BY <2>1, <2>3, <2>4 DEF SpeakLine, HeardLine
  <2> QED BY <2>3, <2>5
<1>3. CASE BlockSaid
  <2> DEFINE line == Line("said", speech.b, speech.kind)
  <2>1. /\ speech.at = "block" /\ speech.n = Pieces /\ speech' = [speech EXCEPT !.at = "said"]
        /\ log' = Append(log, line) /\ stdin' = stdin
        /\ SendTo(members, TheLine(Len(log) + 1))
        /\ UNCHANGED <<stored, prompts, up, members, call, win, gaps>>
    BY <1>3 DEF BlockSaid, Utter, Say, TheLine
  <2>2. line \in Lines /\ line.type = "said" /\ line.n = speech.b /\ line.kind = speech.kind
    BY Zenon, <1>1, StateIs DEF Line, Lines
  <2>3. speech' \in States
    BY Zenon, <1>1, <2>1, StateIs
  <2> HIDE DEF line
  <2>4. SpeakLine(line)
    BY <2>1, <2>2, <2>3 DEF SpeakLine, HeardLine
  <2> QED BY <2>2, <2>4
<1>4. CASE ToolResult
  <2> DEFINE line == Line("tool_result", speech.b, "")
  <2>1. /\ speech.at = "tool" /\ speech' = [speech EXCEPT !.at = "between"]
        /\ log' = Append(log, line) /\ stdin' = stdin
        /\ SendTo(members, TheLine(Len(log) + 1))
        /\ UNCHANGED <<stored, prompts, up, members, call, win, gaps>>
    BY Zenon, <1>4 DEF ToolResult, Utter, Say, TheLine
  <2>2. line \in Lines /\ line.type = "tool_result"
    BY Zenon, <1>1, StateIs DEF Line, Lines
  <2>3. speech' \in States
    BY Zenon, <1>1, <2>1, StateIs
  <2> HIDE DEF line
  <2>4. SpeakLine(line)
    BY <2>1, <2>2, <2>3 DEF SpeakLine, HeardLine
  <2> QED BY <2>2, <2>4
<1>5. CASE TurnResult
  <2> DEFINE line == Line("result", 0, "")
  <2>1. /\ speech.at = "between" /\ speech' = [speech EXCEPT !.at = "idle"]
        /\ log' = Append(log, line) /\ stdin' = stdin
        /\ SendTo(members, TheLine(Len(log) + 1))
        /\ UNCHANGED <<stored, prompts, up, members, call, win, gaps>>
    BY <1>5 DEF TurnResult, Utter, Say, TheLine
  <2>2. line \in Lines /\ line.type = "result"
    BY DEF Line, Lines
  <2>3. speech' \in States
    BY Zenon, <1>1, <2>1, StateIs
  <2> HIDE DEF line
  <2>4. SpeakLine(line)
    BY <2>1, <2>2, <2>3 DEF SpeakLine, HeardLine
  <2> QED BY <2>2, <2>4
<1>6. ASSUME NEW t \in States, NEW type \in {"start", "block", "chunk", "stop", "end"},
             NEW k \in 0..Pieces, Chunk(t, type, k)
      PROVE  LET e == [type |-> type, b |-> t.b, kind |-> t.kind, k |-> k]
             IN /\ e \in StreamEvents /\ speech' = t /\ SendTo(members, e)
                /\ UNCHANGED <<log, stdin, stored, prompts, up, members, call, win, gaps>>
  <2> DEFINE e == [type |-> type, b |-> t.b, kind |-> t.kind, k |-> k]
  <2>1. Stream(t, type, k) = e
    BY DEF Stream
  <2>2. e \in StreamEvents
    BY Zenon, StateIs DEF StreamEvents
  <2> HIDE DEF e
  <2>3. /\ speech' = t /\ SendTo(members, e)
        /\ UNCHANGED <<log, stdin, stored, prompts, up, members, call, win, gaps>>
    BY <1>6, <2>1 DEF Chunk, Say
  <2> QED BY <2>2, <2>3 DEF e
<1>7. ASSUME NEW t \in States, NEW type \in {"start", "block", "chunk", "stop", "end"},
             NEW k \in 0..Pieces, Chunk(t, type, k),
             Streams(speech, [type |-> type, b |-> t.b, kind |-> t.kind, k |-> k], t)
      PROVE  \E e \in StreamEvents : SpeakStream(e)
  <2> DEFINE e == [type |-> type, b |-> t.b, kind |-> t.kind, k |-> k]
  <2>1. /\ e \in StreamEvents /\ speech' = t /\ SendTo(members, e)
        /\ UNCHANGED <<log, stdin, stored, prompts, up, members, call, win, gaps>>
    BY <1>6, <1>7
  <2>2. Streams(speech, e, t)
    BY <1>7
  <2> HIDE DEF e
  <2>3. SpeakStream(e)
    BY <2>1, <2>2 DEF SpeakStream
  <2> QED BY <2>1, <2>3
<1>8. ASSUME MessageStart PROVE \E e \in StreamEvents : SpeakStream(e)
  <2> DEFINE t == [speech EXCEPT !.at = "message", !.kind = ""]
             e == [type |-> "start", b |-> t.b, kind |-> t.kind, k |-> 0]
  <2>1. speech.at = "between" /\ Chunk(t, "start", 0)
    BY <1>8 DEF MessageStart
  <2>2. t \in States
    BY Zenon, <1>1, StateIs
  <2>3. Streams(speech, e, t)
    BY <2>1 DEF Streams
  <2> HIDE DEF t
  <2> QED BY <1>7, <2>1, <2>2, <2>3, Constants
<1>9. ASSUME NEW kind \in {"text", "tool"}, BlockStart(kind) PROVE \E e \in StreamEvents : SpeakStream(e)
  <2> DEFINE t == [at |-> "block", b |-> speech.b + 1, kind |-> kind, n |-> 0]
             e == [type |-> "block", b |-> t.b, kind |-> t.kind, k |-> 0]
  <2>1. /\ speech.at = "message" /\ speech.b < MaxBlocks
        /\ Chunk(t, "block", 0)
    BY <1>9 DEF BlockStart
  <2>3. speech.b + 1 \in 0..MaxBlocks
    <3>1. speech.b \in Nat
      BY Zenon, <1>1, StateIs
    <3> QED BY <2>1, <3>1, Constants
  <2>4. t \in States
    BY <2>3, Constants DEF States
  <2>5. Streams(speech, e, t)
    BY <2>1 DEF Streams
  <2> HIDE DEF t
  <2> QED BY <1>7, <2>1, <2>4, <2>5, Constants
<1>10. ASSUME BlockDelta PROVE \E e \in StreamEvents : SpeakStream(e)
  <2> DEFINE t == [speech EXCEPT !.n = speech.n + 1]
             e == [type |-> "chunk", b |-> t.b, kind |-> t.kind, k |-> speech.n + 1]
  <2>1. speech.at = "block" /\ speech.n < Pieces /\ Chunk(t, "chunk", speech.n + 1)
    BY <1>10 DEF BlockDelta
  <2>2. speech.n + 1 \in 0..Pieces
    <3>1. speech.n \in Nat
      BY Zenon, <1>1, StateIs
    <3> QED BY <2>1, <3>1, Constants
  <2>3. t \in States
    BY Zenon, <1>1, <2>2, StateIs
  <2>4. t.b = speech.b /\ t.kind = speech.kind
    BY <1>1 DEF States
  <2>5. Streams(speech, e, t)
    BY <2>1, <2>4 DEF Streams
  <2> HIDE DEF t
  <2> QED BY <1>7, <2>1, <2>2, <2>3, <2>5
<1>11. ASSUME BlockStop PROVE \E e \in StreamEvents : SpeakStream(e)
  <2> DEFINE t == [speech EXCEPT !.at = "message"]
             e == [type |-> "stop", b |-> t.b, kind |-> t.kind, k |-> 0]
  <2>1. speech.at = "said" /\ Chunk(t, "stop", 0)
    BY <1>11 DEF BlockStop
  <2>2. t \in States
    BY Zenon, <1>1, StateIs
  <2>3. Streams(speech, e, t)
    BY <2>1 DEF Streams
  <2> HIDE DEF t
  <2> QED BY <1>7, <2>1, <2>2, <2>3, Constants
<1>12. ASSUME MessageStop PROVE \E e \in StreamEvents : SpeakStream(e)
  <2> DEFINE at == IF speech.kind = "tool" THEN "tool" ELSE "between"
             t == [speech EXCEPT !.at = at]
             e == [type |-> "end", b |-> t.b, kind |-> t.kind, k |-> 0]
  <2>1. speech.at = "message" /\ speech.kind # "" /\ Chunk(t, "end", 0)
    BY <1>12 DEF MessageStop
  <2>2. at \in {"idle", "between", "message", "block", "said", "tool"} /\ at \in {"tool", "between"}
    OBVIOUS
  <2> HIDE DEF at
  <2>3. t \in States
    BY Zenon, <1>1, <2>2, StateIs
  <2>4. t \in {[speech EXCEPT !.at = "tool"], [speech EXCEPT !.at = "between"]}
    BY <2>2
  <2>5. Streams(speech, e, t)
    BY <2>1, <2>4 DEF Streams
  <2> HIDE DEF t
  <2> QED BY <1>7, <2>1, <2>3, <2>5, Constants
<1> QED BY <1>2, <1>3, <1>4, <1>5, <1>8, <1>9, <1>10, <1>11, <1>12 DEF Speak

-----------------------------------------------------------------------------
(* What the lines and the queues refer to, and the rounds of a window *)

\* The first event on its way to a window tells it to refresh.
Gapped(w) == inbox[w] # <<>> /\ Head(inbox[w]).type = "refresh"

\* The prompts a window has typed and keeps, the lines it was given or is to be.
RefsOf(w) ==
  /\ \A i \in DOMAIN up[w] : up[w][i] \in DOMAIN prompts /\ prompts[up[w][i]].by = w
  /\ past[w].typed \subseteq DOMAIN prompts
  /\ \A p \in past[w].typed : prompts[p].by = w
  /\ past[w].given \subseteq DOMAIN log
  /\ \A i \in DOMAIN inbox[w] : LinesOf(inbox[w][i]) \subseteq DOMAIN log

\* All that is referred to exists.
RefsInv ==
  /\ \A i \in DOMAIN stdin : stdin[i] \in DOMAIN prompts
  /\ \A n \in DOMAIN log : LineKnown(log[n])
  /\ \A w \in Windows : RefsOf(w)

\* The rounds of a window count the times it joined, at most once for each gap.
RoundsOf(w) ==
    /\ \A i \in DOMAIN inbox[w] : inbox[w][i].type = "refresh" => i = 1
    /\ win[w].round <= gaps + 1 /\ (Gapped(w) => win[w].round + 1 <= gaps + 1)
    /\ win[w].round = 0 => inbox[w] = <<>> /\ w \notin members /\ call[w].phase = "none"
    /\ call[w].phase = "none" => call[w] = NoCall
    /\ Gapped(w) => call[w].phase = "none"

RoundsInv == \A w \in Windows : RoundsOf(w)

TypeInv == TypeOK /\ RefsInv /\ RoundsInv

LEMMA HistoryIs ==
  ASSUME NEW h \in Histories
  PROVE  /\ h.typed \subseteq PromptIds /\ h.given \subseteq Nat /\ h.missed \subseteq Nat
         /\ h.taken \in BOOLEAN /\ h.cut \in BOOLEAN /\ h.lossy \in BOOLEAN /\ h.disturbed \in BOOLEAN
BY DEF Histories

\* But for disturbed, the history of a window is the same.
SameHistory(g, h) ==
  /\ g.typed = h.typed /\ g.given = h.given /\ g.missed = h.missed /\ g.taken = h.taken
  /\ g.cut = h.cut /\ g.lossy = h.lossy

\* An event that is sent is appended to the inbox of those it is sent to.
LEMMA SendToIs ==
  ASSUME NEW ws, NEW e \in Events, SendTo(ws, e), InboxType, WindowType
  PROVE  /\ inbox' \in [Windows -> Seq(Events)] /\ past' \in [Windows -> Histories]
         /\ \A w \in Windows :
              /\ inbox'[w] = IF w \in ws THEN Append(inbox[w], e) ELSE inbox[w]
              /\ SameHistory(past'[w], past[w])
              /\ w \notin ws \/ ~past[w].lossy => past'[w] = past[w]
              /\ w \in ws /\ past[w].lossy => past'[w].disturbed
<1>1. inbox \in [Windows -> Seq(Events)] /\ past \in [Windows -> Histories]
  BY DEF InboxType, WindowType
<1>2. /\ inbox' = [w \in Windows |-> IF w \in ws THEN Append(inbox[w], e) ELSE inbox[w]]
      /\ past' = [w \in Windows |->
                IF w \in ws /\ past[w].lossy THEN [past[w] EXCEPT !.disturbed = TRUE] ELSE past[w]]
  BY DEF SendTo
<1>3. ASSUME NEW w \in Windows
      PROVE  (IF w \in ws THEN Append(inbox[w], e) ELSE inbox[w]) \in Seq(Events)
  <2>1. inbox[w] \in Seq(Events)
    BY <1>1
  <2>2. Append(inbox[w], e) \in Seq(Events)
    BY <2>1, Appended
  <2> QED BY <2>1, <2>2
<1>4. \A h \in Histories : /\ [h EXCEPT !.disturbed = TRUE] \in Histories
                           /\ SameHistory([h EXCEPT !.disturbed = TRUE], h)
                           /\ [h EXCEPT !.disturbed = TRUE].disturbed
                           /\ SameHistory(h, h)
  BY DEF Histories, SameHistory
<1>5. ASSUME NEW w \in Windows
      PROVE  past[w] \in Histories
  BY <1>1
<1> QED BY <1>2, <1>3, <1>4, <1>5

LEMMA EventsSent ==
  ASSUME TypeOK
  PROVE  StreamEvents \subseteq Events /\ TheLine(Len(log) + 1) \in Events /\ Len(log) \in Nat
<1>1. Len(log) \in Nat
  BY TypeParts DEF LogType
<1> QED BY <1>1, EventKinds DEF TheLine

-----------------------------------------------------------------------------
(* The typing invariant *)

\* Each action keeps the types.
LEMMA SpeakStreamType ==
  ASSUME TypeOK, NEW e, SpeakStream(e)
  PROVE  TypeOK'
<1>1. /\ LogType /\ speech \in States /\ QueuesType /\ BoundsType /\ InboxType
      /\ call \in [Windows -> Calls] /\ WindowType
  BY TypeParts
<1>2. /\ e \in Events /\ SendTo(members, e) /\ speech' \in States
      /\ UNCHANGED <<log, stdin, stored, prompts, up, members, call, win, gaps>>
  BY EventsSent DEF SpeakStream
<1>3. inbox' \in [Windows -> Seq(Events)] /\ past' \in [Windows -> Histories]
  BY <1>1, <1>2, SendToIs
<1>4. LogType'
  BY <1>1, <1>2 DEF LogType
<1>5. QueuesType' /\ BoundsType'
  BY <1>1, <1>2 DEF QueuesType, BoundsType
<1>6. InboxType' /\ WindowType'
  BY <1>1, <1>2, <1>3 DEF InboxType, WindowType
<1>7. call' \in [Windows -> Calls']
  BY <1>1, <1>2 DEF Calls
<1> QED BY <1>2, <1>4, <1>5, <1>6, <1>7, TypePartsNext

LEMMA SpeakLineType ==
  ASSUME TypeOK, NEW line, SpeakLine(line)
  PROVE  TypeOK'
<1>1. /\ LogType /\ speech \in States /\ QueuesType /\ BoundsType /\ InboxType
      /\ call \in [Windows -> Calls] /\ WindowType
  BY TypeParts
<1>2. /\ SendTo(members, TheLine(Len(log) + 1)) /\ speech' \in States
      /\ line \in Lines /\ log' = Append(log, line)
      /\ UNCHANGED <<stored, prompts, up, members, call, win, gaps>>
  BY DEF SpeakLine
<1>3. inbox' \in [Windows -> Seq(Events)] /\ past' \in [Windows -> Histories]
  <2> DEFINE e == TheLine(Len(log) + 1)
  <2>1. e \in Events
    BY EventsSent
  <2> HIDE DEF e
  <2>2. SendTo(members, e)
    BY <1>2 DEF e
  <2> QED BY <1>1, <2>1, <2>2, SendToIs
<1>4. LogType'
  <2>1. log \in Seq(Lines) /\ stored \in 0..Len(log) /\ Len(log) \in Nat
    BY <1>1 DEF LogType
  <2>2. log' \in Seq(Lines) /\ Len(log') = Len(log) + 1
    BY <1>2, <2>1, Appended
  <2>3. stored' \in 0..Len(log')
    BY <1>2, <2>1, <2>2
  <2> QED BY <2>2, <2>3 DEF LogType
<1>5. QueuesType'
  <2>1. stdin \in Seq(PromptIds) /\ up \in [Windows -> Seq(PromptIds)]
    BY <1>1 DEF QueuesType
  <2>2. stdin' \in Seq(PromptIds)
    <3>1. CASE stdin' = stdin
      BY <2>1, <3>1
    <3>2. CASE stdin # <<>> /\ stdin' = Tail(stdin)
      BY <2>1, <3>2, HeadTailProperties
    <3> QED BY <3>1, <3>2 DEF SpeakLine
  <2> QED BY <1>2, <2>1, <2>2 DEF QueuesType
<1>6. BoundsType'
  BY <1>1, <1>2 DEF BoundsType
<1>7. InboxType' /\ WindowType'
  BY <1>1, <1>2, <1>3 DEF InboxType, WindowType
<1>8. call' \in [Windows -> Calls']
  BY <1>1, <1>2 DEF Calls
<1> QED BY <1>2, <1>4, <1>5, <1>6, <1>7, <1>8, TypePartsNext

LEMMA StoreType ==
  ASSUME TypeOK, Store
  PROVE  TypeOK'
<1>1. /\ LogType /\ speech \in States /\ QueuesType /\ BoundsType /\ InboxType
      /\ call \in [Windows -> Calls] /\ WindowType
  BY TypeParts
<1>2. /\ stored < Len(log) /\ stored' = stored + 1
      /\ UNCHANGED <<log, speech, stdin, prompts, up, inbox, members, call, win, gaps, past>>
  BY DEF Store
<1>3. Len(log) \in Nat /\ stored \in Nat /\ stored <= Len(log)
  BY <1>1 DEF LogType
<1>4. LogType'
  BY <1>1, <1>2, <1>3 DEF LogType
<1>5. call' \in [Windows -> Calls']
  <2>1. 0..stored \subseteq 0..stored'
    BY <1>2, <1>3
  <2>2. Calls \subseteq Calls'
    BY <2>1 DEF Calls
  <2> QED BY <1>1, <1>2, <2>2
<1>6. QueuesType' /\ BoundsType' /\ InboxType' /\ WindowType' /\ speech' \in States
  BY <1>1, <1>2 DEF QueuesType, BoundsType, InboxType, WindowType
<1> QED BY <1>4, <1>5, <1>6, TypePartsNext

\* The prompt of handleSend is a line of stdin.
LEMMA HandleSendIs ==
  ASSUME TypeOK, NEW w \in Windows, HandleSend(w)
  PROVE  LET p == Head(up[w])
             line == Line("in", p, "")
         IN /\ up[w] # <<>> /\ p \in PromptIds /\ p \in Nat /\ line \in Lines
            /\ line.type = "in" /\ line.n = p
            /\ log' = Append(log, line) /\ stdin' = Append(stdin, p)
            /\ SendTo(Others(w), TheLine(Len(log) + 1))
            /\ up' = [up EXCEPT ![w] = Tail(@)] /\ Tail(up[w]) \in Seq(PromptIds)
            /\ UNCHANGED <<stored, speech, prompts, members, call, win, gaps>>
<1> DEFINE p == Head(up[w])
           line == Line("in", p, "")
<1>1. /\ up[w] # <<>> /\ log' = Append(log, line) /\ stdin' = Append(stdin, p)
      /\ SendTo(Others(w), TheLine(Len(log) + 1)) /\ up' = [up EXCEPT ![w] = Tail(@)]
      /\ UNCHANGED <<stored, speech, prompts, members, call, win, gaps>>
  BY DEF HandleSend, TheLine
<1>2. up[w] \in Seq(PromptIds)
  BY TypeParts DEF QueuesType
<1>3. p \in PromptIds /\ Tail(up[w]) \in Seq(PromptIds)
  BY <1>1, <1>2, HeadTailProperties
<1>4. p \in Nat
  BY <1>3, Constants DEF PromptIds
<1>5. line \in Lines /\ line.type = "in" /\ line.n = p
  BY <1>4 DEF Line, Lines
<1> QED BY <1>1, <1>3, <1>4, <1>5

LEMMA HandleSendType ==
  ASSUME TypeOK, NEW w \in Windows, HandleSend(w)
  PROVE  TypeOK'
<1> DEFINE p == Head(up[w])
           line == Line("in", p, "")
           q == Tail(up[w])
<1>1. /\ LogType /\ speech \in States /\ QueuesType /\ BoundsType /\ InboxType
      /\ call \in [Windows -> Calls] /\ WindowType
  BY TypeParts
<1>2. /\ p \in PromptIds /\ line \in Lines
      /\ log' = Append(log, line) /\ stdin' = Append(stdin, p)
      /\ SendTo(Others(w), TheLine(Len(log) + 1))
      /\ up' = [up EXCEPT ![w] = q] /\ q \in Seq(PromptIds)
      /\ UNCHANGED <<stored, speech, prompts, members, call, win, gaps>>
  BY HandleSendIs
<1> HIDE DEF p, line, q
<1>3. inbox' \in [Windows -> Seq(Events)] /\ past' \in [Windows -> Histories]
  <2> DEFINE e == TheLine(Len(log) + 1)
  <2>1. e \in Events
    BY EventsSent
  <2> HIDE DEF e
  <2>2. SendTo(Others(w), e)
    BY <1>2 DEF e
  <2> QED BY <1>1, <2>1, <2>2, SendToIs
<1>4. LogType'
  <2>1. log \in Seq(Lines) /\ stored \in 0..Len(log) /\ Len(log) \in Nat
    BY <1>1 DEF LogType
  <2>2. log' \in Seq(Lines) /\ Len(log') = Len(log) + 1
    BY <1>2, <2>1, Appended
  <2>3. stored' \in 0..Len(log')
    BY <1>2, <2>1, <2>2
  <2> QED BY <2>2, <2>3 DEF LogType
<1>5. QueuesType'
  <2>1. stdin \in Seq(PromptIds) /\ up \in [Windows -> Seq(PromptIds)]
    BY <1>1 DEF QueuesType
  <2>2. stdin' \in Seq(PromptIds)
    BY <1>2, <2>1, Appended
  <2>3. up' \in [Windows -> Seq(PromptIds)]
    BY <1>2, <2>1
  <2> QED BY <2>2, <2>3 DEF QueuesType
<1>6. BoundsType' /\ InboxType' /\ WindowType' /\ speech' \in States
  BY <1>1, <1>2, <1>3 DEF BoundsType, InboxType, WindowType
<1>7. call' \in [Windows -> Calls']
  BY <1>1, <1>2 DEF Calls
<1> QED BY <1>4, <1>5, <1>6, <1>7, TypePartsNext

\* The steps of a join touch call, and the state of their window.
LEMMA CallType ==
  ASSUME TypeOK, NEW w \in Windows, NEW c \in Calls, call' = [call EXCEPT ![w] = c],
         UNCHANGED <<log, stored, speech, stdin, prompts, gaps>>, QueuesType', InboxType', WindowType'
  PROVE  TypeOK'
<1>1. /\ LogType /\ speech \in States /\ BoundsType /\ call \in [Windows -> Calls]
  BY TypeParts
<1>2. LogType' /\ BoundsType' /\ speech' \in States
  BY <1>1 DEF LogType, BoundsType
<1>3. call' \in [Windows -> Calls']
  BY <1>1 DEF Calls
<1> QED BY <1>2, <1>3, TypePartsNext

\* The joins that can be suspended.
LEMMA CallIs ==
  ASSUME TypeOK
  PROVE  /\ NoCall \in Calls
         /\ \A r \in Rounds : [NoCall EXCEPT !.phase = "echo", !.round = r] \in Calls
         /\ \A c \in Calls : /\ c.phase \in {"none", "echo", "read", "rows"} /\ c.round \in Rounds
                             /\ c.echo \in BOOLEAN /\ c.pos \in 0..stored /\ c.upto \in 0..stored
                             /\ c.pos \in Nat /\ c.upto \in Nat
         /\ stored \in Nat /\ Len(log) \in Nat /\ stored <= Len(log)
<1>1. log \in Seq(Lines) /\ stored \in 0..Len(log)
  BY TypeParts DEF LogType
<1>2. Len(log) \in Nat /\ stored \in Nat /\ stored <= Len(log) /\ 0 \in 0..stored
  BY <1>1
<1>3. NoCall \in Calls
  BY <1>2, Constants DEF NoCall, Calls
<1>4. \A r \in Rounds : [NoCall EXCEPT !.phase = "echo", !.round = r] \in Calls
  BY <1>2, Constants DEF NoCall, Calls
<1>5. \A c \in Calls : /\ c.phase \in {"none", "echo", "read", "rows"} /\ c.round \in Rounds
                       /\ c.echo \in BOOLEAN /\ c.pos \in 0..stored /\ c.upto \in 0..stored
  BY DEF Calls
<1>6. \A x \in 0..stored : x \in Nat
  BY <1>2
<1> QED BY <1>2, <1>3, <1>4, <1>5, <1>6

LEMMA JoinType ==
  ASSUME TypeOK, NEW w \in Windows, Join(w)
  PROVE  TypeOK'
<1>1. QueuesType /\ InboxType /\ WindowType
  BY TypeParts
<1>2. /\ call' = [call EXCEPT ![w] = [NoCall EXCEPT !.phase = "echo", !.round = 1]]
      /\ win' = [win EXCEPT ![w].round = 1]
      /\ UNCHANGED <<log, stored, speech, stdin, prompts, up, inbox, members, gaps, past>>
  BY DEF Join, Joining
<1>3. [NoCall EXCEPT !.phase = "echo", !.round = 1] \in Calls
  BY Constants, CallIs
<1>4. WindowType'
  <2>1. win \in [Windows -> Views] /\ [win[w] EXCEPT !.round = 1] \in Views
    BY <1>1, Constants DEF WindowType, Views
  <2>2. win' = [win EXCEPT ![w] = [win[w] EXCEPT !.round = 1]]
    BY <1>2
  <2> QED BY <1>1, <1>2, <2>1, <2>2 DEF WindowType
<1>5. QueuesType' /\ InboxType'
  BY <1>1, <1>2 DEF QueuesType, InboxType
<1> QED BY <1>2, <1>3, <1>4, <1>5, CallType

LEMMA AskEchoType ==
  ASSUME TypeOK, NEW w \in Windows, AskEcho(w)
  PROVE  TypeOK'
<1>1. QueuesType /\ InboxType /\ WindowType /\ call \in [Windows -> Calls]
  BY TypeParts
<1> DEFINE x == \E i \in 1..stored : log[i].type \in {"echo", "tool_result"}
           c == [call[w] EXCEPT !.phase = "read", !.echo = x]
<1>2. /\ call' = [call EXCEPT ![w] = c]
      /\ UNCHANGED <<log, stored, speech, stdin, prompts, up, inbox, members, win, gaps, past>>
  BY <1>1 DEF AskEcho
<1>3. c \in Calls
  <2>1. x \in BOOLEAN
    OBVIOUS
  <2> HIDE DEF x
  <2> QED BY <1>1, <2>1 DEF Calls
<1>4. QueuesType' /\ InboxType' /\ WindowType'
  BY <1>1, <1>2 DEF QueuesType, InboxType, WindowType
<1> HIDE DEF c
<1> QED BY <1>2, <1>3, <1>4, CallType

\* A read that is short has reached the end of the store.
LEMMA UptoType ==
  ASSUME TypeOK, NEW c \in Calls
  PROVE  Upto(c) \in 0..stored /\ c.pos <= Upto(c) /\ Upto(c) <= c.pos + BatchSize
         /\ (Upto(c) - c.pos < BatchSize <=> stored < c.pos + BatchSize)
         /\ (Upto(c) - c.pos < BatchSize => Upto(c) = stored)
<1>0. c.pos \in 0..stored /\ c.pos \in Nat /\ stored \in Nat /\ BatchSize \in Nat
  BY CallIs, Constants
<1>1. c.pos <= stored
  BY <1>0
<1> QED BY <1>0, <1>1 DEF Upto

LEMMA ReadType ==
  ASSUME TypeOK, NEW w \in Windows, Read(w)
  PROVE  TypeOK'
<1>1. QueuesType /\ InboxType /\ WindowType /\ call \in [Windows -> Calls]
  BY TypeParts
<1> DEFINE c == [call[w] EXCEPT !.phase = "rows", !.upto = Upto(call[w])]
<1>2. /\ call' = [call EXCEPT ![w] = c]
      /\ UNCHANGED <<log, stored, speech, stdin, prompts, up, inbox, members, win, gaps, past>>
  BY <1>1 DEF Read
<1>3. c \in Calls
  <2>1. Upto(call[w]) \in 0..stored
    BY <1>1, UptoType
  <2> QED BY <1>1, <2>1 DEF Calls
<1>4. QueuesType' /\ InboxType' /\ WindowType'
  BY <1>1, <1>2 DEF QueuesType, InboxType, WindowType
<1> HIDE DEF c
<1> QED BY <1>2, <1>3, <1>4, CallType

\* What Deliver sends, and what it does then.
Batch(c) == [type |-> "history", round |-> c.round, rows |-> Filtered(c)]
\* A join that goes on, and one that is answered.
Joined == [type |-> "joined"]

Continues(w) ==
  /\ call[w].upto - call[w].pos >= BatchSize
  /\ call' = [call EXCEPT ![w] = [call[w] EXCEPT !.phase = "read", !.pos = call[w].upto]]
  /\ inbox' = [inbox EXCEPT ![w] = Append(inbox[w], Batch(call[w]))]
  /\ UNCHANGED <<members, past>>

Registers(w) ==
  /\ call[w].upto - call[w].pos < BatchSize
  /\ call' = [call EXCEPT ![w] = NoCall]
  /\ members' = members \cup {w}
  /\ past' = [past EXCEPT ![w].missed = (call[w].upto + 1)..Len(log)]
  /\ \/ inbox' = [inbox EXCEPT ![w] = Append(Append(inbox[w], Batch(call[w])), Joined)]
     \/ /\ inbox' = [inbox EXCEPT ![w] = Append(inbox[w], Joined)]
        /\ call[w].upto <= call[w].pos /\ call[w].pos # 0

\* A batch holds lines of the store.
LEMMA BatchType ==
  ASSUME TypeOK, NEW c \in Calls
  PROVE  /\ Batch(c) \in Events /\ Joined \in Events /\ Batch(c).type = "history" /\ Joined.type = "joined"
         /\ Batch(c).round = c.round /\ Batch(c).rows = Filtered(c)
         /\ Filtered(c) \subseteq (c.pos + 1)..c.upto /\ Filtered(c) \subseteq 1..Len(log)
<1>1. c.pos \in Nat /\ c.upto \in Nat /\ c.upto \in 0..stored /\ stored \in Nat /\ Len(log) \in Nat
      /\ stored <= Len(log) /\ c.round \in Rounds
  BY CallIs
<1>2. Filtered(c) \subseteq (c.pos + 1)..c.upto
  BY DEF Filtered
<1>3. (c.pos + 1)..c.upto \subseteq 1..Len(log) /\ (c.pos + 1)..c.upto \subseteq Nat
  BY <1>1
<1>4. Filtered(c) \subseteq Nat
  BY <1>2, <1>3
<1>5. Batch(c) \in Events /\ Joined \in Events
  BY <1>1, <1>4, EventKinds DEF Batch, Joined
<1> QED BY <1>2, <1>3, <1>5 DEF Batch, Joined

\* A delivery goes on with the join or answers it.
LEMMA DeliverIs ==
  ASSUME TypeOK, NEW w \in Windows, Deliver(w)
  PROVE  /\ call[w].phase = "rows" /\ (Continues(w) \/ Registers(w))
         /\ UNCHANGED <<log, stored, speech, stdin, prompts, up, win, gaps>>
<1>1. call[w] \in Calls /\ inbox[w] \in Seq(Events)
  BY TypeParts DEF InboxType
<1> DEFINE c == call[w]
           some == c.upto > c.pos \/ c.pos = 0
           last == c.upto - c.pos < BatchSize
           q == inbox[w]
           rows == IF some THEN <<Batch(c)>> ELSE <<>>
           tail == IF last THEN <<Joined>> ELSE <<>>
<1>2. /\ c.phase = "rows"
      /\ inbox' = [inbox EXCEPT ![w] = (q \o rows) \o tail]
      /\ IF last
         THEN /\ call' = [call EXCEPT ![w] = NoCall]
              /\ members' = members \cup {w}
              /\ past' = [past EXCEPT ![w].missed = (c.upto + 1)..Len(log)]
         ELSE /\ call' = [call EXCEPT ![w].phase = "read", ![w].pos = c.upto]
              /\ UNCHANGED <<members, past>>
      /\ UNCHANGED <<log, stored, speech, stdin, prompts, up, win, gaps>>
  BY DEF Deliver, Batch, Joined
<1>3. c.pos \in Nat /\ c.upto \in Nat /\ BatchSize \in Nat /\ BatchSize # 0
  BY <1>1, CallIs, Constants
<1>4. Batch(c) \in Events /\ Joined \in Events
  BY <1>1, BatchType
<1>5. \A x \in Events, s \in Seq(Events) :
        s \o <<x>> = Append(s, x) /\ s \o <<>> = s /\ Append(s, x) \in Seq(Events)
  BY AppendIsConcat, ConcatEmptySeq, Appended
<1>6. CASE ~last
  <2>1. some
    BY <1>3, <1>6
  <2>2. (q \o rows) \o tail = Append(q, Batch(c))
    BY <1>1, <1>4, <1>5, <1>6, <2>1
  <2>3. call' = [call EXCEPT ![w] = [call[w] EXCEPT !.phase = "read", !.pos = call[w].upto]]
    BY <1>2, <1>6, TypeParts
  <2>4. c.upto - c.pos >= BatchSize
    BY <1>3, <1>6
  <2>5. Continues(w)
    BY <1>2, <1>6, <2>2, <2>3, <2>4 DEF Continues
  <2> QED BY <1>2, <2>5
<1>7. CASE last /\ some
  <2>1. (q \o rows) \o tail = Append(Append(q, Batch(c)), Joined)
    BY <1>1, <1>4, <1>5, <1>7
  <2>2. Registers(w)
    BY <1>2, <1>7, <2>1 DEF Registers
  <2> QED BY <1>2, <2>2
<1>8. CASE last /\ ~some
  <2>1. (q \o rows) \o tail = Append(q, Joined)
    BY <1>1, <1>4, <1>5, <1>8
  <2>2. c.upto <= c.pos /\ c.pos # 0
    BY <1>3, <1>8
  <2>3. Registers(w)
    BY <1>2, <1>8, <2>1, <2>2 DEF Registers
  <2> QED BY <1>2, <2>3
<1> QED BY <1>6, <1>7, <1>8

LEMMA DeliverType ==
  ASSUME TypeOK, NEW w \in Windows, Deliver(w)
  PROVE  TypeOK'
<1>1. QueuesType /\ InboxType /\ WindowType /\ call \in [Windows -> Calls]
  BY TypeParts
<1>2. /\ Continues(w) \/ Registers(w)
      /\ UNCHANGED <<log, stored, speech, stdin, prompts, up, win, gaps>>
  BY DeliverIs
<1>3. call[w] \in Calls /\ inbox[w] \in Seq(Events) /\ past[w] \in Histories
  BY <1>1 DEF InboxType, WindowType
<1>4. Batch(call[w]) \in Events /\ Joined \in Events
  BY <1>3, BatchType
<1>5. \A x \in Events, s \in Seq(Events) : Append(s, x) \in Seq(Events)
  BY Appended
<1>6. QueuesType'
  BY <1>1, <1>2 DEF QueuesType
<1>7. CASE Continues(w)
  <2> DEFINE c == [call[w] EXCEPT !.phase = "read", !.pos = call[w].upto]
             q == Append(inbox[w], Batch(call[w]))
  <2>1. /\ call' = [call EXCEPT ![w] = c] /\ inbox' = [inbox EXCEPT ![w] = q]
        /\ UNCHANGED <<members, past>>
    BY <1>7 DEF Continues
  <2>2. c \in Calls
    BY <1>3 DEF Calls
  <2>3. q \in Seq(Events)
    BY <1>3, <1>4, <1>5
  <2> HIDE DEF c, q
  <2>4. InboxType' /\ WindowType'
    BY <1>1, <1>2, <2>1, <2>3 DEF InboxType, WindowType
  <2> QED BY <1>2, <1>6, <2>1, <2>2, <2>4, CallType
<1>8. CASE Registers(w)
  <2>1. NoCall \in Calls /\ Len(log) \in Nat /\ call[w].upto \in Nat
    BY <1>3, CallIs
  <2> DEFINE h == [past[w] EXCEPT !.missed = (call[w].upto + 1)..Len(log)]
  <2>2. h \in Histories
    <3>1. (call[w].upto + 1)..Len(log) \subseteq Nat
      BY <2>1
    <3> QED BY <1>3, <3>1 DEF Histories
  <2>3. /\ call' = [call EXCEPT ![w] = NoCall] /\ members' = members \cup {w}
        /\ past' = [past EXCEPT ![w] = h]
    BY <1>8 DEF Registers
  <2> HIDE DEF h
  <2>4. PICK q \in Seq(Events) : inbox' = [inbox EXCEPT ![w] = q]
    BY <1>3, <1>4, <1>5, <1>8 DEF Registers
  <2>5. InboxType' /\ WindowType'
    BY <1>1, <1>2, <2>2, <2>3, <2>4 DEF InboxType, WindowType
  <2> QED BY <1>2, <1>6, <2>1, <2>3, <2>5, CallType
<1> QED BY <1>2, <1>7, <1>8

\* A window takes the first event of its inbox.
Received(w, e) ==
  /\ inbox[w] # <<>> /\ e = Head(inbox[w])
  /\ inbox' = [inbox EXCEPT ![w] = Tail(inbox[w])]
  /\ UNCHANGED <<log, stored, speech, stdin, prompts, up, members, gaps>>

\* The rows of a batch that are applied, and the replay they belong to.
Skipped(v, e) == (v.replay # 0 /\ v.replay # e.round) \/ (v.replay = 0 /\ v.msgs # <<>>)
\* The rows of a batch that are applied, and the replay they belong to.
Applied(v, e) == IF Skipped(v, e) THEN {} ELSE e.rows
ReplayOf(v, e) == IF v.replay = 0 THEN e.round ELSE v.replay

\* What a window does with the first event of its inbox.
LEMMA ReceiveIs ==
  ASSUME NEW w \in Windows, Receive(w)
  PROVE  LET e == Head(inbox[w])
         IN /\ Received(w, e)
            /\ \/ ReceiveStream(w, e) \/ ReceiveLine(w, e) \/ ReceiveHistory(w, e)
               \/ ReceiveJoined(w, e) \/ ReceiveRefresh(w, e)
BY DEF Receive, Received

LEMMA ReceiveHistoryIs ==
  ASSUME NEW w \in Windows, NEW e, ReceiveHistory(w, e), win \in [Windows -> Views]
  PROVE  LET y == Replayed(win[w], Applied(win[w], e))
         IN /\ e.type = "history" /\ call' = call
            /\ win' = [win EXCEPT ![w] = [y EXCEPT !.replay = ReplayOf(win[w], e)]]
            /\ past' = [past EXCEPT ![w].given = @ \cup Applied(win[w], e)]
<1> DEFINE first == win[w].replay = 0
           skipped == (~first /\ win[w].replay # e.round) \/ (first /\ win[w].msgs # <<>>)
           rows == IF skipped THEN {} ELSE e.rows
           r == IF first THEN e.round ELSE win[w].replay
           x == [Replayed(win[w], rows) EXCEPT !.replay = r]
<1>1. rows = Applied(win[w], e) /\ r = ReplayOf(win[w], e)
  BY DEF Applied, Skipped, ReplayOf
<1>2. /\ e.type = "history" /\ call' = call
      /\ win' = [win EXCEPT ![w] = x]
      /\ past' = [past EXCEPT ![w].given = @ \cup rows]
  BY DEF ReceiveHistory
<1> HIDE DEF rows, r
<1> QED BY <1>1, <1>2 DEF x

\* The inbox without its first event.
LEMMA TakenEvent ==
  ASSUME TypeOK, NEW w \in Windows, NEW e, Received(w, e)
  PROVE  /\ e \in Events /\ inbox[w] \in Seq(Events) /\ Tail(inbox[w]) \in Seq(Events)
         /\ inbox' \in [Windows -> Seq(Events)] /\ inbox'[w] = Tail(inbox[w])
         /\ \A u \in Windows : u # w => inbox'[u] = inbox[u]
         /\ e = inbox[w][1] /\ 1 \in DOMAIN inbox[w]
         /\ \A i \in DOMAIN inbox'[w] : i + 1 \in DOMAIN inbox[w] /\ inbox'[w][i] = inbox[w][i + 1]
                                        /\ i + 1 # 1
         /\ Len(inbox'[w]) = Len(inbox[w]) - 1
<1>1. inbox \in [Windows -> Seq(Events)]
  BY TypeParts DEF InboxType
<1>2. /\ inbox[w] # <<>> /\ e = Head(inbox[w])
      /\ inbox' = [inbox EXCEPT ![w] = Tail(inbox[w])]
  BY DEF Received
<1> DEFINE q == inbox[w]
<1>3. q \in Seq(Events) /\ q # <<>>
  BY <1>1, <1>2
<1> HIDE DEF q
<1>4. /\ Head(q) \in Events /\ Tail(q) \in Seq(Events) /\ Head(q) = q[1] /\ 1 \in DOMAIN q
      /\ \A i \in DOMAIN Tail(q) : i + 1 \in DOMAIN q /\ Tail(q)[i] = q[i + 1] /\ i + 1 # 1
      /\ Len(Tail(q)) = Len(q) - 1
  BY <1>3
<1> QED BY <1>1, <1>2, <1>3, <1>4 DEF q

LEMMA ReceiveType ==
  ASSUME TypeOK, RefsInv, RoundsInv, NEW w \in Windows, Receive(w)
  PROVE  TypeOK'
<1> DEFINE e == Head(inbox[w])
           v == win[w]
<1>1. QueuesType /\ InboxType /\ WindowType /\ call \in [Windows -> Calls] /\ LogType /\ BoundsType
  BY TypeParts
<1>2. Received(w, e)
  BY ReceiveIs
<1>3. e \in Events /\ inbox' \in [Windows -> Seq(Events)]
  BY <1>2, TakenEvent
<1>4. v \in Views /\ past[w] \in Histories /\ call[w] \in Calls
  BY <1>1 DEF WindowType
<1>5. UNCHANGED <<log, stored, speech, stdin, prompts, up, members, gaps>>
  BY <1>2 DEF Received
<1>6. QueuesType' /\ InboxType' /\ PromptsType
  BY <1>1, <1>3, <1>5, BoundsGivePrompts DEF QueuesType, InboxType
<1>7. log \in Seq(Lines) /\ \A n \in DOMAIN log : LineKnown(log[n])
  BY <1>1 DEF LogType, RefsInv
<1> HIDE DEF e, v
<1>8. ASSUME NEW x \in Views, NEW h \in Histories, NEW c \in Calls,
             win' = [win EXCEPT ![w] = x], past' = [past EXCEPT ![w] = h],
             call' = [call EXCEPT ![w] = c]
      PROVE  TypeOK'
  <2>1. WindowType'
    BY <1>1, <1>8 DEF WindowType
  <2> QED BY <1>5, <1>6, <1>8, <2>1, CallType
<1>9. ASSUME call' = call PROVE call' = [call EXCEPT ![w] = call[w]]
  BY <1>1, <1>9
<1>10. CASE ReceiveStream(w, e)
  <2> DEFINE h == [past[w] EXCEPT !.cut = @ \/ Cuts(win[w], e)]
  <2>1. /\ e.type \in {"start", "block", "chunk", "stop", "end"} /\ call' = call
        /\ win' = [win EXCEPT ![w] = Streamed(v, e)] /\ past' = [past EXCEPT ![w] = h]
    BY <1>10 DEF ReceiveStream, v
  <2>2. e \in StreamEvents
    BY <1>3, <2>1, EventKinds
  <2>3. Streamed(v, e) \in Views
    BY <1>4, <2>2, StreamedReduces DEF Reduces
  <2>4. h \in Histories
    BY <1>4 DEF Histories
  <2> HIDE DEF h
  <2> QED BY <1>4, <1>8, <1>9, <2>1, <2>3, <2>4
<1>11. CASE ReceiveLine(w, e)
  <2> DEFINE h == [past[w] EXCEPT !.given = @ \cup {e.n}, !.taken = @ \/ Takes(w, log[e.n])]
  <2>1. /\ e.type = "line" /\ call' = call
        /\ win' = [win EXCEPT ![w] = Reduced(v, log[e.n])] /\ past' = [past EXCEPT ![w] = h]
    BY <1>11 DEF ReceiveLine, v
  <2>2. e.n \in Nat /\ e.n \in DOMAIN log
    <3>1. LinesOf(e) = {e.n}
      BY <2>1 DEF LinesOf
    <3>2. LinesOf(e) \subseteq DOMAIN log
      BY <1>2, TakenEvent DEF RefsInv, RefsOf
    <3> QED BY <1>3, <2>1, <3>1, <3>2, EventKinds
  <2>3. log[e.n] \in Lines /\ LineKnown(log[e.n])
    BY <1>7, <2>2
  <2>4. Reduced(v, log[e.n]) \in Views
    BY <1>4, <1>6, <2>3, ReducedReduces DEF Reduces
  <2>5. h \in Histories
    <3>1. {e.n} \subseteq Nat
      BY <2>2
    <3> QED BY <1>4, <3>1 DEF Histories
  <2> HIDE DEF h
  <2> QED BY <1>4, <1>8, <1>9, <2>1, <2>4, <2>5
<1>12. CASE ReceiveHistory(w, e)
  <2> DEFINE y == Replayed(v, Applied(v, e))
             r == ReplayOf(v, e)
             x == [y EXCEPT !.replay = r]
             h == [past[w] EXCEPT !.given = @ \cup Applied(v, e)]
  <2>1. /\ e.type = "history" /\ call' = call
        /\ win' = [win EXCEPT ![w] = x] /\ past' = [past EXCEPT ![w] = h]
    BY <1>1, <1>12, ReceiveHistoryIs DEF v, WindowType
  <2>2. e.rows \subseteq Nat /\ e.round \in Rounds
    BY <1>3, <2>1, EventKinds
  <2>3. y \in Views
    BY <1>4, <1>6, <1>7, ReplayedReduces DEF Reduces
  <2>4. r \in Rounds /\ Applied(v, e) \subseteq Nat
    <3>1. v.replay \in Rounds
      BY <1>4 DEF Views
    <3> QED BY <2>2, <3>1 DEF Applied, ReplayOf
  <2>5. x \in Views
    <3> HIDE DEF y, r
    <3> QED BY <2>3, <2>4 DEF Views
  <2>6. h \in Histories
    BY <1>4, <2>4 DEF Histories
  <2> HIDE DEF x, h
  <2> QED BY <1>4, <1>8, <1>9, <2>1, <2>5, <2>6
<1>13. CASE ReceiveJoined(w, e)
  <2> DEFINE x == [v EXCEPT !.ready = TRUE]
             h == [past[w] EXCEPT !.lossy = @ /\ past[w].disturbed]
  <2>1. /\ call' = call
        /\ win' = [win EXCEPT ![w] = x] /\ past' = [past EXCEPT ![w] = h]
    BY <1>13 DEF ReceiveJoined, v
  <2>2. x \in Views
    BY <1>4 DEF Views
  <2>3. h \in Histories
    BY <1>4 DEF Histories
  <2> HIDE DEF x, h
  <2> QED BY <1>4, <1>8, <1>9, <2>1, <2>2, <2>3
<1>14. CASE ReceiveRefresh(w, e)
  <2> DEFINE x == [v EXCEPT !.msgs = <<>>, !.replay = 0, !.round = @ + 1]
             h == [past[w] EXCEPT !.typed = {}, !.given = {}, !.taken = FALSE, !.cut = FALSE]
             c == [NoCall EXCEPT !.phase = "echo", !.round = v.round + 1]
  <2>1. /\ e.type = "refresh" /\ call' = [call EXCEPT ![w] = c]
        /\ win' = [win EXCEPT ![w] = x] /\ past' = [past EXCEPT ![w] = h]
    BY <1>14 DEF ReceiveRefresh, Joining, v
  <2>2. v.round + 1 \in Rounds
    <3>1. Gapped(w)
      BY <1>2, <2>1 DEF Gapped, Received
    <3>2. v.round + 1 <= gaps + 1
      BY <3>1 DEF RoundsInv, RoundsOf, v
    <3>3. v.round \in Rounds /\ gaps \in Nat /\ gaps + Len(prompts) <= MaxInputs /\ Len(prompts) \in Nat
      BY <1>1, <1>4 DEF Views, BoundsType
    <3>4. v.round \in Nat /\ gaps <= MaxInputs
      BY <3>3, Constants DEF Rounds
    <3> QED BY <3>2, <3>3, <3>4, Constants DEF Rounds
  <2>3. x \in Views
    <3>1. <<>> \in Seq(Messages)
      OBVIOUS
    <3> QED BY <1>4, <2>2, <3>1, Constants DEF Views
  <2>4. h \in Histories
    BY <1>4 DEF Histories
  <2>5. c \in Calls
    BY <2>2, CallIs
  <2> HIDE DEF x, h, c
  <2> QED BY <1>8, <2>1, <2>3, <2>4, <2>5
<1> QED BY <1>10, <1>11, <1>12, <1>13, <1>14, ReceiveIs DEF e

LEMMA TypeType ==
  ASSUME TypeOK, NEW w \in Windows, NEW text \in Texts, Type(w, text)
  PROVE  TypeOK'
<1> DEFINE p == Len(prompts) + 1
           m == UserMessage(text, 0)
           x == [win[w] EXCEPT !.msgs = Append(@, m)]
           h == [past[w] EXCEPT !.typed = @ \cup {p}, !.disturbed = past[w].lossy]
           r == [text |-> text, by |-> w]
<1>1. /\ LogType /\ speech \in States /\ QueuesType /\ BoundsType /\ InboxType
      /\ call \in [Windows -> Calls] /\ WindowType
  BY TypeParts
<1>2. /\ p + gaps <= MaxInputs /\ prompts' = Append(prompts, r)
      /\ win' = [win EXCEPT ![w] = x] /\ past' = [past EXCEPT ![w] = h]
      /\ \/ \E i \in 1..(Len(up[w]) + 1) : up' = [up EXCEPT ![w] = InsertAt(@, i, p)]
         \/ UNCHANGED up
      /\ UNCHANGED <<log, stored, speech, stdin, inbox, members, call, gaps>>
  BY DEF Type
<1>3. /\ prompts \in Seq([text : Texts, by : Windows]) /\ Len(prompts) \in Nat /\ gaps \in Nat
      /\ MaxInputs \in Nat
  BY <1>1, Constants DEF BoundsType
<1>4. p \in PromptIds /\ p + gaps <= MaxInputs
  BY <1>2, <1>3 DEF PromptIds
<1>5. BoundsType'
  <2>1. r \in [text : Texts, by : Windows]
    OBVIOUS
  <2> HIDE DEF r
  <2>2. prompts' \in Seq([text : Texts, by : Windows]) /\ Len(prompts') = Len(prompts) + 1
    BY <1>2, <1>3, <2>1, Appended
  <2> QED BY <1>2, <1>3, <2>2 DEF BoundsType
<1>6. QueuesType'
  <2> HIDE DEF p
  <2>1. stdin \in Seq(PromptIds) /\ up \in [Windows -> Seq(PromptIds)]
    BY <1>1 DEF QueuesType
  <2>2. ASSUME NEW i \in 1..(Len(up[w]) + 1) PROVE InsertAt(up[w], i, p) \in Seq(PromptIds)
    BY <1>4, <2>1, Inserted
  <2>3. \/ \E i \in 1..(Len(up[w]) + 1) : up' = [up EXCEPT ![w] = InsertAt(up[w], i, p)]
        \/ up' = up
    BY <1>2, <2>1
  <2>4. up' \in [Windows -> Seq(PromptIds)]
    BY <2>1, <2>2, <2>3
  <2> QED BY <1>2, <2>1, <2>4 DEF QueuesType
<1>7. x \in Views /\ h \in Histories
  <2>1. win[w] \in Views /\ past[w] \in Histories
    BY <1>1 DEF WindowType
  <2>2. m \in Messages
    BY Constants, MessageKinds
  <2>3. win[w].msgs \in Seq(Messages)
    BY <2>1 DEF Views
  <2>4. Append(win[w].msgs, m) \in Seq(Messages)
    <3> HIDE DEF m
    <3> QED BY <2>2, <2>3, Appended
  <2>5. x \in Views
    <3> DEFINE ms == Append(win[w].msgs, m)
    <3>1. x = [win[w] EXCEPT !.msgs = ms]
      BY <2>1
    <3> HIDE DEF ms, x
    <3> QED BY <2>1, <2>4, <3>1, MessagesReduced DEF ms, Reduces
  <2>6. h \in Histories
    BY <1>4, <2>1 DEF Histories
  <2> QED BY <2>5, <2>6
<1>8. WindowType' /\ InboxType' /\ LogType' /\ speech' \in States
  <2> HIDE DEF x, h
  <2> QED BY <1>1, <1>2, <1>7 DEF WindowType, InboxType, LogType
<1>9. call' \in [Windows -> Calls']
  BY <1>1, <1>2 DEF Calls
<1> QED BY <1>5, <1>6, <1>8, <1>9, TypePartsNext

LEMMA GapType ==
  ASSUME TypeOK, NEW w \in Windows, Gap(w)
  PROVE  TypeOK'
<1> DEFINE h == [past[w] EXCEPT !.lossy = TRUE, !.disturbed = FALSE]
           q == <<[type |-> "refresh"]>>
<1>1. /\ LogType /\ speech \in States /\ QueuesType /\ BoundsType /\ InboxType
      /\ call \in [Windows -> Calls] /\ WindowType
  BY TypeParts
<1>2. /\ gaps + Len(prompts) < MaxInputs /\ gaps' = gaps + 1
      /\ inbox' = [inbox EXCEPT ![w] = q] /\ past' = [past EXCEPT ![w] = h]
      /\ UNCHANGED <<log, stored, speech, stdin, prompts, up, members, call, win>>
  BY DEF Gap
<1>3. BoundsType'
  <2>1. /\ prompts \in Seq([text : Texts, by : Windows]) /\ gaps \in Nat /\ Len(prompts) \in Nat
    BY <1>1 DEF BoundsType
  <2>2. gaps' \in Nat /\ gaps' + Len(prompts) <= MaxInputs
    BY <1>2, <2>1, Constants
  <2> QED BY <1>2, <2>1, <2>2 DEF BoundsType
<1>4. h \in Histories
  BY <1>1 DEF WindowType, Histories
<1>5. q \in Seq(Events)
  BY EventKinds, Single
<1>6. WindowType' /\ InboxType' /\ LogType' /\ QueuesType' /\ speech' \in States
  <2> HIDE DEF q, h
  <2> QED BY <1>1, <1>2, <1>4, <1>5 DEF WindowType, InboxType, LogType, QueuesType
<1>7. call' \in [Windows -> Calls']
  BY <1>1, <1>2 DEF Calls
<1> QED BY <1>3, <1>6, <1>7, TypePartsNext

LEMMA StutterType ==
  ASSUME TypeOK, UNCHANGED vars
  PROVE  TypeOK'
BY DEF TypeOK, vars

\* Every step keeps the types.
LEMMA TypeNext ==
  ASSUME TypeOK, RefsInv, RoundsInv, [Next]_vars
  PROVE  TypeOK'
<1>1. ASSUME Speak PROVE TypeOK'
  BY <1>1, SpeakIs, SpeakStreamType, SpeakLineType
<1> QED BY <1>1, StoreType, HandleSendType, JoinType, AskEchoType, ReadType, DeliverType,
           ReceiveType, GapType, TypeType, StutterType DEF Next

-----------------------------------------------------------------------------
(* Rounds *)

\* What is sent to a window is not a refresh.
LEMMA NoRefreshSent ==
  ASSUME NEW q \in Seq(Events), NEW e \in Events, e.type # "refresh"
  PROVE  LET r == Append(q, e)
         IN /\ r # <<>> /\ (Head(r).type = "refresh" <=> q # <<>> /\ Head(q).type = "refresh")
            /\ (\A i \in DOMAIN q : q[i].type = "refresh" => i = 1) =>
               \A i \in DOMAIN r : r[i].type = "refresh" => i = 1
<1> DEFINE r == Append(q, e)
<1>1. /\ r \in Seq(Events) /\ r # <<>> /\ Head(r) = r[1] /\ Len(q) \in Nat
      /\ r[Len(q) + 1] = e /\ \A j \in DOMAIN q : r[j] = q[j]
      /\ \A j \in DOMAIN r : j = Len(q) + 1 \/ j \in DOMAIN q
  OBVIOUS
<1>2. CASE q = <<>>
  <2>1. Head(r) = e
    BY <1>1, <1>2
  <2> HIDE DEF r
  <2> QED BY <1>1, <1>2, <2>1
<1>3. CASE q # <<>>
  <2>1. 1 \in DOMAIN q /\ Head(q) = q[1]
    BY <1>3
  <2> HIDE DEF r
  <2> QED BY <1>1, <1>3, <2>1
<1> QED BY <1>2, <1>3

\* What is the same of a window after a step that is not about it.
Same(u) ==
  /\ inbox'[u] = inbox[u] /\ call'[u] = call[u] /\ win'[u] = win[u] /\ past'[u] = past[u]
  /\ (u \in members' <=> u \in members)

\* Steps that leave the rounds of a window alone.
LEMMA RoundsSame ==
  ASSUME NEW u, Same(u), gaps' = gaps, RoundsOf(u)
  PROVE  RoundsOf(u)'
BY DEF Same, RoundsOf, Gapped

LEMMA RoundsSent ==
  ASSUME TypeOK, NEW u \in Windows, NEW e \in Events, e.type # "refresh", RoundsOf(u),
         inbox'[u] = Append(inbox[u], e), win'[u].round = win[u].round, gaps' = gaps,
         call'[u] = call[u], win[u].round # 0
  PROVE  RoundsOf(u)'
<1>1. inbox[u] \in Seq(Events)
  BY TypeParts DEF InboxType
<1>2. /\ Gapped(u)' <=> Gapped(u)
      /\ \A i \in DOMAIN inbox'[u] : inbox'[u][i].type = "refresh" => i = 1
  BY <1>1, NoRefreshSent DEF Gapped, RoundsOf
<1> HIDE DEF Gapped
<1> QED BY <1>2 DEF RoundsOf

\* The windows an event is sent to have joined.
LEMMA RoundsSendTo ==
  ASSUME TypeOK, RoundsInv, NEW ws, ws \subseteq members, NEW e \in Events, e.type # "refresh", SendTo(ws, e),
         UNCHANGED <<members, call, win, gaps>>
  PROVE  RoundsInv'
<1> SUFFICES ASSUME NEW u \in Windows PROVE RoundsOf(u)'
  BY DEF RoundsInv
<1>1. RoundsOf(u)
  BY DEF RoundsInv
<1>2. inbox'[u] = IF u \in ws THEN Append(inbox[u], e) ELSE inbox[u]
  BY TypeParts, SendToIs
<1>3. CASE u \in ws
  <2>1. win[u].round # 0
    BY <1>1, <1>3 DEF RoundsOf
  <2> QED BY <1>1, <1>2, <1>3, <2>1, RoundsSent
<1>4. CASE u \notin ws
  BY <1>1, <1>2, <1>4 DEF RoundsOf, Gapped
<1> QED BY <1>3, <1>4

LEMMA RoundsOfOne ==
  ASSUME RoundsInv, NEW w \in Windows, gaps' = gaps, \A u \in Windows \ {w} : Same(u), RoundsOf(w)'
  PROVE  RoundsInv'
<1>1. ASSUME NEW u \in Windows PROVE RoundsOf(u)'
  <2>1. CASE u = w
    BY <2>1
  <2>2. CASE u # w
    BY <2>2, RoundsSame DEF RoundsInv
  <2> QED BY <2>1, <2>2
<1> QED BY <1>1 DEF RoundsInv

\* The state of one window.
LEMMA ViewIs ==
  ASSUME TypeOK, NEW w \in Windows
  PROVE  /\ win[w] \in Views /\ win[w].msgs \in Seq(Messages) /\ win[w].tool \in 0..MaxBlocks
         /\ win[w].replay \in Rounds /\ win[w].round \in Rounds /\ win[w].ready \in BOOLEAN
         /\ win[w].round \in Nat /\ win[w].replay \in Nat /\ win[w].tool \in Nat
         /\ call[w] \in Calls /\ past[w] \in Histories /\ inbox[w] \in Seq(Events)
         /\ DOMAIN win = Windows /\ DOMAIN call = Windows /\ DOMAIN past = Windows
         /\ DOMAIN inbox = Windows /\ gaps \in Nat
<1>1. /\ win \in [Windows -> Views] /\ past \in [Windows -> Histories]
      /\ call \in [Windows -> Calls] /\ inbox \in [Windows -> Seq(Events)] /\ gaps \in Nat
  BY TypeParts DEF InboxType, WindowType, BoundsType
<1>2. win[w] \in Views /\ past[w] \in Histories /\ call[w] \in Calls /\ inbox[w] \in Seq(Events)
  BY <1>1
<1>3. /\ win[w].msgs \in Seq(Messages) /\ win[w].tool \in 0..MaxBlocks
      /\ win[w].replay \in Rounds /\ win[w].round \in Rounds /\ win[w].ready \in BOOLEAN
  BY <1>2 DEF Views
<1>4. (\A x \in Rounds : x \in Nat) /\ \A x \in 0..MaxBlocks : x \in Nat
  BY Constants DEF Rounds
<1> QED BY <1>1, <1>2, <1>3, <1>4

\* Every step keeps the count of the rounds.
LEMMA RoundsNext ==
  ASSUME TypeOK, RefsInv, RoundsInv, [Next]_vars
  PROVE  RoundsInv'
<1>1. ASSUME NEW e \in StreamEvents, SpeakStream(e) PROVE RoundsInv'
  <2>1. e \in Events /\ e.type # "refresh"
    BY EventsSent, StreamEventIs
  <2> QED BY <1>1, <2>1, RoundsSendTo DEF SpeakStream
<1>2. ASSUME NEW line \in Lines, SpeakLine(line) PROVE RoundsInv'
  <2> DEFINE e == TheLine(Len(log) + 1)
  <2>1. e \in Events /\ e.type # "refresh"
    BY EventsSent DEF TheLine
  <2>2. SendTo(members, e) /\ UNCHANGED <<members, call, win, gaps>>
    BY <1>2 DEF SpeakLine
  <2> HIDE DEF e
  <2> QED BY <2>1, <2>2, RoundsSendTo
<1>3. ASSUME Store PROVE RoundsInv'
  BY <1>3 DEF Store, RoundsInv, RoundsOf, Gapped
<1>4. ASSUME NEW w \in Windows, HandleSend(w) PROVE RoundsInv'
  <2> DEFINE e == TheLine(Len(log) + 1)
  <2>1. e \in Events /\ e.type # "refresh"
    BY EventsSent DEF TheLine
  <2>2. SendTo(Others(w), e) /\ UNCHANGED <<members, call, win, gaps>> /\ Others(w) \subseteq members
    BY <1>4, HandleSendIs DEF Others
  <2> HIDE DEF e
  <2> QED BY <2>1, <2>2, RoundsSendTo
<1>5. ASSUME NEW w \in Windows, Join(w) PROVE RoundsInv'
  <2>1. /\ win[w].round = 0 /\ call' = [call EXCEPT ![w] = [NoCall EXCEPT !.phase = "echo", !.round = 1]]
        /\ win' = [win EXCEPT ![w].round = 1] /\ UNCHANGED <<inbox, members, gaps, past>>
    BY <1>5 DEF Join, Joining
  <2>2. \A u \in Windows \ {w} : Same(u)
    BY <2>1, ViewIs DEF Same
  <2>3. /\ win'[w].round = 1 /\ call'[w].phase = "echo" /\ inbox'[w] = <<>> /\ gaps \in Nat
    BY <2>1, ViewIs DEF RoundsInv, RoundsOf, NoCall, Views
  <2>4. RoundsOf(w)'
    BY <2>1, <2>3 DEF RoundsOf, Gapped
  <2> QED BY <2>1, <2>2, <2>4, RoundsOfOne
<1>6. ASSUME NEW w \in Windows, AskEcho(w) \/ Read(w) PROVE RoundsInv'
  <2>1. /\ call[w].phase # "none" /\ \A u \in Windows \ {w} : call'[u] = call[u]
        /\ call'[w].phase # "none" /\ UNCHANGED <<inbox, members, win, gaps, past>>
    BY <1>6, ViewIs DEF AskEcho, Read, Calls
  <2>2. \A u \in Windows \ {w} : Same(u)
    BY <2>1 DEF Same
  <2>3. RoundsOf(w)'
    BY <2>1 DEF RoundsInv, RoundsOf, Gapped
  <2> QED BY <2>1, <2>2, <2>3, RoundsOfOne
<1>7. ASSUME NEW w \in Windows, Deliver(w) PROVE RoundsInv'
  <2>1. /\ Continues(w) \/ Registers(w)
        /\ UNCHANGED <<win, gaps>>
    BY <1>7, DeliverIs
  <2>2. call[w].phase = "rows"
    BY <1>7, DeliverIs
  <2>3. win[w].round # 0 /\ ~Gapped(w) /\ \A i \in DOMAIN inbox[w] : inbox[w][i].type = "refresh" => i = 1
    BY <2>2 DEF RoundsInv, RoundsOf
  <2>4. inbox[w] \in Seq(Events) /\ Batch(call[w]) \in Events /\ Joined \in Events
        /\ Batch(call[w]).type # "refresh" /\ Joined.type # "refresh"
    BY ViewIs, BatchType
  <2>5. PICK q \in Seq(Events) : /\ inbox' = [inbox EXCEPT ![w] = q]
                                 /\ ~(q # <<>> /\ Head(q).type = "refresh")
                                 /\ \A i \in DOMAIN q : q[i].type = "refresh" => i = 1
    <3> DEFINE r == Append(inbox[w], Batch(call[w]))
    <3>1. r \in Seq(Events) /\ ~(r # <<>> /\ Head(r).type = "refresh")
          /\ \A i \in DOMAIN r : r[i].type = "refresh" => i = 1
      BY <2>3, <2>4, Appended, NoRefreshSent DEF Gapped
    <3> DEFINE s == Append(inbox[w], Joined)
    <3>2. s \in Seq(Events) /\ ~(s # <<>> /\ Head(s).type = "refresh")
          /\ \A i \in DOMAIN s : s[i].type = "refresh" => i = 1
      BY <2>3, <2>4, Appended, NoRefreshSent DEF Gapped
    <3> HIDE DEF r
    <3> DEFINE z == Append(r, Joined)
    <3>3. z \in Seq(Events) /\ ~(z # <<>> /\ Head(z).type = "refresh")
          /\ \A i \in DOMAIN z : z[i].type = "refresh" => i = 1
      BY <3>1, <2>4, Appended, NoRefreshSent
    <3>4. inbox' = [inbox EXCEPT ![w] = r] \/ inbox' = [inbox EXCEPT ![w] = s]
          \/ inbox' = [inbox EXCEPT ![w] = z]
      BY <2>1 DEF Continues, Registers, r
    <3> HIDE DEF s, z
    <3> QED BY <3>1, <3>2, <3>3, <3>4
  <2>6. \A u \in Windows \ {w} : Same(u)
    BY <2>1, <2>5, ViewIs DEF Same, Continues, Registers
  <2>7. (call'[w].phase = "none" => call'[w] = NoCall) /\ inbox'[w] = q
    BY <2>1, <2>5, ViewIs DEF Continues, Registers, Calls
  <2>8. RoundsOf(w)'
    <3>1. ~Gapped(w)'
      BY <2>5, <2>7 DEF Gapped
    <3> QED BY <2>1, <2>3, <2>5, <2>7, <3>1 DEF RoundsInv, RoundsOf
  <2> QED BY <2>1, <2>6, <2>8, RoundsOfOne
<1>8. ASSUME NEW w \in Windows, Receive(w) PROVE RoundsInv'
  <2> DEFINE e == Head(inbox[w])
  <2>1. Received(w, e)
    BY <1>8, ReceiveIs
  <2>2. /\ \A i \in DOMAIN inbox'[w] : i + 1 \in DOMAIN inbox[w] /\ inbox'[w][i] = inbox[w][i + 1] /\ i + 1 # 1
        /\ \A u \in Windows : u # w => inbox'[u] = inbox[u]
        /\ inbox'[w] \in Seq(Events)
    BY <2>1, TakenEvent
  <2>3. \A i \in DOMAIN inbox'[w] : inbox'[w][i].type # "refresh"
    BY <2>2 DEF RoundsInv, RoundsOf
  <2>4. ~Gapped(w)'
    <3>1. inbox'[w] # <<>> => 1 \in DOMAIN inbox'[w] /\ Head(inbox'[w]) = inbox'[w][1]
      BY <2>2
    <3> QED BY <2>3, <3>1 DEF Gapped
  <2>5. UNCHANGED <<members, gaps>> /\ inbox[w] # <<>>
    BY <2>1 DEF Received
  <2>6. win[w].round # 0 /\ win[w].round <= gaps + 1 /\ (Gapped(w) => win[w].round + 1 <= gaps + 1)
    BY <2>5 DEF RoundsInv, RoundsOf
  <2> HIDE DEF e
  <2>7. CASE ReceiveRefresh(w, e)
    <3>1. /\ call' = [call EXCEPT ![w] = [NoCall EXCEPT !.phase = "echo", !.round = win[w].round + 1]]
          /\ win' = [win EXCEPT ![w].msgs = <<>>, ![w].replay = 0, ![w].round = @ + 1]
          /\ past' = [past EXCEPT ![w].typed = {}, ![w].given = {}, ![w].taken = FALSE, ![w].cut = FALSE]
          /\ e.type = "refresh"
      BY <2>7 DEF ReceiveRefresh, Joining
    <3>2. \A u \in Windows \ {w} : Same(u)
      BY <3>1, <2>2, <2>5, ViewIs DEF Same
    <3>3. Gapped(w)
      BY <2>1, <3>1 DEF Gapped, Received
    <3>4. win'[w].round = win[w].round + 1 /\ call'[w].phase = "echo"
      BY <3>1, ViewIs DEF Views, NoCall
    <3>5. RoundsOf(w)'
      BY <2>3, <2>4, <2>5, <2>6, <3>3, <3>4, ViewIs DEF RoundsOf
    <3> QED BY <2>5, <3>2, <3>5, RoundsOfOne
  <2>8. ASSUME call' = call, NEW x, win' = [win EXCEPT ![w] = x], x.round = win[w].round,
               NEW h, past' = [past EXCEPT ![w] = h]
        PROVE  RoundsInv'
    <3>1. \A u \in Windows \ {w} : Same(u)
      BY <2>8, <2>2, <2>5, ViewIs DEF Same
    <3>2. win'[w].round = win[w].round
      BY <2>8, ViewIs
    <3>3. RoundsOf(w)'
      BY <2>3, <2>4, <2>5, <2>6, <2>8, <3>2 DEF RoundsInv, RoundsOf
    <3> QED BY <2>5, <3>1, <3>3, RoundsOfOne
  <2>9. win[w] \in Views /\ e \in Events /\ win \in [Windows -> Views] /\ PromptsType
        /\ log \in Seq(Lines) /\ \A n \in DOMAIN log : LineKnown(log[n])
    BY <2>1, ViewIs, TakenEvent, TypeParts, BoundsGivePrompts DEF WindowType, LogType, RefsInv
  <2>10. CASE ReceiveStream(w, e)
    <3> DEFINE x == Streamed(win[w], e)
               h == [past[w] EXCEPT !.cut = @ \/ Cuts(win[w], e)]
    <3>1. call' = call /\ win' = [win EXCEPT ![w] = x] /\ past' = [past EXCEPT ![w] = h]
          /\ e.type \in {"start", "block", "chunk", "stop", "end"}
      BY <2>10 DEF ReceiveStream
    <3>2. x.round = win[w].round
      <4>1. e \in StreamEvents
        BY <2>9, <3>1, EventKinds
      <4> QED BY <2>9, <4>1, StreamedReduces DEF Reduces
    <3> HIDE DEF x, h
    <3> QED BY <2>8, <3>1, <3>2
  <2>11. CASE ReceiveLine(w, e)
    <3> DEFINE x == Reduced(win[w], log[e.n])
               h == [past[w] EXCEPT !.given = @ \cup {e.n}, !.taken = @ \/ Takes(w, log[e.n])]
    <3>1. call' = call /\ win' = [win EXCEPT ![w] = x] /\ past' = [past EXCEPT ![w] = h]
          /\ e.type = "line"
      BY <2>11 DEF ReceiveLine
    <3>2. x.round = win[w].round
      <4>1. LinesOf(e) = {e.n} /\ LinesOf(e) \subseteq DOMAIN log
        BY <2>1, <3>1, TakenEvent DEF RefsInv, RefsOf, LinesOf
      <4>2. log[e.n] \in Lines /\ LineKnown(log[e.n])
        BY <2>9, <4>1
      <4> QED BY <2>9, <4>2, ReducedReduces DEF Reduces
    <3> HIDE DEF x, h
    <3> QED BY <2>8, <3>1, <3>2
  <2>12. CASE ReceiveHistory(w, e)
    <3> DEFINE y == Replayed(win[w], Applied(win[w], e))
               r == ReplayOf(win[w], e)
               x == [y EXCEPT !.replay = r]
               h == [past[w] EXCEPT !.given = @ \cup Applied(win[w], e)]
    <3>1. call' = call /\ win' = [win EXCEPT ![w] = x] /\ past' = [past EXCEPT ![w] = h]
      BY <2>12, <2>9, ReceiveHistoryIs
    <3>2. x.round = win[w].round
      <4>1. y \in Views /\ y.round = win[w].round
        BY <2>9, ReplayedReduces DEF Reduces
      <4> HIDE DEF y, r
      <4> QED BY <4>1 DEF Views
    <3> HIDE DEF x, h
    <3> QED BY <2>8, <3>1, <3>2
  <2>13. CASE ReceiveJoined(w, e)
    <3> DEFINE x == [win[w] EXCEPT !.ready = TRUE]
               h == [past[w] EXCEPT !.lossy = @ /\ past[w].disturbed]
    <3>1. call' = call /\ win' = [win EXCEPT ![w] = x] /\ past' = [past EXCEPT ![w] = h]
      BY <2>13 DEF ReceiveJoined
    <3>2. x.round = win[w].round
      BY <2>9 DEF Views
    <3> HIDE DEF x, h
    <3> QED BY <2>8, <3>1, <3>2
  <2> QED BY <1>8, <2>7, <2>10, <2>11, <2>12, <2>13, ReceiveIs DEF e
<1>9. ASSUME NEW w \in Windows, NEW text \in Texts, Type(w, text) PROVE RoundsInv'
  <2> DEFINE x == [win[w] EXCEPT !.msgs = Append(@, UserMessage(text, 0))]
             h == [past[w] EXCEPT !.typed = @ \cup {Len(prompts) + 1}, !.disturbed = past[w].lossy]
  <2>1. /\ win' = [win EXCEPT ![w] = x] /\ past' = [past EXCEPT ![w] = h]
        /\ UNCHANGED <<inbox, members, call, gaps>>
    BY <1>9 DEF Type
  <2>2. x.round = win[w].round
    BY ViewIs DEF Views
  <2> HIDE DEF x, h
  <2>3. win'[w].round = win[w].round /\ \A u \in Windows \ {w} : Same(u)
    BY <2>1, <2>2, ViewIs DEF Same
  <2>4. RoundsOf(w)'
    BY <2>1, <2>3 DEF RoundsInv, RoundsOf, Gapped
  <2> QED BY <2>1, <2>3, <2>4, RoundsOfOne
<1>10. ASSUME NEW w \in Windows, Gap(w) PROVE RoundsInv'
  <2>1. /\ inbox' = [inbox EXCEPT ![w] = <<[type |-> "refresh"]>>] /\ w \in members
        /\ call[w] = NoCall /\ gaps' = gaps + 1 /\ UNCHANGED <<members, call, win>>
    BY <1>10 DEF Gap
  <2>2. SUFFICES ASSUME NEW u \in Windows PROVE RoundsOf(u)'
    BY DEF RoundsInv
  <2>3. RoundsOf(u) /\ win[u].round \in Nat /\ gaps \in Nat
    BY ViewIs DEF RoundsInv
  <2>4. CASE u = w
    <3>1. inbox'[w] = <<[type |-> "refresh"]>> /\ DOMAIN inbox'[w] = {1} /\ win[w].round # 0
      BY <2>1, <2>3, <2>4, ViewIs, Single DEF RoundsOf
    <3>2. win[w].round <= gaps + 1
      BY <2>3, <2>4 DEF RoundsOf
    <3>3. call[w].phase = "none"
      BY <2>1 DEF NoCall
    <3> QED BY <2>1, <2>3, <2>4, <3>1, <3>2, <3>3 DEF RoundsOf
  <2>5. CASE u # w
    <3>1. inbox'[u] = inbox[u]
      BY <2>1, <2>5, ViewIs
    <3> QED BY <2>1, <2>3, <3>1 DEF RoundsOf, Gapped
  <2> QED BY <2>4, <2>5
<1>11. ASSUME UNCHANGED vars PROVE RoundsInv'
  BY <1>11 DEF vars, RoundsInv, RoundsOf, Gapped
<1>12. ASSUME Speak PROVE RoundsInv'
  BY <1>1, <1>2, <1>12, SpeakIs
<1> QED BY <1>3, <1>4, <1>5, <1>6, <1>7, <1>8, <1>9, <1>10, <1>11, <1>12 DEF Next

-----------------------------------------------------------------------------
(* The log and the prompts are only added to *)

\* Prompts and lines are never changed or removed.
Grows ==
  /\ DOMAIN prompts \subseteq DOMAIN prompts' /\ \A p \in DOMAIN prompts : prompts'[p] = prompts[p]
  /\ DOMAIN log \subseteq DOMAIN log' /\ \A n \in DOMAIN log : log'[n] = log[n]

\* A line or a prompt more.
LEMMA LogGrows ==
  ASSUME TypeOK, NEW line \in Lines, log' = Append(log, line), prompts' = prompts
  PROVE  /\ Grows /\ DOMAIN log' = DOMAIN log \cup {Len(log) + 1} /\ log'[Len(log) + 1] = line
         /\ Len(log) \in Nat /\ Len(log') = Len(log) + 1 /\ DOMAIN log = 1..Len(log)
         /\ log \in Seq(Lines) /\ log' \in Seq(Lines)
<1>1. log \in Seq(Lines)
  BY TypeParts DEF LogType
<1>2. /\ log' \in Seq(Lines) /\ Len(log') = Len(log) + 1 /\ Len(log) + 1 \in Nat /\ Len(log) \in Nat
      /\ DOMAIN log' = 1..(Len(log) + 1) /\ DOMAIN log = 1..Len(log)
      /\ log'[Len(log) + 1] = line /\ \A j \in DOMAIN log : log'[j] = log[j]
  BY <1>1, Appended
<1>3. 1..(Len(log) + 1) = (1..Len(log)) \cup {Len(log) + 1}
  BY <1>2
<1> QED BY <1>1, <1>2, <1>3 DEF Grows

LEMMA PromptsGrow ==
  ASSUME TypeOK, NEW w \in Windows, NEW text \in Texts, Type(w, text)
  PROVE  LET p == Len(prompts) + 1
         IN /\ Grows /\ DOMAIN prompts' = DOMAIN prompts \cup {p} /\ p \notin DOMAIN prompts
            /\ prompts'[p].text = text /\ prompts'[p].by = w /\ p \in Nat
<1> DEFINE r == [text |-> text, by |-> w]
           R == [text : Texts, by : Windows]
           p == Len(prompts) + 1
<1>1. prompts \in Seq(R) /\ prompts' = Append(prompts, r) /\ r \in R /\ log' = log
      /\ r.text = text /\ r.by = w
  BY TypeParts DEF BoundsType, Type
<1> HIDE DEF r, R
<1>2. /\ Len(prompts) \in Nat /\ DOMAIN prompts' = 1..(Len(prompts) + 1) /\ DOMAIN prompts = 1..Len(prompts)
      /\ prompts'[Len(prompts) + 1] = r /\ \A j \in DOMAIN prompts : prompts'[j] = prompts[j]
  BY <1>1, Appended
<1>3. 1..p = (1..Len(prompts)) \cup {p} /\ p \notin 1..Len(prompts) /\ p \in Nat
  BY <1>2
<1> QED BY <1>1, <1>2, <1>3 DEF Grows

LEMMA StaysGrows ==
  ASSUME log' = log, prompts' = prompts
  PROVE  Grows
BY DEF Grows

\* No step changes or removes a prompt or a line.
LEMMA GrowsNext ==
  ASSUME TypeOK, [Next]_vars
  PROVE  Grows
<1>1. ASSUME Speak PROVE Grows
  BY <1>1, SpeakIs, LogGrows, StaysGrows DEF SpeakStream, SpeakLine
<1>2. ASSUME NEW w \in Windows, HandleSend(w) PROVE Grows
  BY <1>2, HandleSendIs, LogGrows
<1>3. ASSUME NEW w \in Windows,
             Join(w) \/ AskEcho(w) \/ Read(w) \/ Deliver(w) \/ Receive(w) \/ Gap(w)
      PROVE  Grows
  BY <1>3, StaysGrows DEF Join, AskEcho, Read, Deliver, Receive, Gap
<1>4. ASSUME Store \/ UNCHANGED vars PROVE Grows
  BY <1>4, StaysGrows DEF Store, vars
<1> QED BY <1>1, <1>2, <1>3, <1>4, PromptsGrow DEF Next

-----------------------------------------------------------------------------
(* A step as a window sees it *)

\* An event is sent to a window.
Hears(u, e) ==
  /\ u \in members /\ u \in members' /\ inbox'[u] = Append(inbox[u], e) /\ win'[u] = win[u]
  /\ call'[u] = call[u] /\ SameHistory(past'[u], past[u])
  /\ IF past[u].lossy THEN past'[u].disturbed ELSE past'[u] = past[u]

\* A window hears an event or is left alone.
SpokenTo(u, ws, e) == IF u \in ws THEN Hears(u, e) ELSE Same(u)

\* A window that an event is sent to hears it.
LEMMA SentIs ==
  ASSUME TypeOK, NEW u \in Windows, NEW ws, ws \subseteq members, NEW e \in Events, SendTo(ws, e),
         UNCHANGED <<members, call, win>>
  PROVE  SpokenTo(u, ws, e)
<1>1. /\ inbox'[u] = IF u \in ws THEN Append(inbox[u], e) ELSE inbox[u]
      /\ SameHistory(past'[u], past[u]) /\ (u \notin ws \/ ~past[u].lossy => past'[u] = past[u])
      /\ (u \in ws /\ past[u].lossy => past'[u].disturbed)
  BY SendToIs, TypeParts
<1> QED BY <1>1 DEF SpokenTo, Hears, Same

\* The steps of a window itself.
Own(u) ==
  \/ Join(u) \/ AskEcho(u) \/ Read(u) \/ Deliver(u) \/ Receive(u) \/ Gap(u)
  \/ \E t \in Texts : Type(u, t)

LEMMA OthersStay ==
  ASSUME TypeOK, NEW u \in Windows, NEW w \in Windows \ {u}, Own(w)
  PROVE  Same(u) /\ log' = log /\ speech' = speech
<1>1. /\ DOMAIN win = Windows /\ DOMAIN call = Windows /\ DOMAIN past = Windows
      /\ DOMAIN inbox = Windows
  BY ViewIs
<1>2. CASE Join(w)
  BY <1>1, <1>2 DEF Join, Joining, Same
<1>3. CASE AskEcho(w) \/ Read(w)
  BY <1>1, <1>3 DEF AskEcho, Read, Same
<1>4. CASE Deliver(w)
  <2>1. (Continues(w) \/ Registers(w)) /\ UNCHANGED <<log, speech, win>>
    BY <1>4, DeliverIs
  <2> QED BY <1>1, <2>1 DEF Continues, Registers, Same
<1>5. CASE Receive(w)
  <2> DEFINE e == Head(inbox[w])
  <2>1. /\ Received(w, e)
        /\ \/ ReceiveStream(w, e) \/ ReceiveLine(w, e) \/ ReceiveHistory(w, e)
           \/ ReceiveJoined(w, e) \/ ReceiveRefresh(w, e)
    BY <1>5, ReceiveIs
  <2> HIDE DEF e
  <2>2. inbox'[u] = inbox[u] /\ members' = members /\ log' = log /\ speech' = speech
    BY <1>1, <2>1 DEF Received
  <2>3. win'[u] = win[u] /\ past'[u] = past[u] /\ call'[u] = call[u]
    <3>1. CASE ReceiveStream(w, e)
      BY <1>1, <3>1 DEF ReceiveStream
    <3>2. CASE ReceiveLine(w, e)
      BY <1>1, <3>2 DEF ReceiveLine
    <3>3. CASE ReceiveHistory(w, e)
      BY <1>1, <3>3, ReceiveHistoryIs, TypeParts DEF WindowType
    <3>4. CASE ReceiveJoined(w, e)
      BY <1>1, <3>4 DEF ReceiveJoined
    <3>5. CASE ReceiveRefresh(w, e)
      BY <1>1, <3>5 DEF ReceiveRefresh, Joining
    <3> QED BY <2>1, <3>1, <3>2, <3>3, <3>4, <3>5
  <2> QED BY <2>2, <2>3 DEF Same
<1>6. CASE Gap(w)
  BY <1>1, <1>6 DEF Gap, Same
<1>7. CASE \E t \in Texts : Type(w, t)
  <2>1. PICK t \in Texts : Type(w, t)
    BY <1>7
  <2> QED BY <1>1, <2>1 DEF Type, Same
<1> QED BY <1>2, <1>3, <1>4, <1>5, <1>6, <1>7 DEF Own

\* Each step, as one window sees it.
LEMMA Steps ==
  ASSUME TypeOK, [Next]_vars, NEW u \in Windows
  PROVE  \/ Same(u) /\ log' = log /\ speech' = speech
         \/ \E e \in StreamEvents : SpeakStream(e) /\ SpokenTo(u, members, e)
         \/ \E line \in Lines : SpeakLine(line) /\ SpokenTo(u, members, TheLine(Len(log) + 1))
         \/ \E w \in Windows : HandleSend(w) /\ SpokenTo(u, Others(w), TheLine(Len(log) + 1))
         \/ Own(u)
<1>1. CASE Speak
  <2>1. ASSUME NEW e \in StreamEvents, SpeakStream(e) PROVE SpokenTo(u, members, e)
    BY <2>1, SentIs, EventsSent DEF SpeakStream
  <2>2. ASSUME NEW line \in Lines, SpeakLine(line) PROVE SpokenTo(u, members, TheLine(Len(log) + 1))
    BY <2>2, SentIs, EventsSent DEF SpeakLine
  <2> QED BY <1>1, <2>1, <2>2, SpeakIs
<1>2. ASSUME NEW w \in Windows, HandleSend(w) PROVE SpokenTo(u, Others(w), TheLine(Len(log) + 1))
  BY <1>2, HandleSendIs, SentIs, EventsSent DEF Others
<1>3. CASE Store \/ UNCHANGED vars
  BY <1>3 DEF Store, vars, Same
<1>4. ASSUME NEW w \in Windows, Own(w) PROVE Own(u) \/ (Same(u) /\ log' = log /\ speech' = speech)
  BY <1>4, OthersStay
<1> QED BY <1>1, <1>2, <1>3, <1>4 DEF Next, Own

-----------------------------------------------------------------------------
(* What the queues and the lines refer to stays known *)

\* The prompts a window keeps are its own.
UpKnown(w) == \A i \in DOMAIN up[w] : up[w][i] \in DOMAIN prompts /\ prompts[up[w][i]].by = w

\* References in their parts.
LEMMA RefsParts ==
  ASSUME NEW w
  PROVE  RefsOf(w) <=> /\ UpKnown(w) /\ past[w].typed \subseteq DOMAIN prompts
                       /\ \A p \in past[w].typed : prompts[p].by = w
                       /\ past[w].given \subseteq DOMAIN log
                       /\ \A i \in DOMAIN inbox[w] : LinesOf(inbox[w][i]) \subseteq DOMAIN log
BY DEF RefsOf, UpKnown

LEMMA UpKnownNext ==
  ASSUME TypeOK, Grows, NEW u \in Windows, UpKnown(u), [Next]_vars
  PROVE  UpKnown(u)'
<1>1. /\ up \in [Windows -> Seq(PromptIds)] /\ up[u] \in Seq(PromptIds)
  BY TypeParts DEF QueuesType
<1>2. CASE up'[u] = up[u]
  BY <1>2 DEF UpKnown, Grows
<1>3. CASE HandleSend(u)
  <2>1. up[u] # <<>> /\ up' = [up EXCEPT ![u] = Tail(@)]
    BY <1>3, HandleSendIs
  <2>2. up'[u] = Tail(up[u])
    BY <1>1, <2>1
  <2>3. \A i \in DOMAIN Tail(up[u]) : i + 1 \in DOMAIN up[u] /\ Tail(up[u])[i] = up[u][i + 1]
    BY <1>1, <2>1
  <2> QED BY <2>2, <2>3 DEF UpKnown, Grows
<1>4. CASE \E t \in Texts : Type(u, t)
  <2>1. PICK t \in Texts : Type(u, t)
    BY <1>4
  <2> DEFINE p == Len(prompts) + 1
  <2>2. \/ \E i \in 1..(Len(up[u]) + 1) : up' = [up EXCEPT ![u] = InsertAt(@, i, p)]
        \/ up' = up
    BY <2>1 DEF Type
  <2>3. p \in DOMAIN prompts' /\ prompts'[p].by = u /\ p \in PromptIds
    <3>1. p \in DOMAIN prompts' /\ prompts'[p].by = u /\ p \in Nat
      BY <2>1, PromptsGrow
    <3>2. p <= MaxInputs
      <4>1. p + gaps <= MaxInputs /\ gaps \in Nat /\ p \in Nat
        BY <2>1, <3>1, TypeParts DEF Type, BoundsType
      <4> QED BY <4>1, Constants
    <3>3. p >= 1
      BY TypeParts DEF BoundsType
    <3> QED BY <3>1, <3>2, <3>3, Constants DEF PromptIds
  <2> HIDE DEF p
  <2>4. CASE up' = up
    BY <1>2, <2>4
  <2>5. ASSUME NEW i \in 1..(Len(up[u]) + 1), up' = [up EXCEPT ![u] = InsertAt(@, i, p)]
        PROVE  UpKnown(u)'
    <3>1. up'[u] = InsertAt(up[u], i, p)
      BY <1>1, <2>5
    <3>2. \A j \in DOMAIN up'[u] : up'[u][j] = p \/ \E k \in DOMAIN up[u] : up'[u][j] = up[u][k]
      BY <1>1, <2>3, <3>1, Inserted
    <3> QED BY <2>3, <3>2 DEF UpKnown, Grows
  <2> QED BY <2>2, <2>4, <2>5
<1>5. \/ up'[u] = up[u] \/ HandleSend(u) \/ \E t \in Texts : Type(u, t)
  <2>1. ASSUME NEW w \in Windows \ {u}, HandleSend(w) PROVE up'[u] = up[u]
    BY <1>1, <2>1, HandleSendIs
  <2>2. ASSUME NEW w \in Windows \ {u}, NEW t \in Texts, Type(w, t) PROVE up'[u] = up[u]
    BY <1>1, <2>2 DEF Type
  <2>3. ASSUME Speak PROVE up' = up
    BY <2>3, SpeakIs DEF SpeakStream, SpeakLine
  <2>4. ASSUME NEW w \in Windows,
               Join(w) \/ AskEcho(w) \/ Read(w) \/ Deliver(w) \/ Receive(w) \/ Gap(w)
        PROVE  up' = up
    BY <2>4 DEF Join, AskEcho, Read, Deliver, Receive, Gap
  <2>5. ASSUME Store \/ UNCHANGED vars PROVE up' = up
    BY <2>5 DEF Store, vars
  <2> QED BY <2>1, <2>2, <2>3, <2>4, <2>5 DEF Next
<1> QED BY <1>2, <1>3, <1>4, <1>5

\* The lines of an inbox stay known, when an event of known lines is added.
LEMMA InboxKnown ==
  ASSUME NEW q \in Seq(Events), NEW e \in Events, NEW D, LinesOf(e) \subseteq D,
         \A i \in DOMAIN q : LinesOf(q[i]) \subseteq D
  PROVE  \A i \in DOMAIN Append(q, e) : LinesOf(Append(q, e)[i]) \subseteq D
<1>1. /\ \A j \in DOMAIN Append(q, e) : j = Len(q) + 1 \/ j \in DOMAIN q
      /\ \A j \in DOMAIN q : Append(q, e)[j] = q[j]
      /\ Append(q, e)[Len(q) + 1] = e
  BY Appended
<1> QED BY <1>1

\* Each kind of step keeps references.
LEMMA RefsHeard ==
  ASSUME TypeOK, Grows, NEW u \in Windows, RefsOf(u), UpKnown(u)', NEW ws, NEW e \in Events,
         SpokenTo(u, ws, e), LinesOf(e) \subseteq DOMAIN log'
  PROVE  RefsOf(u)'
<1>1. past'[u].typed = past[u].typed /\ past'[u].given = past[u].given
  BY DEF SpokenTo, Hears, Same, SameHistory
<1>2. inbox'[u] = inbox[u] \/ inbox'[u] = Append(inbox[u], e)
  BY DEF SpokenTo, Hears, Same
<1>3. past'[u].typed \subseteq DOMAIN prompts' /\ \A p \in past'[u].typed : prompts'[p].by = u
  BY <1>1, RefsParts DEF Grows
<1>4. past'[u].given \subseteq DOMAIN log'
  BY <1>1, RefsParts DEF Grows
<1>5. \A i \in DOMAIN inbox[u] : LinesOf(inbox[u][i]) \subseteq DOMAIN log'
  BY RefsParts DEF Grows
<1>6. \A i \in DOMAIN inbox'[u] : LinesOf(inbox'[u][i]) \subseteq DOMAIN log'
  BY <1>2, <1>5, ViewIs, InboxKnown
<1> QED BY <1>3, <1>4, <1>6 DEF RefsOf, UpKnown, LinesOf

LEMMA RefsReceive ==
  ASSUME TypeOK, RefsInv, Grows, NEW w \in Windows, Receive(w), UpKnown(w)'
  PROVE  RefsOf(w)'
<1> DEFINE e == Head(inbox[w])
<1>1. /\ Received(w, e)
      /\ \/ ReceiveStream(w, e) \/ ReceiveLine(w, e) \/ ReceiveHistory(w, e)
         \/ ReceiveJoined(w, e) \/ ReceiveRefresh(w, e)
  BY ReceiveIs
<1> HIDE DEF e
<1>2. RefsOf(w)
  BY DEF RefsInv
<1>3. /\ DOMAIN past = Windows /\ past[w] \in Histories
  BY ViewIs
<1>4. \A i \in DOMAIN inbox'[w] : LinesOf(inbox'[w][i]) \subseteq DOMAIN log'
  <2>1. \A i \in DOMAIN inbox'[w] : i + 1 \in DOMAIN inbox[w] /\ inbox'[w][i] = inbox[w][i + 1]
    BY <1>1, TakenEvent
  <2> QED BY <1>2, <2>1, RefsParts DEF Grows
<1>5. LinesOf(e) \subseteq DOMAIN log'
  <2>1. e = inbox[w][1] /\ 1 \in DOMAIN inbox[w]
    BY <1>1, TakenEvent
  <2> QED BY <1>2, <2>1, RefsParts DEF Grows
<1>6. /\ past'[w].typed = past[w].typed \/ past'[w].typed = {}
      /\ past'[w].given \subseteq past[w].given \cup LinesOf(e)
  <2>1. CASE ReceiveStream(w, e) \/ ReceiveJoined(w, e)
    BY <1>3, <2>1 DEF ReceiveStream, ReceiveJoined, Histories
  <2>2. CASE ReceiveLine(w, e)
    BY <1>3, <2>2 DEF ReceiveLine, Histories, LinesOf
  <2>3. CASE ReceiveHistory(w, e)
    <3>1. /\ e.type = "history"
          /\ past' = [past EXCEPT ![w].given = @ \cup Applied(win[w], e)]
      BY <2>3, ReceiveHistoryIs, TypeParts DEF WindowType
    <3>2. Applied(win[w], e) \subseteq LinesOf(e)
      BY <3>1 DEF Applied, LinesOf
    <3> QED BY <1>3, <3>1, <3>2 DEF Histories
  <2>4. CASE ReceiveRefresh(w, e)
    BY <1>3, <2>4 DEF ReceiveRefresh, Histories
  <2> QED BY <1>1, <2>1, <2>2, <2>3, <2>4
<1>7. past'[w].typed \subseteq DOMAIN prompts' /\ \A p \in past'[w].typed : prompts'[p].by = w
  BY <1>2, <1>6, RefsParts DEF Grows
<1>8. past'[w].given \subseteq DOMAIN log'
  BY <1>2, <1>5, <1>6, RefsParts DEF Grows
<1> QED BY <1>4, <1>7, <1>8 DEF RefsOf, UpKnown, LinesOf

LEMMA RefsOwn ==
  ASSUME TypeOK, RefsInv, Grows, NEW w \in Windows, Own(w), UpKnown(w)'
  PROVE  RefsOf(w)'
<1>1. RefsOf(w)
  BY DEF RefsInv
<1>2. /\ DOMAIN past = Windows /\ past[w] \in Histories /\ inbox[w] \in Seq(Events) /\ DOMAIN inbox = Windows
  BY ViewIs
<1>3. past[w].typed \subseteq DOMAIN prompts' /\ \A p \in past[w].typed : prompts'[p].by = w
  BY <1>1, RefsParts DEF Grows
<1>4. past[w].given \subseteq DOMAIN log'
  BY <1>1, RefsParts DEF Grows
<1>5. \A i \in DOMAIN inbox[w] : LinesOf(inbox[w][i]) \subseteq DOMAIN log'
  BY <1>1, RefsParts DEF Grows
<1>6. CASE Join(w) \/ AskEcho(w) \/ Read(w)
  <2>1. inbox' = inbox /\ past' = past
    BY <1>6 DEF Join, AskEcho, Read
  <2> QED BY <1>3, <1>4, <1>5, <2>1 DEF RefsOf, UpKnown, LinesOf
<1>7. CASE Deliver(w)
  <2>1. Continues(w) \/ Registers(w)
    BY <1>7, DeliverIs
  <2>2. past'[w].typed = past[w].typed /\ past'[w].given = past[w].given
    BY <1>2, <2>1 DEF Continues, Registers, Histories
  <2>3. /\ Batch(call[w]) \in Events /\ Joined \in Events
        /\ LinesOf(Batch(call[w])) \subseteq DOMAIN log' /\ LinesOf(Joined) \subseteq DOMAIN log'
    <3>1. /\ Batch(call[w]) \in Events /\ Joined \in Events /\ Batch(call[w]).type = "history"
          /\ Joined.type = "joined" /\ Batch(call[w]).rows = Filtered(call[w])
          /\ Filtered(call[w]) \subseteq 1..Len(log)
      BY ViewIs, BatchType
    <3>2. DOMAIN log = 1..Len(log)
      BY TypeParts DEF LogType
    <3> QED BY <3>1, <3>2 DEF LinesOf, Grows
  <2> DEFINE b == Batch(call[w])
             q == Append(inbox[w], b)
  <2>4. inbox'[w] = q \/ inbox'[w] = Append(q, Joined) \/ inbox'[w] = Append(inbox[w], Joined)
    BY <1>2, <2>1 DEF Continues, Registers
  <2> HIDE DEF b
  <2>5. q \in Seq(Events)
    BY <1>2, <2>3, Appended DEF b
  <2>6. \A i \in DOMAIN q : LinesOf(q[i]) \subseteq DOMAIN log'
    BY <1>2, <1>5, <2>3, InboxKnown DEF b
  <2> HIDE DEF q
  <2>7. \A i \in DOMAIN inbox'[w] : LinesOf(inbox'[w][i]) \subseteq DOMAIN log'
    <3> DEFINE x == Append(q, Joined)
               y == Append(inbox[w], Joined)
    <3>1. \A i \in DOMAIN x : LinesOf(x[i]) \subseteq DOMAIN log'
      BY <2>3, <2>5, <2>6, InboxKnown
    <3>2. \A i \in DOMAIN y : LinesOf(y[i]) \subseteq DOMAIN log'
      BY <1>2, <1>5, <2>3, InboxKnown
    <3> HIDE DEF x, y
    <3> QED BY <2>4, <2>6, <3>1, <3>2 DEF x, y
  <2> QED BY <1>3, <1>4, <2>2, <2>7 DEF RefsOf, UpKnown, LinesOf
<1>8. CASE Gap(w)
  <2>1. /\ inbox' = [inbox EXCEPT ![w] = <<[type |-> "refresh"]>>]
        /\ past' = [past EXCEPT ![w].lossy = TRUE, ![w].disturbed = FALSE]
    BY <1>8 DEF Gap
  <2>2. inbox'[w] = <<[type |-> "refresh"]>>
    BY <1>2, <2>1
  <2>3. past'[w].typed = past[w].typed /\ past'[w].given = past[w].given
    BY <1>2, <2>1 DEF Histories
  <2>4. \A i \in DOMAIN inbox'[w] : LinesOf(inbox'[w][i]) = {}
    BY <2>2 DEF LinesOf
  <2> QED BY <1>3, <1>4, <2>3, <2>4 DEF RefsOf, UpKnown, LinesOf
<1>9. ASSUME NEW t \in Texts, Type(w, t) PROVE RefsOf(w)'
  <2> DEFINE p == Len(prompts) + 1
  <2>1. p \in DOMAIN prompts' /\ prompts'[p].by = w
    BY <1>9, PromptsGrow
  <2> HIDE DEF p
  <2>2. /\ past' = [past EXCEPT ![w].typed = @ \cup {p}, ![w].disturbed = past[w].lossy]
        /\ inbox' = inbox
    BY <1>9 DEF Type, p
  <2>3. past'[w].typed = past[w].typed \cup {p} /\ past'[w].given = past[w].given
    BY <1>2, <2>2 DEF Histories
  <2> QED BY <1>3, <1>4, <1>5, <2>1, <2>2, <2>3 DEF RefsOf, UpKnown, LinesOf
<1> QED BY <1>6, <1>7, <1>8, <1>9, RefsReceive DEF Own

LEMMA LinesOfSent ==
  ASSUME TypeOK
  PROVE  /\ \A e \in StreamEvents : e \in Events /\ LinesOf(e) = {}
         /\ TheLine(Len(log) + 1) \in Events /\ LinesOf(TheLine(Len(log) + 1)) = {Len(log) + 1}
BY EventsSent, StreamEventIs DEF LinesOf, TheLine

LEMMA HeadKnown ==
  ASSUME TypeOK, RefsInv, NEW w \in Windows, up[w] # <<>>
  PROVE  /\ Head(up[w]) \in DOMAIN prompts /\ prompts[Head(up[w])].by = w
         /\ Head(up[w]) = up[w][1] /\ 1 \in DOMAIN up[w]
<1>1. up[w] \in Seq(PromptIds)
  BY TypeParts DEF QueuesType
<1>2. Head(up[w]) = up[w][1] /\ 1 \in DOMAIN up[w]
  BY <1>1
<1> QED BY <1>2 DEF RefsInv, RefsOf

\* Every step keeps references.
LEMMA RefsNext ==
  ASSUME TypeOK, RefsInv, [Next]_vars
  PROVE  RefsInv'
<1>1. Grows
  BY GrowsNext
<1>2. ASSUME NEW u \in Windows PROVE RefsOf(u)'
  <2>1. RefsOf(u) /\ UpKnown(u)'
    BY <1>1, UpKnownNext, RefsParts DEF RefsInv
  <2>2. CASE Same(u)
    <3>1. past'[u] = past[u] /\ inbox'[u] = inbox[u]
      BY <2>2 DEF Same
    <3> QED BY <1>1, <2>1, <3>1 DEF RefsOf, UpKnown, Grows, LinesOf
  <2>3. ASSUME NEW e \in StreamEvents, SpokenTo(u, members, e) PROVE RefsOf(u)'
    BY <1>1, <2>1, <2>3, LinesOfSent, RefsHeard
  <2>4. ASSUME NEW line \in Lines, log' = Append(log, line), prompts' = prompts, NEW ws,
               SpokenTo(u, ws, TheLine(Len(log) + 1))
        PROVE  RefsOf(u)'
    <3> DEFINE e == TheLine(Len(log) + 1)
    <3>1. e \in Events /\ LinesOf(e) \subseteq DOMAIN log'
      BY <2>4, LogGrows, LinesOfSent
    <3> HIDE DEF e
    <3>2. SpokenTo(u, ws, e)
      BY <2>4 DEF e
    <3> QED BY <1>1, <2>1, <3>1, <3>2, RefsHeard
  <2>5. CASE Own(u)
    BY <1>1, <2>1, <2>5, RefsOwn
  <2> QED BY <2>2, <2>3, <2>4, <2>5, Steps, HandleSendIs DEF SpeakLine
<1>3. \A n \in DOMAIN log' : (LineKnown(log[n]))'
  <2>1. \A n \in DOMAIN log : (LineKnown(log[n]))'
    BY <1>1 DEF Grows, LineKnown, RefsInv
  <2>2. ASSUME NEW line \in Lines, log' = Append(log, line), prompts' = prompts, LineKnown(line)
        PROVE  \A n \in DOMAIN log' : (LineKnown(log[n]))'
    <3>1. DOMAIN log' = DOMAIN log \cup {Len(log) + 1} /\ log'[Len(log) + 1] = line
      BY <2>2, LogGrows
    <3> QED BY <2>1, <2>2, <3>1 DEF LineKnown
  <2>3. ASSUME NEW line \in Lines, SpeakLine(line) PROVE LineKnown(line)
    <3>1. stdin # <<>> => Head(stdin) = stdin[1] /\ 1 \in DOMAIN stdin
      BY TypeParts DEF QueuesType
    <3> QED BY <2>3, <3>1 DEF SpeakLine, LineKnown, RefsInv
  <2>4. ASSUME NEW w \in Windows, HandleSend(w)
        PROVE  LET p == Head(up[w]) IN p \in DOMAIN prompts
    <3>1. up[w] # <<>>
      BY <2>4 DEF HandleSend
    <3> QED BY <3>1, HeadKnown
  <2>5. ASSUME Speak PROVE \A n \in DOMAIN log' : (LineKnown(log[n]))'
    <3>1. ASSUME NEW e \in StreamEvents, SpeakStream(e) PROVE log' = log
      BY <3>1 DEF SpeakStream
    <3>2. ASSUME NEW line \in Lines, SpeakLine(line) PROVE \A n \in DOMAIN log' : (LineKnown(log[n]))'
      BY <3>2, <2>2, <2>3 DEF SpeakLine
    <3> QED BY <2>1, <2>5, <3>1, <3>2, SpeakIs
  <2>6. ASSUME NEW w \in Windows, HandleSend(w) PROVE \A n \in DOMAIN log' : (LineKnown(log[n]))'
    <3> DEFINE line == Line("in", Head(up[w]), "")
    <3>1. /\ line \in Lines /\ line.n = Head(up[w]) /\ log' = Append(log, line) /\ prompts' = prompts
      BY <2>6, HandleSendIs
    <3> HIDE DEF line
    <3> QED BY <2>2, <2>4, <2>6, <3>1 DEF LineKnown
  <2>7. \/ Speak \/ log' = log \/ \E w \in Windows : HandleSend(w)
    BY DEF Next, Store, vars, Join, AskEcho, Read, Deliver, Receive, Gap, Type
  <2> QED BY <2>1, <2>5, <2>6, <2>7
<1>4. \A i \in DOMAIN stdin' : stdin'[i] \in DOMAIN prompts'
  <2>1. stdin \in Seq(PromptIds)
    BY TypeParts DEF QueuesType
  <2>2. CASE stdin' = stdin
    BY <1>1, <2>2 DEF Grows, RefsInv
  <2>3. CASE stdin # <<>> /\ stdin' = Tail(stdin)
    <3>1. \A i \in DOMAIN Tail(stdin) : i + 1 \in DOMAIN stdin /\ Tail(stdin)[i] = stdin[i + 1]
      BY <2>1, <2>3
    <3> QED BY <1>1, <2>3, <3>1 DEF Grows, RefsInv
  <2>4. ASSUME NEW w \in Windows, HandleSend(w) PROVE \A i \in DOMAIN stdin' : stdin'[i] \in DOMAIN prompts'
    <3> DEFINE p == Head(up[w])
    <3>1. p \in PromptIds /\ stdin' = Append(stdin, p) /\ prompts' = prompts
      BY <2>4, HandleSendIs
    <3>2. p \in DOMAIN prompts
      <4>1. up[w] # <<>>
        BY <2>4 DEF HandleSend
      <4> QED BY <4>1, HeadKnown
    <3> HIDE DEF p
    <3>3. /\ \A j \in DOMAIN Append(stdin, p) : j = Len(stdin) + 1 \/ j \in DOMAIN stdin
          /\ \A j \in DOMAIN stdin : Append(stdin, p)[j] = stdin[j]
          /\ Append(stdin, p)[Len(stdin) + 1] = p
      BY <2>1, <3>1, Appended
    <3> QED BY <3>1, <3>2, <3>3 DEF RefsInv
  <2>5. ASSUME Speak PROVE stdin' = stdin \/ (stdin # <<>> /\ stdin' = Tail(stdin))
    BY <2>5, SpeakIs DEF SpeakStream, SpeakLine
  <2>6. \/ Speak \/ stdin' = stdin \/ \E w \in Windows : HandleSend(w)
    BY DEF Next, Store, vars, Join, AskEcho, Read, Deliver, Receive, Gap, Type
  <2> QED BY <2>2, <2>3, <2>4, <2>5, <2>6
<1> QED BY <1>2, <1>3, <1>4 DEF RefsInv

LEMMA TypeInvInit == Init => TypeInv
<1> SUFFICES ASSUME Init PROVE TypeInv
  OBVIOUS
<1>1. /\ log = <<>> /\ stdin = <<>> /\ prompts = <<>> /\ gaps = 0 /\ members = {}
      /\ \A w \in Windows : /\ up[w] = <<>> /\ inbox[w] = <<>> /\ call[w] = NoCall /\ win[w].round = 0
                            /\ past[w].typed = {} /\ past[w].given = {}
  BY DEF Init
<1>2. RefsInv
  BY <1>1 DEF RefsInv, RefsOf
<1>3. RoundsInv
  BY <1>1 DEF RoundsInv, RoundsOf, Gapped, NoCall
<1> QED BY <1>2, <1>3, InitType DEF TypeInv

LEMMA TypeInvNext == TypeInv /\ [Next]_vars => TypeInv'
BY TypeNext, RefsNext, RoundsNext DEF TypeInv

\* The types, with what the queues refer to and how often a window joined.
THEOREM TypeInvariant == Spec => []TypeInv
<1> QED BY TypeInvInit, TypeInvNext, PTL DEF Spec

\* The log, the queues, the joins and the windows keep their types: a line names a prompt
\* that was typed, a join reads rows that are stored, and a window is in a round for each
\* gap at most.
THEOREM TypeCorrect == Spec => []TypeOK
<1>1. TypeInv => TypeOK
  BY DEF TypeInv
<1> QED BY <1>1, TypeInvariant, PTL

-----------------------------------------------------------------------------
(* The log *)

\* A prompt is read once and echoed once, a block said once.
Unique ==
  \A m, n \in DOMAIN log :
    log[m].type = log[n].type /\ log[m].n = log[n].n /\ log[n].type \in {"in", "echo", "said"} => m = n

\* A prompt was written to stdin, or echoed, in a line of the log.
InLine(n, p) == n \in DOMAIN log /\ log[n].type = "in" /\ log[n].n = p
EchoLine(n, p) == n \in DOMAIN log /\ log[n].type = "echo" /\ log[n].n = p

\* Only a prompt that was written to stdin is echoed.
EchoAfterIn == \A n \in DOMAIN log : log[n].type = "echo" => \E m : m < n /\ InLine(m, log[n].n)

\* The process has said no block ahead of the one it is at.
SaidBefore ==
  /\ \A n \in DOMAIN log : log[n].type = "said" =>
       log[n].n <= speech.b /\ (speech.at = "block" => log[n].n # speech.b)
  /\ speech.at \in {"block", "said"} => speech.kind \in {"text", "tool"} /\ speech.b # 0

\* A prompt on stdin was written there once and is not echoed yet.
StdinInv ==
  \A i \in DOMAIN stdin :
    /\ \E m : InLine(m, stdin[i])
    /\ \A m : ~EchoLine(m, stdin[i])
    /\ \A j \in DOMAIN stdin : stdin[i] = stdin[j] => i = j

\* A prompt that is kept was not written to stdin.
UpInv ==
  \A w \in Windows : \A i \in DOMAIN up[w] :
    /\ \A m : ~InLine(m, up[w][i])
    /\ \A j \in DOMAIN up[w] : up[w][i] = up[w][j] => i = j

LogInv == Unique /\ EchoAfterIn /\ SaidBefore /\ StdinInv /\ UpInv

\* The log starts empty.
LEMMA LogInvInit == Init => LogInv
<1> SUFFICES ASSUME Init PROVE LogInv
  OBVIOUS
<1>1. /\ log = <<>> /\ stdin = <<>> /\ speech.at = "idle" /\ \A w \in Windows : up[w] = <<>>
  BY DEF Init
<1> QED BY <1>1 DEF LogInv, Unique, EchoAfterIn, SaidBefore, StdinInv, UpInv

\* The queues, when the log stays.
LEMMA StdinSame ==
  ASSUME log' = log, stdin' = stdin, StdinInv
  PROVE  StdinInv'
BY DEF StdinInv, InLine, EchoLine

LEMMA UpSame ==
  ASSUME log' = log, up' = up, UpInv
  PROVE  UpInv'
BY DEF UpInv, InLine

LEMMA SaidStays ==
  ASSUME log' = log, speech' = speech, SaidBefore
  PROVE  SaidBefore'
BY DEF SaidBefore

\* Steps that leave the log alone.
LEMMA LogStays ==
  ASSUME LogInv, UNCHANGED <<log, stdin, up, speech>>
  PROVE  LogInv'
<1>1. Unique' /\ EchoAfterIn'
  BY DEF LogInv, Unique, EchoAfterIn, InLine
<1> QED BY <1>1, StdinSame, UpSame, SaidStays DEF LogInv

\* A line more.
LEMMA LinesMore ==
  ASSUME TypeOK, NEW line \in Lines, log' = Append(log, line), prompts' = prompts
  PROVE  LET N == Len(log) + 1
         IN /\ \A m, p : InLine(m, p)' <=> InLine(m, p) \/ (m = N /\ line.type = "in" /\ line.n = p)
            /\ \A m, p : EchoLine(m, p)' <=> EchoLine(m, p) \/ (m = N /\ line.type = "echo" /\ line.n = p)
            /\ \A n \in DOMAIN log : n < N /\ n \in Nat /\ log'[n] = log[n] /\ n \in DOMAIN log'
            /\ \A n \in DOMAIN log' : n \in DOMAIN log \/ (n = N /\ log'[n] = line)
            /\ N \in Nat
<1> DEFINE N == Len(log) + 1
<1>1. /\ DOMAIN log' = DOMAIN log \cup {N} /\ log'[N] = line /\ Len(log) \in Nat
      /\ DOMAIN log = 1..Len(log) /\ \A n \in DOMAIN log : log'[n] = log[n]
  BY LogGrows DEF Grows
<1>2. \A n \in DOMAIN log : n < N /\ n \in Nat /\ n # N
  BY <1>1
<1>3. N \in Nat
  BY <1>1
<1> HIDE DEF N
<1>4. \A m, p : InLine(m, p)' <=> InLine(m, p) \/ (m = N /\ line.type = "in" /\ line.n = p)
  BY <1>1, <1>2 DEF InLine
<1>5. \A m, p : EchoLine(m, p)' <=> EchoLine(m, p) \/ (m = N /\ line.type = "echo" /\ line.n = p)
  BY <1>1, <1>2 DEF EchoLine
<1> QED BY <1>1, <1>2, <1>3, <1>4, <1>5 DEF N

\* A line more, of a kind that is not there twice.
LEMMA UniqueMore ==
  ASSUME TypeOK, Unique, NEW line \in Lines, log' = Append(log, line), prompts' = prompts,
         \A n \in DOMAIN log : log[n].type = line.type /\ log[n].n = line.n => line.type \notin {"in", "echo", "said"}
  PROVE  Unique'
<1> DEFINE N == Len(log) + 1
<1>1. /\ \A n \in DOMAIN log : log'[n] = log[n]
      /\ \A n \in DOMAIN log' : n \in DOMAIN log \/ (n = N /\ log'[n] = line)
  BY LinesMore
<1> HIDE DEF N
<1> QED BY <1>1 DEF Unique

LEMMA EchoAfterInMore ==
  ASSUME TypeOK, EchoAfterIn, NEW line \in Lines, log' = Append(log, line), prompts' = prompts,
         line.type = "echo" => \E m : InLine(m, line.n)
  PROVE  EchoAfterIn'
<1> DEFINE N == Len(log) + 1
<1>1. /\ \A m, p : InLine(m, p) => InLine(m, p)'
      /\ \A n \in DOMAIN log : n < N /\ log'[n] = log[n]
      /\ \A n \in DOMAIN log' : n \in DOMAIN log \/ (n = N /\ log'[n] = line)
  BY LinesMore
<1> HIDE DEF N
<1>2. ASSUME NEW n \in DOMAIN log', log'[n].type = "echo" PROVE \E m : m < n /\ InLine(m, log[n].n)'
  <2>1. CASE n \in DOMAIN log
    <3>1. log'[n] = log[n]
      BY <1>1, <2>1
    <3>2. PICK m : m < n /\ InLine(m, log[n].n)
      BY <1>2, <2>1, <3>1 DEF EchoAfterIn
    <3>3. InLine(m, log[n].n) => (\A p : p = log[n].n => InLine(m, p)')
      BY <1>1
    <3> QED BY <3>1, <3>2, <3>3
  <2>2. CASE n = N /\ log'[n] = line
    <3>1. PICK m : InLine(m, line.n)
      BY <1>2, <2>2
    <3>2. m < n /\ InLine(m, line.n)'
      BY <1>1, <2>2, <3>1 DEF InLine
    <3> QED BY <2>2, <3>2
  <2> QED BY <1>1, <2>1, <2>2
<1> QED BY <1>2 DEF EchoAfterIn

\* Each action that writes the log or the queues.
LEMMA SpeakStreamLog ==
  ASSUME TypeOK, LogInv, NEW e, SpeakStream(e)
  PROVE  LogInv'
<1>1. UNCHANGED <<log, stdin, up>> /\ Streams(speech, e, speech') /\ speech \in States /\ speech' \in States
  BY TypeParts DEF SpeakStream
<1>2. Unique' /\ EchoAfterIn'
  BY <1>1 DEF LogInv, Unique, EchoAfterIn, InLine
<1>3. SaidBefore'
  <2>1. speech.b \in Nat /\ \A n \in DOMAIN log : log[n].n \in Nat
    <3>1. \A n \in DOMAIN log : log[n] \in Lines
      BY TypeParts DEF LogType
    <3> QED BY Zenon, <1>1, <3>1, StateIs, LineIs
  <2>2. CASE e.type = "block"
    <3>1. speech'.b = speech.b + 1 /\ speech'.at = "block" /\ speech'.kind \in {"text", "tool"}
      BY <1>1, <2>2 DEF Streams
    <3>2. \A n \in DOMAIN log : log[n].type = "said" => log[n].n <= speech.b
      BY DEF LogInv, SaidBefore
    <3>3. \A n \in DOMAIN log : log[n].type = "said" => log[n].n <= speech'.b /\ log[n].n # speech'.b
      BY <2>1, <3>1, <3>2
    <3> QED BY <1>1, <2>1, <3>1, <3>3 DEF SaidBefore
  <2>3. CASE e.type # "block"
    <3>1. speech'.b = speech.b /\ (speech'.at = "block" => speech.at = "block")
          /\ (speech'.at \in {"block", "said"} => speech.at \in {"block", "said"} /\ speech'.kind = speech.kind)
      BY <1>1, <2>3 DEF Streams, States
    <3> QED BY <1>1, <3>1 DEF LogInv, SaidBefore
  <2> QED BY <2>2, <2>3
<1> QED BY <1>1, <1>2, <1>3, StdinSame, UpSame DEF LogInv

LEMMA SpeakLineLog ==
  ASSUME TypeOK, LogInv, NEW line, SpeakLine(line)
  PROVE  LogInv'
<1>1. /\ line \in Lines /\ line.type # "in" /\ HeardLine(speech, line, speech') /\ speech' \in States
      /\ log' = Append(log, line) /\ prompts' = prompts /\ up' = up /\ speech \in States
      /\ IF line.type = "echo" THEN stdin # <<>> /\ line.n = Head(stdin) /\ stdin' = Tail(stdin)
         ELSE stdin' = stdin
  BY TypeParts DEF SpeakLine
<1>2. stdin \in Seq(PromptIds) /\ (stdin # <<>> => Head(stdin) = stdin[1] /\ 1 \in DOMAIN stdin)
  BY TypeParts DEF QueuesType
<1> DEFINE N == Len(log) + 1
<1>3. /\ \A m, p : InLine(m, p)' <=> InLine(m, p)
      /\ \A m, p : EchoLine(m, p)' <=> EchoLine(m, p) \/ (m = N /\ line.type = "echo" /\ line.n = p)
      /\ \A n \in DOMAIN log : log'[n] = log[n]
      /\ \A n \in DOMAIN log' : n \in DOMAIN log \/ (n = N /\ log'[n] = line)
  BY <1>1, LinesMore
<1> HIDE DEF N
<1>4. line.type = "echo" => (\E m : InLine(m, line.n)) /\ (\A m : ~EchoLine(m, line.n))
  BY <1>1, <1>2 DEF LogInv, StdinInv
<1>5. line.type = "said" => \A n \in DOMAIN log : log[n].type = "said" => log[n].n # line.n
  BY <1>1 DEF HeardLine, LogInv, SaidBefore
<1>6. Unique'
  <2>1. \A n \in DOMAIN log : log[n].type = line.type /\ log[n].n = line.n => line.type \notin {"in", "echo", "said"}
    BY <1>1, <1>4, <1>5 DEF EchoLine
  <2> QED BY <1>1, <2>1, UniqueMore DEF LogInv
<1>7. EchoAfterIn'
  BY <1>1, <1>4, EchoAfterInMore DEF LogInv
<1>8. SaidBefore'
  <2>1. speech'.b = speech.b /\ speech'.at # "block"
        /\ (speech'.at \in {"block", "said"} => speech.at \in {"block", "said"} /\ speech'.kind = speech.kind)
    BY <1>1 DEF HeardLine, States
  <2>2. line.type = "said" => line.n = speech.b
    BY <1>1 DEF HeardLine
  <2>3. speech.b \in Nat
    BY Zenon, <1>1, StateIs
  <2>4. \A n \in DOMAIN log' : log'[n].type = "said" => log'[n].n <= speech'.b
    <3>1. \A n \in DOMAIN log : log[n].type = "said" => log[n].n <= speech.b
      BY DEF LogInv, SaidBefore
    <3>2. speech.b <= speech.b
      BY <2>3
    <3> QED BY <1>3, <2>1, <2>2, <3>1, <3>2
  <2> QED BY <2>1, <2>4 DEF LogInv, SaidBefore
<1>9. StdinInv'
  <2>1. CASE line.type # "echo"
    <3>1. \A m, p : EchoLine(m, p)' <=> EchoLine(m, p)
      BY <1>3, <2>1
    <3>2. stdin' = stdin
      BY <1>1, <2>1
    <3> QED BY <1>3, <3>1, <3>2 DEF LogInv, StdinInv
  <2>2. CASE line.type = "echo"
    <3>1. /\ stdin' = Tail(stdin) /\ line.n = stdin[1] /\ 1 \in DOMAIN stdin
          /\ \A i \in DOMAIN Tail(stdin) : i + 1 \in DOMAIN stdin /\ Tail(stdin)[i] = stdin[i + 1] /\ i + 1 # 1
          /\ \A i, j \in DOMAIN Tail(stdin) : i + 1 = j + 1 => i = j
      BY <1>1, <1>2, <2>2
    <3>2. \A i \in DOMAIN stdin' : stdin'[i] # line.n
      BY <3>1 DEF LogInv, StdinInv
    <3>3. ASSUME NEW i \in DOMAIN stdin'
          PROVE  /\ \E m : InLine(m, stdin[i])'
                 /\ \A m : ~(EchoLine(m, stdin[i])')
                 /\ \A j \in DOMAIN stdin' : stdin'[i] = stdin'[j] => i = j
      <4>1. i + 1 \in DOMAIN stdin /\ stdin'[i] = stdin[i + 1]
        BY <3>1
      <4>2. /\ \E m : InLine(m, stdin'[i])
            /\ \A m : ~EchoLine(m, stdin'[i])
        BY <4>1 DEF LogInv, StdinInv
      <4>3. \A j \in DOMAIN stdin' : stdin'[i] = stdin'[j] => i = j
        BY <3>1 DEF LogInv, StdinInv
      <4>4. /\ \E m : \A p : p = stdin'[i] => InLine(m, p)'
            /\ \A m, p : p = stdin'[i] => ~(EchoLine(m, p)')
        BY <1>3, <3>2, <4>2
      <4> QED BY <4>3, <4>4
    <3> QED BY <3>3 DEF StdinInv
  <2> QED BY <2>1, <2>2
<1>10. UpInv'
  BY <1>1, <1>3 DEF LogInv, UpInv
<1> QED BY <1>6, <1>7, <1>8, <1>9, <1>10 DEF LogInv

LEMMA HandleSendLog ==
  ASSUME TypeOK, RefsInv, LogInv, NEW w \in Windows, HandleSend(w)
  PROVE  LogInv'
<1> DEFINE p == Head(up[w])
           line == Line("in", p, "")
           N == Len(log) + 1
<1>1. /\ up[w] # <<>> /\ p \in PromptIds /\ line \in Lines /\ line.type = "in" /\ line.n = p
      /\ log' = Append(log, line) /\ stdin' = Append(stdin, p)
      /\ up' = [up EXCEPT ![w] = Tail(@)]
      /\ speech' = speech /\ prompts' = prompts
  BY HandleSendIs
<1>2. p = up[w][1] /\ 1 \in DOMAIN up[w] /\ prompts[p].by = w
  BY <1>1, HeadKnown
<1> HIDE DEF p, line
<1>3. /\ \A m, q : InLine(m, q)' <=> InLine(m, q) \/ (m = N /\ q = p)
      /\ \A m, q : EchoLine(m, q)' <=> EchoLine(m, q)
      /\ \A n \in DOMAIN log : log'[n] = log[n]
      /\ \A n \in DOMAIN log' : n \in DOMAIN log \/ (n = N /\ log'[n] = line)
  BY <1>1, LinesMore
<1> HIDE DEF N
<1>4. \A m : ~InLine(m, p)
  BY <1>2 DEF LogInv, UpInv
<1>5. Unique'
  <2>1. \A n \in DOMAIN log : ~(log[n].type = line.type /\ log[n].n = line.n)
    BY <1>1, <1>4 DEF InLine
  <2> QED BY <1>1, <2>1, UniqueMore DEF LogInv
<1>6. EchoAfterIn'
  BY <1>1, EchoAfterInMore DEF LogInv
<1>7. SaidBefore'
  BY <1>1, <1>3 DEF LogInv, SaidBefore
<1>8. StdinInv'
  <2>1. stdin \in Seq(PromptIds)
    BY TypeParts DEF QueuesType
  <2>2. /\ \A j \in DOMAIN stdin' : j = Len(stdin) + 1 \/ j \in DOMAIN stdin
        /\ \A j \in DOMAIN stdin : stdin'[j] = stdin[j] /\ j # Len(stdin) + 1
        /\ stdin'[Len(stdin) + 1] = p
    BY <1>1, <2>1, Appended
  <2>3. \A i \in DOMAIN stdin : stdin[i] # p
    BY <1>4 DEF LogInv, StdinInv
  <2>4. \A m : ~EchoLine(m, p)
    BY <1>4 DEF LogInv, EchoAfterIn, EchoLine
  <2>5. ASSUME NEW i \in DOMAIN stdin'
        PROVE  /\ \E m : InLine(m, stdin[i])'
               /\ \A m : ~(EchoLine(m, stdin[i])')
               /\ \A j \in DOMAIN stdin' : stdin'[i] = stdin'[j] => i = j
    <3>1. /\ (\E m : InLine(m, stdin'[i])) \/ stdin'[i] = p
          /\ \A m : ~EchoLine(m, stdin'[i])
      BY <2>2, <2>4 DEF LogInv, StdinInv
    <3>2. \A j \in DOMAIN stdin' : stdin'[i] = stdin'[j] => i = j
      BY <2>2, <2>3 DEF LogInv, StdinInv
    <3>3. /\ \E m : \A q : q = stdin'[i] => InLine(m, q)'
          /\ \A m, q : q = stdin'[i] => ~(EchoLine(m, q)')
      BY <1>3, <3>1
    <3> QED BY <3>2, <3>3
  <2> QED BY <2>5 DEF StdinInv
<1>9. UpInv'
  <2>1. up \in [Windows -> Seq(PromptIds)] /\ up[w] \in Seq(PromptIds)
    BY TypeParts DEF QueuesType
  <2>2. /\ up'[w] = Tail(up[w]) /\ \A u \in Windows : u # w => up'[u] = up[u]
        /\ \A i \in DOMAIN Tail(up[w]) : i + 1 \in DOMAIN up[w] /\ Tail(up[w])[i] = up[w][i + 1] /\ i + 1 # 1
        /\ \A i, j \in DOMAIN Tail(up[w]) : i + 1 = j + 1 => i = j
    BY <1>1, <2>1
  <2>3. ASSUME NEW u \in Windows, NEW i \in DOMAIN up'[u]
        PROVE  /\ \A m : ~(InLine(m, up[u][i])')
               /\ \A j \in DOMAIN up'[u] : up'[u][i] = up'[u][j] => i = j
    <3>1. CASE u = w
      <4>1. /\ up'[u][i] # p /\ \A m : ~InLine(m, up'[u][i])
            /\ \A j \in DOMAIN up'[u] : up'[u][i] = up'[u][j] => i = j
        <5>1. /\ i \in DOMAIN Tail(up[w]) /\ up'[u] = Tail(up[w])
              /\ i + 1 \in DOMAIN up[w] /\ up'[u][i] = up[w][i + 1] /\ i + 1 # 1
          BY <2>2, <3>1
        <5>2. \A m : ~InLine(m, up[w][i + 1])
          BY <5>1 DEF LogInv, UpInv
        <5>3. \A j \in DOMAIN up[w] : up[w][i + 1] = up[w][j] => i + 1 = j
          BY <5>1 DEF LogInv, UpInv
        <5>4. up'[u][i] # p
          BY <1>2, <5>1, <5>3
        <5>5. \A j \in DOMAIN up'[u] : up'[u][i] = up'[u][j] => i = j
          BY <2>2, <5>1, <5>3
        <5> QED BY <5>1, <5>2, <5>4, <5>5
      <4>2. \A m, q : q = up'[u][i] => ~(InLine(m, q)')
        BY <1>3, <4>1
      <4> QED BY <4>1, <4>2
    <3>2. CASE u # w
      <4>1. /\ up'[u][i] # p /\ \A m : ~InLine(m, up'[u][i])
            /\ \A j \in DOMAIN up'[u] : up'[u][i] = up'[u][j] => i = j
        <5>1. up'[u] = up[u] /\ i \in DOMAIN up[u]
          BY <2>2, <3>2
        <5>2. \A m : ~InLine(m, up[u][i])
          BY <5>1 DEF LogInv, UpInv
        <5>3. \A j \in DOMAIN up[u] : up[u][i] = up[u][j] => i = j
          BY <5>1 DEF LogInv, UpInv
        <5>4. prompts[up[u][i]].by = u
          BY <5>1 DEF RefsInv, RefsOf
        <5>5. up[u][i] # p
          BY <1>2, <3>2, <5>4
        <5> QED BY <5>1, <5>2, <5>3, <5>5
      <4>2. \A m, q : q = up'[u][i] => ~(InLine(m, q)')
        BY <1>3, <4>1
      <4> QED BY <4>1, <4>2
    <3> QED BY <3>1, <3>2
  <2> QED BY <2>3 DEF UpInv
<1> QED BY <1>5, <1>6, <1>7, <1>8, <1>9 DEF LogInv

LEMMA TypeLog ==
  ASSUME TypeOK, RefsInv, LogInv, NEW w \in Windows, NEW t \in Texts, Type(w, t)
  PROVE  LogInv'
<1> DEFINE p == Len(prompts) + 1
<1>1. p \notin DOMAIN prompts /\ p \in Nat
  BY PromptsGrow
<1>2. /\ UNCHANGED <<log, stdin, speech>>
      /\ \/ \E i \in 1..(Len(up[w]) + 1) : up' = [up EXCEPT ![w] = InsertAt(@, i, p)]
         \/ up' = up
  BY DEF Type
<1>3. \A m, q : InLine(m, q)' <=> InLine(m, q)
  BY <1>2 DEF InLine
<1>4. \A m : ~InLine(m, p)
  <2>1. \A n \in DOMAIN log : log[n].type = "in" => log[n].n \in DOMAIN prompts
    BY DEF RefsInv, LineKnown
  <2> QED BY <1>1, <2>1 DEF InLine
<1>5. p \in PromptIds
  <2>1. p + gaps <= MaxInputs /\ gaps \in Nat /\ Len(prompts) \in Nat
    BY TypeParts DEF Type, BoundsType
  <2> QED BY <2>1, Constants DEF PromptIds
<1> HIDE DEF p
<1>6. ASSUME NEW n \in 1..(Len(up[w]) + 1), up' = [up EXCEPT ![w] = InsertAt(@, n, p)]
      PROVE  LogInv'
  <2>1. up \in [Windows -> Seq(PromptIds)] /\ up[w] \in Seq(PromptIds)
    BY TypeParts DEF QueuesType
  <2>2. /\ \A u \in Windows : u # w => up'[u] = up[u]
        /\ \A j \in DOMAIN up'[w] : up'[w][j] = p \/ \E k \in DOMAIN up[w] : up'[w][j] = up[w][k]
        /\ \A i, j \in DOMAIN up'[w] : up'[w][i] = up'[w][j] => i = j
    <3>1. up'[w] = InsertAt(up[w], n, p) /\ \A u \in Windows : u # w => up'[u] = up[u]
      BY <1>6, <2>1
    <3>2. \A j \in DOMAIN up[w] : up[w][j] # p
      BY <1>1 DEF RefsInv, RefsOf
    <3>3. \A j, k \in DOMAIN up[w] : up[w][j] = up[w][k] => j = k
      BY DEF LogInv, UpInv
    <3>4. \A i, j \in DOMAIN up'[w] : up'[w][i] = up'[w][j] => i = j
      BY <1>5, <2>1, <3>1, <3>2, <3>3, InsertedOnce
    <3>5. \A j \in DOMAIN up'[w] : up'[w][j] = p \/ \E k \in DOMAIN up[w] : up'[w][j] = up[w][k]
      BY <1>5, <2>1, <3>1, Inserted
    <3> QED BY <3>1, <3>4, <3>5
  <2>3. UpInv'
    <3>1. ASSUME NEW u \in Windows, NEW i \in DOMAIN up'[u]
          PROVE  /\ \A m : ~InLine(m, up'[u][i])
                 /\ \A j \in DOMAIN up'[u] : up'[u][i] = up'[u][j] => i = j
      <4>1. CASE u # w
        <5>1. up'[u] = up[u]
          BY <2>2, <4>1
        <5> QED BY <5>1 DEF LogInv, UpInv
      <4>2. CASE u = w
        <5>1. up'[w][i] = p \/ \E k \in DOMAIN up[w] : up'[w][i] = up[w][k]
          BY <2>2, <4>2
        <5>2. \A m : ~InLine(m, up'[w][i])
          BY <1>4, <5>1 DEF LogInv, UpInv
        <5> QED BY <2>2, <4>2, <5>2
      <4> QED BY <4>1, <4>2
    <3>2. ASSUME NEW u \in Windows, NEW i \in DOMAIN up'[u]
          PROVE  /\ \A m : ~(InLine(m, up[u][i])')
                 /\ \A j \in DOMAIN up'[u] : up'[u][i] = up'[u][j] => i = j
      <4>1. \A m, q : q = up'[u][i] => (InLine(m, q)' <=> InLine(m, q))
        BY <1>3
      <4> QED BY <3>1, <4>1
    <3> QED BY <3>2 DEF UpInv
  <2>4. Unique' /\ EchoAfterIn'
    BY <1>2 DEF LogInv, Unique, EchoAfterIn, InLine
  <2> QED BY <1>2, <2>3, <2>4, StdinSame, SaidStays DEF LogInv
<1> QED BY <1>2, <1>6, LogStays

\* Every step keeps what is known of the log.
LEMMA LogInvNext ==
  ASSUME TypeOK, RefsInv, LogInv, [Next]_vars
  PROVE  LogInv'
<1>1. ASSUME Speak PROVE LogInv'
  BY <1>1, SpeakIs, SpeakStreamLog, SpeakLineLog
<1>2. ASSUME NEW w \in Windows,
             Join(w) \/ AskEcho(w) \/ Read(w) \/ Deliver(w) \/ Receive(w) \/ Gap(w)
      PROVE  LogInv'
  BY <1>2, LogStays DEF Join, AskEcho, Read, Deliver, Receive, Gap
<1>3. ASSUME Store \/ UNCHANGED vars PROVE LogInv'
  BY <1>3, LogStays DEF Store, vars
<1> QED BY <1>1, <1>2, <1>3, HandleSendLog, TypeLog DEF Next

-----------------------------------------------------------------------------
(* The inbox of a window *)

\* The lines given and those on their way come in the order of the log.
Ordered(q, G) ==
  \A i \in DOMAIN q : \A n \in LinesOf(q[i]) :
    (\A m \in G : m < n) /\ \A j \in DOMAIN q : j < i => \A m \in LinesOf(q[j]) : m < n

\* A line was given or is on its way, in a batch of the history or in any event.
Coming(q, G, n) == n \in G \/ \E i \in DOMAIN q : n \in LinesOf(q[i])
Old(q, G, n) == n \in G \/ \E i \in DOMAIN q : q[i].type = "history" /\ n \in LinesOf(q[i])

\* A queue with an event more, or without the first.
LEMMA OrderedAppend ==
  ASSUME NEW q \in Seq(Events), NEW e \in Events, NEW G
  PROVE  /\ \A n : Coming(Append(q, e), G, n) <=> Coming(q, G, n) \/ n \in LinesOf(e)
         /\ \A n : Old(Append(q, e), G, n) <=> Old(q, G, n) \/ (e.type = "history" /\ n \in LinesOf(e))
         /\ Ordered(q, G) /\ (\A n \in LinesOf(e) : \A m : Coming(q, G, m) => m < n) => Ordered(Append(q, e), G)
<1> DEFINE r == Append(q, e)
           l == Len(q) + 1
<1>1. /\ \A i \in DOMAIN q : r[i] = q[i] /\ i # l /\ i \in DOMAIN r
      /\ \A i \in DOMAIN r : i = l \/ i \in DOMAIN q
      /\ r[l] = e /\ l \in DOMAIN r
      /\ \A i \in DOMAIN q : ~(l < i)
  <2>1. /\ \A i \in DOMAIN q : r[i] = q[i] /\ i # l /\ i \in DOMAIN r
        /\ \A i \in DOMAIN r : i = l \/ i \in DOMAIN q
        /\ r[l] = e /\ l \in DOMAIN r
    BY Appended
  <2>2. \A i \in DOMAIN q : ~(l < i)
    OBVIOUS
  <2> QED BY <2>1, <2>2
<1>2. l \in Nat /\ \A i \in DOMAIN q : i \in Nat
  OBVIOUS
<1> HIDE DEF r, l
<1>3. \A n : Coming(r, G, n) <=> Coming(q, G, n) \/ n \in LinesOf(e)
  BY <1>1 DEF Coming
<1>4. \A n : Old(r, G, n) <=> Old(q, G, n) \/ (e.type = "history" /\ n \in LinesOf(e))
  BY <1>1 DEF Old
<1>5. ASSUME Ordered(q, G), \A n \in LinesOf(e) : \A m : Coming(q, G, m) => m < n
      PROVE  Ordered(r, G)
  <2>1. ASSUME NEW i \in DOMAIN r, NEW n \in LinesOf(r[i])
        PROVE  (\A m \in G : m < n) /\ \A j \in DOMAIN r : j < i => \A m \in LinesOf(r[j]) : m < n
    <3>1. CASE i \in DOMAIN q
      <4>1. r[i] = q[i] /\ \A j \in DOMAIN r : j < i => j \in DOMAIN q /\ r[j] = q[j]
        BY <1>1, <3>1
      <4> QED BY <1>5, <3>1, <4>1 DEF Ordered
    <3>2. CASE i = l
      <4>1. \A m : Coming(q, G, m) => m < n
        BY <1>1, <1>5, <3>2
      <4>2. \A j \in DOMAIN r : j < i => j \in DOMAIN q /\ r[j] = q[j]
        BY <1>1, <1>2, <3>2
      <4> QED BY <4>1, <4>2 DEF Coming
    <3> QED BY <1>1, <3>1, <3>2
  <2> QED BY <2>1 DEF Ordered
<1> QED BY <1>3, <1>4, <1>5 DEF r

LEMMA OrderedTail ==
  ASSUME NEW q \in Seq(Events), q # <<>>, NEW G
  PROVE  LET e == Head(q)
         IN /\ \A n : Coming(Tail(q), G \cup LinesOf(e), n) <=> Coming(q, G, n)
            /\ \A n : Coming(q, G, n) <=> Coming(Tail(q), G, n) \/ n \in LinesOf(e)
            /\ \A n : Old(q, G, n) <=> Old(Tail(q), G, n) \/ (e.type = "history" /\ n \in LinesOf(e))
            /\ \A n : e.type = "history" => (Old(Tail(q), G \cup LinesOf(e), n) <=> Old(q, G, n))
            /\ Ordered(q, G) => Ordered(Tail(q), G \cup LinesOf(e)) /\ Ordered(Tail(q), G)
                                /\ \A n \in LinesOf(e) : \A m \in G : m < n
<1> DEFINE e == Head(q)
           r == Tail(q)
<1>1. /\ \A i \in DOMAIN r : r[i] = q[i + 1] /\ i + 1 \in DOMAIN q /\ i + 1 # 1 /\ 1 < i + 1
      /\ \A i \in DOMAIN q : i = 1 \/ (i - 1 \in DOMAIN r /\ (i - 1) + 1 = i)
      /\ e = q[1] /\ 1 \in DOMAIN q
      /\ \A i, j \in DOMAIN r : j < i => j + 1 < i + 1
  OBVIOUS
<1> HIDE DEF e, r
<1>2. \A i \in DOMAIN q : i = 1 \/ \E k \in DOMAIN r : q[i] = r[k]
  BY <1>1
<1>3. \A n : Coming(q, G, n) <=> Coming(r, G, n) \/ n \in LinesOf(e)
  BY <1>1, <1>2 DEF Coming
<1>4. \A n : Coming(r, G \cup LinesOf(e), n) <=> Coming(r, G, n) \/ n \in LinesOf(e)
  BY DEF Coming
<1>5. \A n : Old(q, G, n) <=> Old(r, G, n) \/ (e.type = "history" /\ n \in LinesOf(e))
  BY <1>1, <1>2 DEF Old
<1>6. \A n : Old(r, G \cup LinesOf(e), n) <=> Old(r, G, n) \/ n \in LinesOf(e)
  BY DEF Old
<1>7. ASSUME Ordered(q, G)
      PROVE  Ordered(r, G \cup LinesOf(e)) /\ Ordered(r, G) /\ \A n \in LinesOf(e) : \A m \in G : m < n
  <2>1. ASSUME NEW i \in DOMAIN r, NEW n \in LinesOf(r[i])
        PROVE  (\A m \in G \cup LinesOf(e) : m < n) /\ \A j \in DOMAIN r : j < i => \A m \in LinesOf(r[j]) : m < n
    <3>1. i + 1 \in DOMAIN q /\ r[i] = q[i + 1] /\ 1 < i + 1
      BY <1>1
    <3>2. /\ \A m \in G : m < n
          /\ \A j \in DOMAIN q : j < i + 1 => \A m \in LinesOf(q[j]) : m < n
      BY <1>7, <3>1 DEF Ordered
    <3>3. \A m \in LinesOf(e) : m < n
      BY <1>1, <3>1, <3>2
    <3>4. \A j \in DOMAIN r : j < i => \A m \in LinesOf(r[j]) : m < n
      BY <1>1, <3>2
    <3> QED BY <3>2, <3>3, <3>4
  <2>2. \A n \in LinesOf(e) : \A m \in G : m < n
    BY <1>1, <1>7 DEF Ordered
  <2> QED BY <2>1, <2>2 DEF Ordered
<1> QED BY <1>3, <1>4, <1>5, <1>6, <1>7 DEF e, r

-----------------------------------------------------------------------------
(* A window that is being joined or refreshed, and what it is sent *)

\* Nothing stands between a window and the conversation: it is not to be refreshed, and
\* nothing was said or typed since it was told to.
Sound(u) == ~past[u].disturbed /\ ~Gapped(u)

\* The batches come first, then the answer to the join.
Shaped(q, c) ==
  /\ \A i, j \in DOMAIN q : i < j /\ q[j].type \in {"history", "joined"} => q[i].type = "history"
  /\ c.phase # "none" => \A i \in DOMAIN q : q[i].type = "history"

\* The batches on their way belong to the replay of the window.
Numbered(q, c, v) ==
  /\ \A i \in DOMAIN q : q[i].type = "history" => q[i].round = v.round
  /\ c.phase # "none" => c.round = v.round
  /\ v.replay \in {0, v.round}

\* A window is being replayed.
Active(q, c) == c.phase # "none" \/ \E i \in DOMAIN q : q[i].type = "history"

\* A replay that was not begun finds an empty window.
Fresh(q, c, v, h) == Active(q, c) /\ v.replay = 0 => v.msgs = <<>> /\ h.given = {}

\* What a window may expect: a batch before it is in the channel or while it refreshes,
\* nothing of the kind once the user can type.
Prepared(u) ==
  /\ u \notin members => ~win[u].ready /\ \A i \in DOMAIN inbox[u] : inbox[u][i].type = "history"
  /\ past[u].lossy => \A i \in DOMAIN inbox[u] : inbox[u][i].type \in {"history", "joined"}
  /\ win[u].ready /\ ~past[u].lossy =>
       call[u].phase = "none" /\ \A i \in DOMAIN inbox[u] : inbox[u][i].type \notin {"history", "joined"}
  /\ past[u].lossy \/ ~win[u].ready => past[u].typed = {}
  /\ call[u].phase # "none" /\ u \in members => past[u].lossy

\* The cursor of a join.
Cursor(c) == (c.phase = "echo" => c.pos = 0) /\ (c.phase = "rows" => c.pos <= c.upto)

\* The lines of a join: those up to the cursor, without those of stdin if they are echoed.
Upon(n, k, x) == n \in 1..k /\ ~(x /\ log[n].type = "in")

\* All lines are with the window or on their way to it, in the order of the log.
Placed(u) ==
  /\ Ordered(inbox[u], past[u].given)
  /\ u \in members /\ call[u].phase = "none" =>
       \A n \in DOMAIN log :
         log[n].type = "in" \/ n \in past[u].missed \/ Coming(inbox[u], past[u].given, n)
  /\ call[u].phase # "none" =>
       \A n : Coming(inbox[u], past[u].given, n) <=> Upon(n, call[u].pos, call[u].echo)

\* What a window is replayed is the beginning of the log.
Prefix(u) ==
  Active(inbox[u], call[u]) =>
    \E k \in 0..Len(log), x \in BOOLEAN : \A n : Old(inbox[u], past[u].given, n) <=> Upon(n, k, x)

Orderly(u) ==
  /\ Shaped(inbox[u], call[u]) /\ Numbered(inbox[u], call[u], win[u])
  /\ Fresh(inbox[u], call[u], win[u], past[u]) /\ Prepared(u) /\ Placed(u) /\ Prefix(u)

\* A window that was not opened yet.
Idle(u) ==
  win[u].round = 0 =>
    win[u].msgs = <<>> /\ past[u].given = {} /\ win[u].replay = 0 /\ ~win[u].ready

\* What holds of a window, and as long as it lost no event for good.
WinInv(u) ==
  /\ Cursor(call[u]) /\ Idle(u)
  /\ past[u].disturbed => past[u].lossy
  /\ past[u].lossy => u \in members
  /\ ~past[u].disturbed /\ Gapped(u) => Len(inbox[u]) = 1 /\ past[u].lossy
  /\ Sound(u) => Orderly(u)

\* All that is on its way is in the log.
LEMMA ComingInLog ==
  ASSUME NEW u, RefsOf(u), NEW n, Coming(inbox[u], past[u].given, n)
  PROVE  n \in DOMAIN log
BY DEF RefsOf, Coming

\* The beginning of the log stays.
LEMMA UponSame ==
  ASSUME TypeOK, Grows, NEW k \in 0..Len(log), NEW x, NEW n
  PROVE  Upon(n, k, x)' <=> Upon(n, k, x)
<1>1. n \in 1..k => n \in DOMAIN log
  BY TypeParts DEF LogType
<1> QED BY <1>1 DEF Upon, Grows

LEMMA PrefixSame ==
  ASSUME TypeOK, Grows, TypeOK', NEW u, Prefix(u), Active(inbox[u], call[u]),
         \A n : Old(inbox[u], past[u].given, n)' <=> Old(inbox[u], past[u].given, n)
  PROVE  Prefix(u)'
<1>1. PICK k \in 0..Len(log), x \in BOOLEAN : \A n : Old(inbox[u], past[u].given, n) <=> Upon(n, k, x)
  BY DEF Prefix
<1>2. k \in 0..Len(log')
  <2>1. DOMAIN log \subseteq DOMAIN log' /\ DOMAIN log = 1..Len(log) /\ DOMAIN log' = 1..Len(log')
        /\ Len(log) \in Nat /\ Len(log') \in Nat
    <3>1. log \in Seq(Lines) /\ log' \in Seq(Lines)
      BY DEF TypeOK
    <3> QED BY <3>1 DEF Grows
  <2>2. k = 0 \/ k \in DOMAIN log
    BY <2>1
  <2> QED BY <2>1, <2>2
<1>3. \A n : Upon(n, k, x)' <=> Upon(n, k, x)
  BY UponSame
<1>4. \A n : Old(inbox[u], past[u].given, n)' <=> Upon(n, k, x)'
  BY <1>1, <1>3
<1> QED BY <1>2, <1>4 DEF Prefix

\* A window that no event of the step is for.
LEMMA WinStays ==
  ASSUME TypeOK, TypeOK', Grows, NEW u \in Windows, RefsOf(u), RoundsOf(u), Same(u), WinInv(u),
         \A n \in DOMAIN log' : n \in DOMAIN log \/ u \notin members \/ log'[n].type = "in"
  PROVE  WinInv(u)'
<1>1. /\ inbox'[u] = inbox[u] /\ call'[u] = call[u] /\ win'[u] = win[u] /\ past'[u] = past[u]
      /\ (u \in members' <=> u \in members)
  BY DEF Same
<1>2. (Sound(u)' <=> Sound(u)) /\ (Gapped(u)' <=> Gapped(u))
  BY <1>1 DEF Sound, Gapped
<1>3. ASSUME Sound(u) PROVE Orderly(u)'
  <2>1. Orderly(u)
    BY <1>3 DEF WinInv
  <2>2. /\ Shaped(inbox[u], call[u])' /\ Numbered(inbox[u], call[u], win[u])'
        /\ Fresh(inbox[u], call[u], win[u], past[u])'
    BY <1>1, <2>1 DEF Orderly, Shaped, Numbered, Fresh, Active
  <2>3. Prepared(u)'
    BY <1>1, <2>1 DEF Orderly, Prepared
  <2>4. \A n : /\ Coming(inbox[u], past[u].given, n)' <=> Coming(inbox[u], past[u].given, n)
               /\ Old(inbox[u], past[u].given, n)' <=> Old(inbox[u], past[u].given, n)
    BY <1>1 DEF Coming, Old, LinesOf
  <2>5. Prefix(u)'
    <3>1. CASE Active(inbox[u], call[u])
      BY <2>1, <2>4, <3>1, PrefixSame DEF Orderly
    <3>2. CASE ~Active(inbox[u], call[u])
      <4>1. ~(Active(inbox[u], call[u])')
        BY <1>1, <3>2 DEF Active
      <4> QED BY <4>1 DEF Prefix
    <3> QED BY <3>1, <3>2
  <2>6. Placed(u)'
    <3>1. Ordered(inbox[u], past[u].given)'
      BY <1>1, <2>1 DEF Orderly, Placed, Ordered, LinesOf
    <3>2. u \in members' /\ call'[u].phase = "none" =>
            \A n \in DOMAIN log' :
              log'[n].type = "in" \/ n \in past'[u].missed \/ Coming(inbox[u], past[u].given, n)'
      <4>1. u \in members /\ call[u].phase = "none" =>
              \A n \in DOMAIN log :
                log'[n].type = "in" \/ n \in past'[u].missed \/ Coming(inbox[u], past[u].given, n)'
        BY <1>1, <2>1, <2>4 DEF Orderly, Placed, Grows
      <4> QED BY <1>1, <4>1
    <3>3. call'[u].phase # "none" =>
            \A n : Coming(inbox[u], past[u].given, n)' <=> Upon(n, call[u].pos, call[u].echo)'
      <4>1. call[u].pos \in 0..Len(log)
        <5>1. call[u].pos \in 0..stored /\ stored \in Nat /\ Len(log) \in Nat /\ stored <= Len(log)
          BY ViewIs, CallIs
        <5> QED BY <5>1
      <4>2. \A n : Upon(n, call[u].pos, call[u].echo)' <=> Upon(n, call[u].pos, call[u].echo)
        <5>1. DOMAIN log = 1..Len(log) /\ Len(log) \in Nat
          BY TypeParts DEF LogType
        <5>2. \A n \in 1..call[u].pos : log'[n] = log[n]
          BY <4>1, <5>1 DEF Grows
        <5> QED BY <1>1, <5>2 DEF Upon
      <4> QED BY <1>1, <2>1, <2>4, <4>2 DEF Orderly, Placed
    <3> QED BY <3>1, <3>2, <3>3 DEF Placed
  <2> QED BY <2>2, <2>3, <2>5, <2>6 DEF Orderly
<1>4. Idle(u)'
  BY <1>1 DEF WinInv, Idle
<1> QED BY <1>1, <1>2, <1>3, <1>4 DEF WinInv, Cursor

\* What the process says reaches a window.
LEMMA WinHears ==
  ASSUME TypeOK, TypeOK', Grows, NEW u \in Windows, RefsOf(u), RoundsOf(u), NEW e \in Events, Hears(u, e),
         WinInv(u), e.type \notin {"history", "joined", "refresh"},
         \A n \in LinesOf(e) : \A m \in DOMAIN log : m < n,
         \A n \in DOMAIN log' : n \in DOMAIN log \/ n \in LinesOf(e)
  PROVE  WinInv(u)'
<1> DEFINE q == inbox[u]
           r == inbox'[u]
           G == past[u].given
<1>1. /\ inbox'[u] = Append(inbox[u], e) /\ call'[u] = call[u] /\ win'[u] = win[u]
      /\ u \in members /\ u \in members' /\ past'[u].given = G /\ past'[u].lossy = past[u].lossy
      /\ IF past[u].lossy THEN past'[u].disturbed ELSE past'[u] = past[u]
      /\ past[u].lossy \in BOOLEAN /\ past[u].disturbed \in BOOLEAN
  BY ViewIs, HistoryIs DEF Hears, SameHistory
<1>2. q \in Seq(Events) /\ r = Append(q, e)
  BY <1>1, ViewIs
<1>3. Gapped(u)' <=> Gapped(u)
  BY <1>2, NoRefreshSent DEF Gapped
<1>6. Idle(u)'
  <2>1. win[u].round # 0
    BY <1>1 DEF RoundsOf
  <2> QED BY <1>1, <2>1 DEF Idle
<1>4. CASE past[u].lossy
  <2>1. past'[u].disturbed /\ past'[u].lossy
    BY <1>1, <1>4
  <2> QED BY <1>1, <1>6, <2>1 DEF WinInv, Sound, Cursor
<1>5. CASE ~past[u].lossy
  <2>1. past'[u] = past[u] /\ ~past[u].disturbed /\ ~Gapped(u)
    BY <1>1, <1>5 DEF WinInv
  <2>2. Orderly(u)
    BY <2>1 DEF WinInv, Sound
  <2>3. /\ \A i \in DOMAIN r : i = Len(q) + 1 \/ i \in DOMAIN q
        /\ \A i \in DOMAIN q : r[i] = q[i] /\ i \in DOMAIN r
        /\ r[Len(q) + 1] = e
    BY <1>2, Appended
  <2>4. call[u].phase = "none"
    BY <1>1, <1>5, <2>2 DEF Orderly, Prepared
  <2>5. Active(q, call[u]) <=> Active(r, call[u])
    BY <2>3 DEF Active
  <2>6. Shaped(r, call[u])
    <3>1. ASSUME NEW i \in DOMAIN r, NEW j \in DOMAIN r, i < j, r[j].type \in {"history", "joined"}
          PROVE  r[i].type = "history"
      <4>1. j \in DOMAIN q /\ r[j] = q[j]
        BY <2>3, <3>1
      <4>2. i \in DOMAIN q /\ r[i] = q[i]
        <5>1. i # Len(q) + 1
          BY <1>2, <3>1, <4>1
        <5> QED BY <2>3, <5>1
      <4> QED BY <2>2, <3>1, <4>1, <4>2 DEF Orderly, Shaped
    <3> QED BY <2>4, <3>1 DEF Shaped
  <2>7. Numbered(r, call[u], win[u])
    BY <2>2, <2>3 DEF Orderly, Numbered
  <2>8. Fresh(r, call[u], win[u], past[u])
    BY <2>2, <2>5 DEF Orderly, Fresh
  <2>9. Prepared(u)'
    <3>1. win[u].ready => \A i \in DOMAIN r : r[i].type \notin {"history", "joined"}
      BY <1>5, <2>2, <2>3 DEF Orderly, Prepared
    <3>2. ~win[u].ready => past[u].typed = {}
      BY <2>2 DEF Orderly, Prepared
    <3> QED BY <1>1, <1>5, <2>1, <2>4, <3>1, <3>2 DEF Prepared
  <2>10. /\ \A n : Coming(r, G, n) <=> Coming(q, G, n) \/ n \in LinesOf(e)
         /\ \A n : Old(r, G, n) <=> Old(q, G, n)
         /\ Ordered(r, G)
    <3>1. \A m : Coming(q, G, m) => m \in DOMAIN log
      BY ComingInLog
    <3>2. Ordered(q, G)
      BY <2>2 DEF Orderly, Placed
    <3> HIDE DEF q, r, G
    <3> QED BY <1>2, <3>1, <3>2, OrderedAppend
  <2>11. Placed(u)'
    <3>1. Ordered(inbox[u], past[u].given)'
      BY <2>1, <2>10 DEF Ordered, LinesOf
    <3>2. \A n : Coming(inbox[u], past[u].given, n)' <=> Coming(r, G, n)
      BY <2>1 DEF Coming, LinesOf
    <3>3. \A n \in DOMAIN log' : log'[n].type = "in" \/ n \in past'[u].missed \/ Coming(r, G, n)
      <4>1. \A n \in DOMAIN log : log'[n].type = "in" \/ n \in past'[u].missed \/ Coming(q, G, n)
        BY <1>1, <2>1, <2>2, <2>4 DEF Orderly, Placed, Grows
      <4> QED BY <2>10, <4>1
    <3> QED BY <1>1, <2>4, <3>1, <3>2, <3>3 DEF Placed
  <2>12. Prefix(u)'
    <3>1. \A n : Old(inbox[u], past[u].given, n)' <=> Old(inbox[u], past[u].given, n)
      <4>1. \A n : Old(inbox[u], past[u].given, n)' <=> Old(r, G, n)
        BY <2>1 DEF Old, LinesOf
      <4> QED BY <2>10, <4>1
    <3>2. CASE Active(q, call[u])
      BY <2>2, <3>1, <3>2, PrefixSame DEF Orderly
    <3>3. CASE ~Active(q, call[u])
      <4>1. ~(Active(inbox[u], call[u])')
        BY <1>1, <2>5, <3>3 DEF Active
      <4> QED BY <4>1 DEF Prefix
    <3> QED BY <3>2, <3>3
  <2>13. Orderly(u)'
    <3>1. Shaped(inbox[u], call[u])' /\ Numbered(inbox[u], call[u], win[u])'
          /\ Fresh(inbox[u], call[u], win[u], past[u])'
      BY <1>1, <2>1, <2>6, <2>7, <2>8 DEF Shaped, Numbered, Fresh, Active
    <3> QED BY <2>9, <2>11, <2>12, <3>1 DEF Orderly
  <2> QED BY <1>1, <1>3, <1>6, <2>1, <2>13 DEF WinInv, Cursor, Sound
<1> QED BY <1>4, <1>5

\* The steps of a join.
LEMMA WinJoin ==
  ASSUME TypeOK, TypeOK', NEW u \in Windows, RefsOf(u), RoundsOf(u), WinInv(u), Join(u)
  PROVE  WinInv(u)'
<1> DEFINE c == [NoCall EXCEPT !.phase = "echo", !.round = 1]
<1>1. /\ win[u].round = 0 /\ call' = [call EXCEPT ![u] = c] /\ win' = [win EXCEPT ![u].round = 1]
      /\ UNCHANGED <<log, inbox, members, past>>
  BY DEF Join, Joining
<1>2. c.phase = "echo" /\ c.pos = 0 /\ c.round = 1 /\ c.echo = FALSE
  BY DEF NoCall
<1> HIDE DEF c
<1>3. /\ call'[u] = c /\ win'[u].round = 1 /\ win'[u].msgs = win[u].msgs /\ win'[u].replay = win[u].replay
      /\ win'[u].ready = win[u].ready /\ inbox[u] = <<>> /\ u \notin members /\ call[u].phase = "none"
      /\ inbox'[u] = <<>> /\ past'[u] = past[u]
  <2>1. win[u] \in Views /\ DOMAIN win = Windows /\ DOMAIN call = Windows
    BY ViewIs
  <2>2. inbox[u] = <<>> /\ u \notin members /\ call[u].phase = "none"
    BY <1>1 DEF RoundsOf
  <2> QED BY <1>1, <2>1, <2>2 DEF Views
<1>4. ~Gapped(u) /\ ~(Gapped(u)')
  BY <1>3 DEF Gapped
<1>5. ~past[u].lossy /\ ~past[u].disturbed
  BY <1>3 DEF WinInv
<1>6. Orderly(u) /\ (Sound(u)')
  BY <1>3, <1>4, <1>5 DEF WinInv, Sound
<1>7. /\ win[u].msgs = <<>> /\ past[u].given = {} /\ win[u].replay = 0 /\ ~win[u].ready
  BY <1>1 DEF WinInv, Idle
<1>8. \A n : /\ ~(Coming(inbox[u], past[u].given, n)') /\ ~(Old(inbox[u], past[u].given, n)')
             /\ ~(Upon(n, call[u].pos, call[u].echo)') /\ ~(Upon(n, 0, FALSE)')
  <2>1. \A n : n \notin 1..0
    OBVIOUS
  <2> QED BY <1>2, <1>3, <1>7, <2>1 DEF Coming, Old, Upon
<1>9. /\ Shaped(inbox[u], call[u])' /\ Numbered(inbox[u], call[u], win[u])'
      /\ Fresh(inbox[u], call[u], win[u], past[u])'
  BY <1>2, <1>3, <1>7 DEF Shaped, Numbered, Fresh
<1>10. Prepared(u)'
  BY <1>1, <1>2, <1>3, <1>5, <1>6, <1>7 DEF Orderly, Prepared
<1>11. Placed(u)'
  <2>1. Ordered(inbox[u], past[u].given)'
    BY <1>3 DEF Ordered
  <2> QED BY <1>1, <1>2, <1>3, <1>8, <2>1 DEF Placed
<1>12. Prefix(u)'
  <2>1. 0 \in 0..Len(log')
    <3>1. log' \in Seq(Lines)
      BY DEF TypeOK
    <3> QED BY <3>1
  <2> QED BY <1>8, <2>1 DEF Prefix
<1> QED BY <1>1, <1>2, <1>3, <1>4, <1>5, <1>9, <1>10, <1>11, <1>12 DEF WinInv, Orderly, Cursor, Idle

LEMMA WinAsk ==
  ASSUME TypeOK, TypeOK', NEW u \in Windows, RefsOf(u), RoundsOf(u), WinInv(u), AskEcho(u) \/ Read(u)
  PROVE  WinInv(u)'
<1>1. /\ call[u].phase # "none" /\ call'[u].phase # "none" /\ call'[u].round = call[u].round
      /\ call'[u].pos = call[u].pos /\ (call'[u].echo = call[u].echo \/ call[u].phase = "echo")
      /\ Cursor(call'[u])
      /\ UNCHANGED <<log, inbox, members, past, win>>
  <2>1. call[u] \in Calls /\ DOMAIN call = Windows
    BY ViewIs
  <2>2. CASE AskEcho(u)
    BY <2>1, <2>2 DEF AskEcho, Calls, Cursor
  <2>3. CASE Read(u)
    <3>1. call[u].pos <= Upto(call[u])
      BY <2>1, UptoType
    <3> QED BY <2>1, <2>3, <3>1 DEF Read, Calls, Cursor
  <2> QED BY <2>2, <2>3
<1>2. (Sound(u)' <=> Sound(u)) /\ (Gapped(u)' <=> Gapped(u))
  BY <1>1 DEF Sound, Gapped
<1>3. ASSUME Sound(u) PROVE Orderly(u)'
  <2>1. Orderly(u)
    BY <1>3 DEF WinInv
  <2>2. /\ Shaped(inbox[u], call[u])' /\ Numbered(inbox[u], call[u], win[u])'
        /\ Fresh(inbox[u], call[u], win[u], past[u])'
    BY <1>1, <2>1 DEF Orderly, Shaped, Numbered, Fresh, Active
  <2>3. Prepared(u)'
    BY <1>1, <2>1 DEF Orderly, Prepared
  <2>4. \A n : Upon(n, call[u].pos, call[u].echo)' <=> Upon(n, call[u].pos, call[u].echo)
    <3>1. CASE call[u].phase = "echo"
      <4>1. call[u].pos = 0 /\ call'[u].pos = 0
        BY <1>1, <3>1 DEF WinInv, Cursor
      <4>2. \A n : n \notin 1..0
        OBVIOUS
      <4> QED BY <4>1, <4>2 DEF Upon
    <3>2. CASE call[u].phase # "echo"
      BY <1>1, <3>2 DEF Upon
    <3> QED BY <3>1, <3>2
  <2>5. \A n : /\ Coming(inbox[u], past[u].given, n)' <=> Coming(inbox[u], past[u].given, n)
               /\ Old(inbox[u], past[u].given, n)' <=> Old(inbox[u], past[u].given, n)
    BY <1>1 DEF Coming, Old, LinesOf
  <2>6. Placed(u)'
    <3>1. Ordered(inbox[u], past[u].given)'
      BY <1>1, <2>1 DEF Orderly, Placed, Ordered, LinesOf
    <3> QED BY <1>1, <2>1, <2>4, <2>5, <3>1 DEF Orderly, Placed
  <2>7. Prefix(u)'
    <3>1. Grows
      BY <1>1 DEF Grows, AskEcho, Read
    <3>2. Active(inbox[u], call[u])
      BY <1>1 DEF Active
    <3> QED BY <2>1, <2>5, <3>1, <3>2, PrefixSame DEF Orderly
  <2> QED BY <2>2, <2>3, <2>6, <2>7 DEF Orderly
<1>4. Idle(u)'
  BY <1>1 DEF WinInv, Idle
<1> QED BY <1>1, <1>2, <1>3, <1>4 DEF WinInv

\* What is there of the history once the rows that were read are passed on.
Delivered(u, r) ==
  /\ r \in Seq(Events)
  /\ \A i \in DOMAIN r : r[i].type = "history" /\ r[i].round = win[u].round
  /\ Ordered(r, past[u].given)
  /\ \A n : /\ Coming(r, past[u].given, n) <=> Upon(n, call[u].upto, call[u].echo)
            /\ Old(r, past[u].given, n) <=> Upon(n, call[u].upto, call[u].echo)

\* With the batch, the lines up to the next cursor are on their way.
LEMMA HistoryDelivered ==
  ASSUME TypeOK, NEW u \in Windows, WinInv(u), Sound(u), call[u].phase = "rows"
  PROVE  /\ Delivered(u, Append(inbox[u], Batch(call[u])))
         /\ call[u].upto <= call[u].pos => Delivered(u, inbox[u])
<1> DEFINE q == inbox[u]
           c == call[u]
           G == past[u].given
           b == Batch(c)
           r == Append(q, b)
<1>1. /\ q \in Seq(Events) /\ c \in Calls /\ b \in Events /\ b.type = "history" /\ LinesOf(b) = Filtered(c)
      /\ b.round = c.round /\ c.pos \in Nat /\ c.upto \in Nat
  BY ViewIs, CallIs, BatchType DEF LinesOf
<1>2. /\ c.pos <= c.upto /\ c.round = win[u].round /\ Ordered(q, G)
      /\ \A i \in DOMAIN q : q[i].type = "history" /\ q[i].round = win[u].round
      /\ \A n : Coming(q, G, n) <=> Upon(n, c.pos, c.echo)
  BY DEF WinInv, Cursor, Orderly, Shaped, Numbered, Placed
<1>3. \A n : /\ Upon(n, c.upto, c.echo) <=> Upon(n, c.pos, c.echo) \/ n \in Filtered(c)
             /\ n \in Filtered(c) => \A m : Upon(m, c.pos, c.echo) => m < n
  <2>1. \A n : n \in 1..c.upto <=> n \in 1..c.pos \/ n \in (c.pos + 1)..c.upto
    BY <1>1, <1>2
  <2>2. \A n \in (c.pos + 1)..c.upto : \A m \in 1..c.pos : m < n
    BY <1>1, <1>2
  <2> QED BY <2>1, <2>2 DEF Upon, Filtered
<1>4. \A n : Old(q, G, n) <=> Coming(q, G, n)
  BY <1>2 DEF Old, Coming
<1> HIDE DEF q, c, G, b
<1>5. /\ r \in Seq(Events)
      /\ \A i \in DOMAIN r : i = Len(q) + 1 \/ i \in DOMAIN q
      /\ \A i \in DOMAIN q : r[i] = q[i]
      /\ r[Len(q) + 1] = b
  BY <1>1, Appended
<1>6. \A i \in DOMAIN r : r[i].type = "history" /\ r[i].round = win[u].round
  BY <1>1, <1>2, <1>5
<1>7. /\ Ordered(r, G)
      /\ \A n : /\ Coming(r, G, n) <=> Upon(n, c.upto, c.echo)
                /\ Old(r, G, n) <=> Upon(n, c.upto, c.echo)
  <2>1. /\ \A n : Coming(r, G, n) <=> Coming(q, G, n) \/ n \in LinesOf(b)
        /\ \A n : Old(r, G, n) <=> Old(q, G, n) \/ n \in LinesOf(b)
        /\ Ordered(q, G) /\ (\A n \in LinesOf(b) : \A m : Coming(q, G, m) => m < n) => Ordered(r, G)
    BY <1>1, OrderedAppend
  <2>2. \A n \in LinesOf(b) : \A m : Coming(q, G, m) => m < n
    BY <1>1, <1>2, <1>3
  <2> QED BY <1>1, <1>2, <1>3, <1>4, <2>1, <2>2
<1>8. c.upto <= c.pos => c.upto = c.pos
  BY <1>1, <1>2
<1>9. Delivered(u, r)
  BY <1>5, <1>6, <1>7 DEF Delivered, c, G
<1>10. c.upto <= c.pos => Delivered(u, q)
  BY <1>1, <1>2, <1>4, <1>8 DEF Delivered, c, G
<1> QED BY <1>9, <1>10 DEF q, c, G, b

\* A join goes on, or is answered.
LEMMA WinContinues ==
  ASSUME TypeOK, TypeOK', NEW u \in Windows, RefsOf(u), RoundsOf(u), WinInv(u), call[u].phase = "rows",
         Continues(u), UNCHANGED <<log, win>>
  PROVE  WinInv(u)'
<1> DEFINE r == Append(inbox[u], Batch(call[u]))
<1>1. /\ inbox'[u] = r /\ call'[u].phase = "read" /\ call'[u].pos = call[u].upto
      /\ call'[u].echo = call[u].echo /\ call'[u].round = call[u].round
      /\ past' = past /\ members' = members /\ r \in Seq(Events) /\ r = Append(inbox[u], Batch(call[u]))
  <2>1. call[u] \in Calls /\ DOMAIN call = Windows /\ inbox[u] \in Seq(Events) /\ DOMAIN inbox = Windows
    BY ViewIs
  <2>2. r \in Seq(Events)
    BY <2>1, BatchType, Appended
  <2> QED BY <2>1, <2>2 DEF Continues, Calls
<1> HIDE DEF r
<1>2. ~Gapped(u) /\ ~(Gapped(u)')
  <2>1. ~Gapped(u)
    BY DEF RoundsOf
  <2> QED BY <1>1, <2>1, ViewIs, BatchType, NoRefreshSent DEF Gapped
<1>3. ASSUME Sound(u) PROVE Orderly(u)'
  <2>1. Orderly(u) /\ Delivered(u, r)
    BY <1>1, <1>3, HistoryDelivered DEF WinInv
  <2>2. \A i \in DOMAIN inbox'[u] : inbox'[u][i].type = "history" /\ inbox'[u][i].round = win'[u].round
    BY <1>1, <2>1 DEF Delivered
  <2>3. /\ Shaped(inbox[u], call[u])' /\ Numbered(inbox[u], call[u], win[u])'
    BY <1>1, <2>1, <2>2 DEF Orderly, Shaped, Numbered
  <2>4. Fresh(inbox[u], call[u], win[u], past[u])'
    <3>1. Active(inbox[u], call[u])
      BY DEF Active
    <3> QED BY <1>1, <2>1, <3>1 DEF Orderly, Fresh
  <2>5. Prepared(u)'
    BY <1>1, <2>1, <2>2 DEF Orderly, Prepared
  <2>6. \A n : /\ Coming(inbox[u], past[u].given, n)' <=> Upon(n, call[u].pos, call[u].echo)'
               /\ Old(inbox[u], past[u].given, n)' <=> Upon(n, call[u].pos, call[u].echo)'
    <3>1. \A n : Upon(n, call[u].pos, call[u].echo)' <=> Upon(n, call[u].upto, call[u].echo)
      BY <1>1 DEF Upon
    <3>2. \A n : /\ Coming(inbox[u], past[u].given, n)' <=> Coming(r, past[u].given, n)
                 /\ Old(inbox[u], past[u].given, n)' <=> Old(r, past[u].given, n)
      BY <1>1 DEF Coming, Old, LinesOf
    <3> QED BY <2>1, <3>1, <3>2 DEF Delivered
  <2>7. Placed(u)'
    <3>1. Ordered(inbox[u], past[u].given)'
      BY <1>1, <2>1 DEF Delivered, Ordered, LinesOf
    <3> QED BY <1>1, <2>6, <3>1 DEF Placed
  <2>8. Prefix(u)'
    <3>1. call'[u].pos \in 0..Len(log') /\ call'[u].echo \in BOOLEAN
      <4>1. call[u].upto \in 0..stored /\ stored \in Nat /\ stored <= Len(log) /\ Len(log) \in Nat
            /\ call[u].echo \in BOOLEAN
        BY ViewIs, CallIs
      <4> QED BY <1>1, <4>1
    <3>2. \E k \in 0..Len(log'), x \in BOOLEAN : \A n : Old(inbox[u], past[u].given, n)' <=>
            (n \in 1..k /\ ~(x /\ log'[n].type = "in"))
      BY <2>6, <3>1 DEF Upon
    <3> QED BY <3>2 DEF Prefix, Upon
  <2> QED BY <2>3, <2>4, <2>5, <2>7, <2>8 DEF Orderly
<1>4. Idle(u)'
  BY <1>1 DEF WinInv, Idle
<1>5. Cursor(call'[u])
  BY <1>1 DEF Cursor
<1> QED BY <1>1, <1>2, <1>3, <1>4, <1>5 DEF WinInv, Sound

LEMMA WinRegisters ==
  ASSUME TypeOK, TypeOK', NEW u \in Windows, RefsOf(u), RoundsOf(u), WinInv(u), call[u].phase = "rows",
         Registers(u), UNCHANGED <<log, win>>
  PROVE  WinInv(u)'
<1>1. PICK r \in Seq(Events) : /\ inbox'[u] = Append(r, Joined) /\ (Sound(u) => Delivered(u, r))
                               /\ r = inbox[u] \/ r = Append(inbox[u], Batch(call[u]))
  <2>1. inbox[u] \in Seq(Events) /\ DOMAIN inbox = Windows
    BY ViewIs
  <2> DEFINE r == Append(inbox[u], Batch(call[u]))
  <2>2. r \in Seq(Events)
    BY <2>1, ViewIs, BatchType, Appended
  <2>3. Sound(u) => Delivered(u, r) /\ (call[u].upto <= call[u].pos => Delivered(u, inbox[u]))
    BY HistoryDelivered
  <2>4. \/ inbox'[u] = Append(r, Joined)
        \/ inbox'[u] = Append(inbox[u], Joined) /\ call[u].upto <= call[u].pos
    BY <2>1 DEF Registers
  <2> HIDE DEF r
  <2> QED BY <2>1, <2>2, <2>3, <2>4 DEF r
<1>2. /\ call'[u] = NoCall /\ members' = members \cup {u}
      /\ past'[u].given = past[u].given /\ past'[u].typed = past[u].typed /\ past'[u].lossy = past[u].lossy
      /\ past'[u].disturbed = past[u].disturbed /\ past'[u].missed = (call[u].upto + 1)..Len(log)
      /\ NoCall.phase = "none" /\ NoCall.pos = 0
  <2>1. DOMAIN call = Windows /\ past[u] \in Histories /\ DOMAIN past = Windows
    BY ViewIs
  <2> QED BY <2>1 DEF Registers, Histories, NoCall
<1>3. /\ \A i \in DOMAIN inbox'[u] : i = Len(r) + 1 \/ i \in DOMAIN r
      /\ \A i \in DOMAIN r : inbox'[u][i] = r[i] /\ i \in DOMAIN inbox'[u]
      /\ inbox'[u][Len(r) + 1] = Joined /\ Joined.type = "joined" /\ Joined \in Events /\ LinesOf(Joined) = {}
  BY <1>1, ViewIs, BatchType, Appended DEF LinesOf
<1>4. ~Gapped(u) /\ ~(Gapped(u)')
  <2>1. ~Gapped(u)
    BY DEF RoundsOf
  <2>2. ~(r # <<>> /\ Head(r).type = "refresh")
    BY <1>1, <2>1, ViewIs, BatchType, NoRefreshSent DEF Gapped
  <2> QED BY <1>1, <1>3, <2>2, NoRefreshSent DEF Gapped
<1>5. ASSUME Sound(u) PROVE Orderly(u)'
  <2>1. Orderly(u) /\ Delivered(u, r)
    BY <1>1, <1>5 DEF WinInv
  <2>2. \A i \in DOMAIN r : r[i].type = "history" /\ r[i].round = win[u].round
    BY <2>1 DEF Delivered
  <2>3. Shaped(inbox[u], call[u])'
    <3>1. ASSUME NEW i \in DOMAIN inbox'[u], NEW j \in DOMAIN inbox'[u], i < j
          PROVE  inbox'[u][i].type = "history"
      <4>1. i # Len(r) + 1
        <5>1. j \in 1..(Len(r) + 1) /\ Len(r) \in Nat
          BY <1>1, <1>3
        <5> QED BY <3>1, <5>1
      <4> QED BY <1>3, <2>2, <4>1
    <3> QED BY <1>2, <3>1 DEF Shaped
  <2>4. Numbered(inbox[u], call[u], win[u])'
    BY <1>2, <1>3, <2>1, <2>2 DEF Orderly, Numbered
  <2>5. Fresh(inbox[u], call[u], win[u], past[u])'
    <3>1. Active(inbox[u], call[u])
      BY DEF Active
    <3> QED BY <1>2, <2>1, <3>1 DEF Orderly, Fresh
  <2>6. Prepared(u)'
    <3>1. ~win[u].ready \/ past[u].lossy
      BY <2>1 DEF Orderly, Prepared
    <3>2. past[u].typed = {}
      BY <2>1, <3>1 DEF Orderly, Prepared
    <3> QED BY <1>2, <1>3, <2>2, <3>1, <3>2 DEF Prepared
  <2>7. \A n : /\ Coming(inbox[u], past[u].given, n)' <=> Upon(n, call[u].upto, call[u].echo)
               /\ Old(inbox[u], past[u].given, n)' <=> Upon(n, call[u].upto, call[u].echo)
    <3> DEFINE x == inbox'[u]
               G == past[u].given
    <3>1. /\ \A n : Coming(x, G, n) <=> Coming(r, G, n)
          /\ \A n : Old(x, G, n) <=> Old(r, G, n)
      BY <1>3 DEF Coming, Old
    <3>2. \A n : /\ Coming(inbox[u], past[u].given, n)' <=> Coming(x, G, n)
                 /\ Old(inbox[u], past[u].given, n)' <=> Old(x, G, n)
      BY <1>2 DEF Coming, Old, LinesOf
    <3> QED BY <2>1, <3>1, <3>2 DEF Delivered
  <2>8. Placed(u)'
    <3>1. Ordered(inbox[u], past[u].given)'
      <4> DEFINE G == past[u].given
      <4>1. Ordered(Append(r, Joined), G)
        BY <1>1, <1>3, <2>1, OrderedAppend DEF Delivered
      <4>2. Ordered(inbox'[u], G)
        BY <1>1, <4>1
      <4> QED BY <1>2, <4>2 DEF Ordered, LinesOf
    <3>2. \A n \in DOMAIN log' : log'[n].type = "in" \/ n \in past'[u].missed \/ Upon(n, call[u].upto, call[u].echo)
      <4>1. DOMAIN log = 1..Len(log) /\ Len(log) \in Nat /\ call[u].upto \in Nat
        <5>1. log \in Seq(Lines)
          BY TypeParts DEF LogType
        <5>2. DOMAIN log = 1..Len(log) /\ Len(log) \in Nat
          BY <5>1
        <5>3. call[u].upto \in Nat
          BY ViewIs, CallIs
        <5> QED BY <5>2, <5>3
      <4>2. \A n \in 1..Len(log) : n \in (call[u].upto + 1)..Len(log) \/ n \in 1..call[u].upto
        BY <4>1
      <4> QED BY <1>2, <4>1, <4>2 DEF Upon
    <3> QED BY <1>2, <2>7, <3>1, <3>2 DEF Placed
  <2>9. Prefix(u)'
    <3>1. call[u].upto \in 0..Len(log') /\ call[u].echo \in BOOLEAN
      <4>1. call[u].upto \in 0..stored /\ stored \in Nat /\ stored <= Len(log) /\ Len(log) \in Nat
            /\ call[u].echo \in BOOLEAN
        BY ViewIs, CallIs
      <4> QED BY <4>1
    <3>2. \E k \in 0..Len(log'), x \in BOOLEAN : \A n : Old(inbox[u], past[u].given, n)' <=>
            (n \in 1..k /\ ~(x /\ log'[n].type = "in"))
      BY <2>7, <3>1 DEF Upon
    <3> QED BY <3>2 DEF Prefix, Upon
  <2> QED BY <2>3, <2>4, <2>5, <2>6, <2>8, <2>9 DEF Orderly
<1>6. Idle(u)'
  BY <1>2 DEF WinInv, Idle
<1>7. Cursor(call'[u])
  BY <1>2 DEF Cursor
<1>8. past'[u].lossy => u \in members'
  BY <1>2
<1>9. past'[u].disturbed => past'[u].lossy
  BY <1>2 DEF WinInv
<1> QED BY <1>2, <1>4, <1>5, <1>6, <1>7, <1>8, <1>9 DEF WinInv, Sound

\* A window takes an event that is not a refresh.
LEMMA WinReceived ==
  ASSUME TypeOK, TypeOK', NEW u \in Windows, RefsOf(u), RoundsOf(u), WinInv(u), NEW e, Received(u, e),
         e.type # "refresh", call'[u] = call[u], win'[u].round = win[u].round,
         win'[u].replay = IF e.type = "history" THEN ReplayOf(win[u], e) ELSE win[u].replay,
         win'[u].ready <=> win[u].ready \/ e.type = "joined",
         past'[u].typed = past[u].typed, past'[u].missed = past[u].missed,
         past'[u].disturbed <=> past[u].disturbed,
         past'[u].lossy <=> past[u].lossy /\ (e.type = "joined" => past[u].disturbed),
         past'[u].given = past[u].given \cup IF e.type = "history" THEN Applied(win[u], e) ELSE LinesOf(e)
  PROVE  WinInv(u)' /\ (Sound(u)' => Sound(u) /\ Orderly(u))
<1> DEFINE q == inbox[u]
           r == Tail(q)
           G == past[u].given
           F == past'[u].given
<1>1. /\ e \in Events /\ q \in Seq(Events) /\ r \in Seq(Events) /\ inbox'[u] = r
      /\ e = q[1] /\ 1 \in DOMAIN q /\ q # <<>> /\ e = Head(q)
      /\ \A i \in DOMAIN r : i + 1 \in DOMAIN q /\ r[i] = q[i + 1] /\ i + 1 # 1
      /\ UNCHANGED <<log, members>>
  BY TakenEvent DEF Received
<1>2. \A i, j \in DOMAIN r : i < j => i + 1 < j + 1
  BY <1>1
<1>3. \A i \in DOMAIN r : 1 < i + 1
  BY <1>1
<1>4. (\A i \in DOMAIN r : r[i].type # "refresh") /\ (r # <<>> => 1 \in DOMAIN r /\ Head(r) = r[1])
  BY <1>1 DEF RoundsOf
<1>5. ~Gapped(u) /\ ~(Gapped(u)')
  BY <1>1, <1>4 DEF Gapped
<1>6. win[u].round # 0 /\ win[u].round \in Nat
  BY <1>1, ViewIs DEF RoundsOf
<1>7. Sound(u)' <=> Sound(u)
  BY <1>5 DEF Sound
<1>8. ASSUME Sound(u) PROVE Orderly(u)'
  <2>1. Orderly(u)
    BY <1>8 DEF WinInv
  <2>2. e.type = "history" => e.round = win[u].round /\ ~Skipped(win[u], e) /\ Applied(win[u], e) = LinesOf(e)
    <3> SUFFICES ASSUME e.type = "history"
                 PROVE  e.round = win[u].round /\ ~Skipped(win[u], e) /\ Applied(win[u], e) = LinesOf(e)
      OBVIOUS
    <3>1. Active(q, call[u])
      BY <1>1 DEF Active
    <3>2. e.round = win[u].round /\ win[u].replay \in {0, win[u].round}
      BY <1>1, <2>1 DEF Orderly, Numbered
    <3>3. win[u].replay = 0 => win[u].msgs = <<>>
      BY <2>1, <3>1 DEF Orderly, Fresh
    <3>4. ~Skipped(win[u], e)
      BY <3>2, <3>3 DEF Skipped
    <3> QED BY <3>2, <3>4 DEF Applied, LinesOf
  <2>3. F = G \cup LinesOf(e)
    BY <2>2
  <2>4. e.type # "history" => call[u].phase = "none" /\ \A i \in DOMAIN r : r[i].type \notin {"history", "joined"}
    <3> SUFFICES ASSUME e.type # "history"
                 PROVE  call[u].phase = "none" /\ \A i \in DOMAIN r : r[i].type \notin {"history", "joined"}
      OBVIOUS
    <3>1. \A i \in DOMAIN q : 1 < i => q[i].type \notin {"history", "joined"}
      BY <1>1, <2>1 DEF Orderly, Shaped
    <3>2. call[u].phase = "none"
      BY <1>1, <2>1 DEF Orderly, Shaped
    <3> QED BY <1>1, <1>3, <3>1, <3>2
  <2>5. Shaped(r, call[u])
    <3>1. ASSUME NEW i \in DOMAIN r, NEW j \in DOMAIN r, i < j, r[j].type \in {"history", "joined"}
          PROVE  r[i].type = "history"
      <4>1. i + 1 \in DOMAIN q /\ j + 1 \in DOMAIN q /\ i + 1 < j + 1 /\ r[i] = q[i + 1] /\ r[j] = q[j + 1]
        BY <1>1, <1>2, <3>1
      <4> QED BY <2>1, <3>1, <4>1 DEF Orderly, Shaped
    <3>2. call[u].phase # "none" => \A i \in DOMAIN r : r[i].type = "history"
      BY <1>1, <2>1 DEF Orderly, Shaped
    <3> QED BY <3>1, <3>2 DEF Shaped
  <2>6. /\ \A i \in DOMAIN r : r[i].type = "history" => r[i].round = win[u].round
        /\ win'[u].replay \in {0, win[u].round}
    BY <1>1, <2>1, <2>2 DEF Orderly, Numbered, ReplayOf
  <2>7. Active(r, call[u]) => e.type = "history" /\ Active(q, call[u])
    BY <1>1, <2>4 DEF Active
  <2>8. e.type = "history" => win'[u].replay # 0
    BY <1>6, <2>2 DEF ReplayOf
  <2>9. Prepared(u)'
    <3>1. /\ u \notin members => ~win[u].ready /\ e.type = "history" /\ \A i \in DOMAIN r : r[i].type = "history"
          /\ past[u].lossy => e.type \in {"history", "joined"} /\ \A i \in DOMAIN r : r[i].type \in {"history", "joined"}
          /\ win[u].ready /\ ~past[u].lossy =>
               call[u].phase = "none" /\ \A i \in DOMAIN r : r[i].type \notin {"history", "joined"}
          /\ past[u].lossy \/ ~win[u].ready => past[u].typed = {}
          /\ call[u].phase # "none" /\ u \in members => past[u].lossy
      BY <1>1, <2>1 DEF Orderly, Prepared
    <3>2. ~past[u].disturbed
      BY <1>8 DEF Sound
    <3>3. CASE e.type = "joined"
      BY <1>1, <2>4, <3>1, <3>2, <3>3 DEF Prepared
    <3>4. CASE e.type # "joined"
      BY <1>1, <3>1, <3>4 DEF Prepared
    <3> QED BY <3>3, <3>4
  <2>10. /\ \A n : Coming(r, F, n) <=> Coming(q, G, n)
         /\ \A n : e.type = "history" => (Old(r, F, n) <=> Old(q, G, n))
         /\ Ordered(r, F)
    <3>1. Ordered(q, G)
      BY <2>1 DEF Orderly, Placed
    <3> HIDE DEF q, F, G, r
    <3> QED BY <1>1, <2>3, <3>1, OrderedTail DEF r
  <2>11. Placed(u)'
    <3>1. Ordered(inbox[u], past[u].given)'
      <4>1. Ordered(inbox'[u], past'[u].given)
        BY <1>1, <2>10
      <4> QED BY <4>1 DEF Ordered, LinesOf
    <3>2. \A n : Coming(inbox[u], past[u].given, n)' <=> Coming(q, G, n)
      <4>1. \A n : Coming(inbox[u], past[u].given, n)' <=> Coming(r, F, n)
        BY <1>1 DEF Coming, LinesOf
      <4> QED BY <2>10, <4>1
    <3>3. \A n : Upon(n, call[u].pos, call[u].echo)' <=> Upon(n, call[u].pos, call[u].echo)
      BY <1>1 DEF Upon
    <3> QED BY <1>1, <2>1, <3>1, <3>2, <3>3 DEF Placed, Orderly
  <2>12. Prefix(u)'
    <3>1. CASE Active(r, call[u])
      <4>1. \A n : Old(inbox[u], past[u].given, n)' <=> Old(inbox[u], past[u].given, n)
        <5>1. \A n : Old(inbox[u], past[u].given, n)' <=> Old(r, F, n)
          BY <1>1 DEF Old, LinesOf
        <5> QED BY <2>7, <2>10, <3>1, <5>1
      <4>2. Grows
        BY DEF Grows, Received
      <4> QED BY <2>1, <2>7, <3>1, <4>1, <4>2, PrefixSame DEF Orderly
    <3>2. CASE ~Active(r, call[u])
      <4>1. ~(Active(inbox[u], call[u])')
        BY <1>1, <3>2 DEF Active
      <4> QED BY <4>1 DEF Prefix
    <3> QED BY <3>1, <3>2
  <2>13. Fresh(inbox[u], call[u], win[u], past[u])'
    <3>1. Active(inbox[u], call[u])' <=> Active(r, call[u])
      BY <1>1 DEF Active
    <3> QED BY <2>7, <2>8, <3>1 DEF Fresh
  <2>14. Shaped(inbox[u], call[u])' /\ Numbered(inbox[u], call[u], win[u])'
    <3>1. call[u].phase # "none" => call[u].round = win[u].round
      BY <2>1 DEF Orderly, Numbered
    <3> QED BY <1>1, <2>5, <2>6, <3>1 DEF Shaped, Numbered
  <2> QED BY <2>9, <2>11, <2>12, <2>13, <2>14 DEF Orderly
<1>9. Idle(u)'
  BY <1>6 DEF Idle
<1>10. (past'[u].disturbed => past'[u].lossy) /\ (past'[u].lossy => u \in members') /\ Cursor(call'[u])
  BY <1>1 DEF WinInv
<1> QED BY <1>5, <1>7, <1>8, <1>9, <1>10 DEF WinInv

\* It reduces a stream event, a line, or the lines of a batch, and is ready once joined.
LEMMA ReceiptIs ==
  ASSUME TypeOK, RefsInv, RoundsInv, NEW u \in Windows, NEW e, Received(u, e),
         \/ ReceiveStream(u, e) \/ ReceiveLine(u, e) \/ ReceiveHistory(u, e) \/ ReceiveJoined(u, e)
  PROVE  /\ e.type # "refresh" /\ call'[u] = call[u] /\ win'[u].round = win[u].round
         /\ win'[u].replay = IF e.type = "history" THEN ReplayOf(win[u], e) ELSE win[u].replay
         /\ win'[u].ready <=> win[u].ready \/ e.type = "joined"
         /\ past'[u].typed = past[u].typed /\ past'[u].missed = past[u].missed
         /\ past'[u].disturbed <=> past[u].disturbed
         /\ past'[u].lossy <=> past[u].lossy /\ (e.type = "joined" => past[u].disturbed)
         /\ past'[u].given = past[u].given \cup IF e.type = "history" THEN Applied(win[u], e) ELSE LinesOf(e)
<1>1. /\ win[u] \in Views /\ past[u] \in Histories /\ DOMAIN win = Windows /\ DOMAIN past = Windows
      /\ e \in Events /\ e = inbox[u][1] /\ 1 \in DOMAIN inbox[u] /\ win \in [Windows -> Views] /\ PromptsType
      /\ log \in Seq(Lines) /\ \A n \in DOMAIN log : LineKnown(log[n])
  BY ViewIs, TakenEvent, TypeParts, BoundsGivePrompts DEF WindowType, LogType, RefsInv
<1>2. CASE ReceiveStream(u, e)
  <2>1. e \in StreamEvents /\ e.type \in {"start", "block", "chunk", "stop", "end"}
    BY <1>1, <1>2, EventKinds DEF ReceiveStream
  <2>2. win'[u] = Streamed(win[u], e)
    BY <1>1, <1>2 DEF ReceiveStream
  <2>3. Reduces(win[u], Streamed(win[u], e))
    BY <1>1, <2>1, StreamedReduces
  <2>4. win'[u].round = win[u].round /\ win'[u].replay = win[u].replay /\ win'[u].ready = win[u].ready
    BY <2>2, <2>3 DEF Reduces
  <2>5. LinesOf(e) = {}
    BY <2>1 DEF LinesOf
  <2> QED BY <1>1, <1>2, <2>1, <2>4, <2>5 DEF ReceiveStream, Histories
<1>3. CASE ReceiveLine(u, e)
  <2>1. LinesOf(e) = {e.n} /\ LinesOf(e) \subseteq DOMAIN log
    BY <1>1, <1>3 DEF ReceiveLine, LinesOf, RefsInv, RefsOf
  <2>2. win'[u] = Reduced(win[u], log[e.n])
    BY <1>1, <1>3 DEF ReceiveLine
  <2>3. Reduces(win[u], Reduced(win[u], log[e.n]))
    <3>1. log[e.n] \in Lines /\ LineKnown(log[e.n])
      BY <1>1, <2>1
    <3> QED BY <1>1, <3>1, ReducedReduces
  <2>4. win'[u].round = win[u].round /\ win'[u].replay = win[u].replay /\ win'[u].ready = win[u].ready
    BY <2>2, <2>3 DEF Reduces
  <2> QED BY <1>1, <1>3, <2>1, <2>4 DEF ReceiveLine, Histories
<1>4. CASE ReceiveHistory(u, e)
  <2> DEFINE y == Replayed(win[u], Applied(win[u], e))
             k == ReplayOf(win[u], e)
  <2>1. /\ e.type = "history" /\ call' = call
        /\ win' = [win EXCEPT ![u] = [y EXCEPT !.replay = k]]
        /\ past' = [past EXCEPT ![u].given = @ \cup Applied(win[u], e)]
    BY <1>1, <1>4, ReceiveHistoryIs
  <2>2. y \in Views /\ y.round = win[u].round /\ y.ready = win[u].ready
    BY <1>1, ReplayedReduces DEF Reduces
  <2> HIDE DEF y, k
  <2>3. win'[u].round = win[u].round /\ win'[u].ready = win[u].ready /\ win'[u].replay = k
    BY <1>1, <2>1, <2>2 DEF Views
  <2> QED BY <1>1, <2>1, <2>3 DEF Histories, k
<1>5. CASE ReceiveJoined(u, e)
  <2>1. /\ e.type = "joined" /\ call' = call /\ win'[u].round = win[u].round /\ win'[u].ready
        /\ win'[u].replay = win[u].replay
    BY <1>1, <1>5 DEF ReceiveJoined, Views
  <2>2. LinesOf(e) = {}
    BY <2>1 DEF LinesOf
  <2> QED BY <1>1, <1>5, <2>1, <2>2 DEF ReceiveJoined, Histories
<1> QED BY <1>2, <1>3, <1>4, <1>5

\* A refresh begins anew.
LEMMA WinRefresh ==
  ASSUME TypeOK, TypeOK', NEW u \in Windows, RefsOf(u), RoundsOf(u), WinInv(u), NEW e, Received(u, e),
         ReceiveRefresh(u, e)
  PROVE  /\ WinInv(u)' /\ win'[u].msgs = <<>> /\ past'[u].given = {} /\ past'[u].typed = {}
         /\ past'[u].taken = FALSE /\ past'[u].cut = FALSE /\ call'[u].phase = "echo" /\ call'[u].pos = 0
         /\ (Sound(u)' => inbox'[u] = <<>> /\ u \in members' /\ past'[u].lossy)
<1> DEFINE c == [NoCall EXCEPT !.phase = "echo", !.round = win[u].round + 1]
<1>1. /\ call' = [call EXCEPT ![u] = c]
      /\ win' = [win EXCEPT ![u].msgs = <<>>, ![u].replay = 0, ![u].round = @ + 1]
      /\ past' = [past EXCEPT ![u].typed = {}, ![u].given = {}, ![u].taken = FALSE, ![u].cut = FALSE]
      /\ e.type = "refresh"
  BY DEF ReceiveRefresh, Joining
<1>2. c.phase = "echo" /\ c.pos = 0 /\ c.round = win[u].round + 1 /\ c.echo = FALSE
  BY DEF NoCall
<1> HIDE DEF c
<1>3. /\ call'[u] = c /\ win'[u].msgs = <<>> /\ win'[u].replay = 0 /\ win'[u].round = win[u].round + 1
      /\ win'[u].ready = win[u].ready /\ past'[u].typed = {} /\ past'[u].given = {}
      /\ past'[u].taken = FALSE /\ past'[u].cut = FALSE /\ past'[u].lossy = past[u].lossy
      /\ past'[u].disturbed = past[u].disturbed /\ win[u].round \in Nat /\ inbox[u] \in Seq(Events)
  <2>1. /\ win[u] \in Views /\ DOMAIN win = Windows /\ DOMAIN call = Windows /\ past[u] \in Histories
        /\ DOMAIN past = Windows /\ win[u].round \in Nat /\ inbox[u] \in Seq(Events)
    BY ViewIs
  <2> QED BY <1>1, <2>1 DEF Views, Histories
<1>4. Gapped(u) /\ UNCHANGED <<log, members>> /\ inbox'[u] = Tail(inbox[u]) /\ inbox[u] # <<>>
  BY <1>1, TakenEvent DEF Received, Gapped
<1>5. ~(Gapped(u)')
  <2>1. \A i \in DOMAIN inbox'[u] : i + 1 \in DOMAIN inbox[u] /\ inbox'[u][i] = inbox[u][i + 1] /\ i + 1 # 1
    BY TakenEvent
  <2>2. \A i \in DOMAIN inbox'[u] : inbox'[u][i].type # "refresh"
    BY <2>1 DEF RoundsOf
  <2>3. inbox'[u] # <<>> => Head(inbox'[u]) = inbox'[u][1] /\ 1 \in DOMAIN inbox'[u]
    BY <1>3, <1>4
  <2> QED BY <2>2, <2>3 DEF Gapped
<1>6. win'[u].round # 0
  BY <1>3
<1>7. ASSUME ~past[u].disturbed PROVE Orderly(u)' /\ inbox'[u] = <<>> /\ past[u].lossy /\ u \in members
  <2>1. inbox'[u] = <<>> /\ past[u].lossy /\ u \in members
    <3>1. Len(inbox[u]) = 1 /\ past[u].lossy /\ u \in members
      BY <1>4, <1>7 DEF WinInv
    <3>2. Tail(inbox[u]) = <<>>
      <4>1. Tail(inbox[u]) \in Seq(Events) /\ Len(Tail(inbox[u])) = 0
        BY <1>3, <1>4, <3>1
      <4> QED BY <4>1, EmptySeq
    <3> QED BY <1>4, <3>1, <3>2
  <2>2. \A n : /\ ~(Coming(inbox[u], past[u].given, n)') /\ ~(Old(inbox[u], past[u].given, n)')
               /\ ~(Upon(n, call[u].pos, call[u].echo)') /\ ~(Upon(n, 0, FALSE)')
    <3>1. \A n : n \notin 1..0
      OBVIOUS
    <3> QED BY <1>2, <1>3, <2>1, <3>1 DEF Coming, Old, Upon
  <2>3. /\ Shaped(inbox[u], call[u])' /\ Numbered(inbox[u], call[u], win[u])'
        /\ Fresh(inbox[u], call[u], win[u], past[u])'
    BY <1>2, <1>3, <2>1 DEF Shaped, Numbered, Fresh
  <2>4. Prepared(u)'
    <3>1. DOMAIN inbox'[u] = {}
      BY <2>1
    <3> QED BY <1>2, <1>3, <1>4, <2>1, <3>1 DEF Prepared
  <2>5. Placed(u)'
    <3>1. Ordered(inbox[u], past[u].given)'
      BY <2>1 DEF Ordered
    <3> QED BY <1>2, <1>3, <2>2, <3>1 DEF Placed
  <2>6. Prefix(u)'
    <3>1. 0 \in 0..Len(log')
      <4>1. log' \in Seq(Lines)
        BY DEF TypeOK
      <4> QED BY <4>1
    <3> QED BY <2>2, <3>1 DEF Prefix
  <2> QED BY <2>1, <2>3, <2>4, <2>5, <2>6 DEF Orderly
<1>8. Cursor(call'[u]) /\ (Idle(u)')
  BY <1>2, <1>3, <1>6 DEF Cursor, Idle
<1>9. (past'[u].disturbed => past'[u].lossy) /\ (past'[u].lossy => u \in members')
  BY <1>3, <1>4 DEF WinInv
<1> QED BY <1>2, <1>3, <1>4, <1>5, <1>7, <1>8, <1>9 DEF WinInv, Sound

\* A gap leaves nothing but the refresh.
LEMMA WinGap ==
  ASSUME TypeOK, TypeOK', NEW u \in Windows, WinInv(u), Gap(u)
  PROVE  WinInv(u)' /\ ~(Sound(u)')
<1>1. /\ inbox' = [inbox EXCEPT ![u] = <<[type |-> "refresh"]>>]
      /\ past' = [past EXCEPT ![u].lossy = TRUE, ![u].disturbed = FALSE]
      /\ u \in members /\ UNCHANGED <<members, call, win>>
  BY DEF Gap
<1>2. inbox'[u] = <<[type |-> "refresh"]>>
  BY <1>1, ViewIs
<1>3. past'[u].lossy /\ ~past'[u].disturbed /\ past'[u].given = past[u].given
  <2>1. past[u] \in Histories /\ DOMAIN past = Windows
    BY ViewIs
  <2> QED BY <1>1, <2>1 DEF Histories
<1>4. Gapped(u)' /\ Len(inbox'[u]) = 1
  BY <1>2 DEF Gapped
<1> QED BY <1>1, <1>3, <1>4 DEF WinInv, Sound, Idle

\* Whoever types has been replayed.
LEMMA WinType ==
  ASSUME TypeOK, TypeOK', NEW u \in Windows, RefsOf(u), RoundsOf(u), WinInv(u), NEW t \in Texts, Type(u, t)
  PROVE  /\ WinInv(u)' /\ (Sound(u)' => Sound(u) /\ ~past[u].lossy /\ ~Active(inbox[u], call[u]))
<1>1. /\ win[u].ready /\ win' = [win EXCEPT ![u].msgs = Append(@, UserMessage(t, 0))]
      /\ past' = [past EXCEPT ![u].typed = @ \cup {Len(prompts) + 1}, ![u].disturbed = past[u].lossy]
      /\ UNCHANGED <<log, inbox, members, call>>
  BY DEF Type
<1>2. /\ win'[u].round = win[u].round /\ win'[u].replay = win[u].replay /\ win'[u].ready
      /\ past'[u].given = past[u].given /\ past'[u].missed = past[u].missed
      /\ past'[u].lossy = past[u].lossy /\ past'[u].disturbed = past[u].lossy
  <2>1. /\ win[u] \in Views /\ DOMAIN win = Windows /\ past[u] \in Histories /\ DOMAIN past = Windows
    BY ViewIs
  <2> QED BY <1>1, <2>1 DEF Views, Histories
<1>3. Gapped(u)' <=> Gapped(u)
  BY <1>1 DEF Gapped
<1>4. Cursor(call'[u]) /\ (Idle(u)') /\ (past'[u].lossy => u \in members')
  BY <1>1, <1>2 DEF WinInv, Idle
<1>5. CASE past[u].lossy
  BY <1>2, <1>4, <1>5 DEF WinInv, Sound
<1>6. CASE ~past[u].lossy
  <2>1. ~past[u].disturbed /\ ~Gapped(u) /\ Sound(u) /\ Orderly(u)
    BY <1>6 DEF WinInv, Sound
  <2>2. ~Active(inbox[u], call[u])
    BY <1>1, <1>6, <2>1 DEF Orderly, Prepared, Active
  <2>3. ~(Active(inbox[u], call[u])')
    BY <1>1, <2>2 DEF Active
  <2>4. /\ Shaped(inbox[u], call[u])' /\ Numbered(inbox[u], call[u], win[u])'
        /\ Fresh(inbox[u], call[u], win[u], past[u])' /\ Prefix(u)'
    BY <1>1, <1>2, <2>1, <2>3 DEF Orderly, Shaped, Numbered, Fresh, Prefix
  <2>5. Prepared(u)'
    BY <1>1, <1>2, <1>6, <2>1 DEF Orderly, Prepared
  <2>6. Placed(u)'
    <3>1. Ordered(inbox[u], past[u].given)'
      <4>1. Ordered(inbox[u], past[u].given) /\ inbox'[u] = inbox[u]
        BY <1>1, <2>1 DEF Orderly, Placed
      <4> QED BY <1>2, <4>1 DEF Ordered, LinesOf
    <3>2. \A n : /\ Coming(inbox[u], past[u].given, n)' <=> Coming(inbox[u], past[u].given, n)
                 /\ Upon(n, call[u].pos, call[u].echo)' <=> Upon(n, call[u].pos, call[u].echo)
      BY <1>1, <1>2 DEF Coming, LinesOf, Upon
    <3> QED BY <1>1, <1>2, <2>1, <3>1, <3>2 DEF Orderly, Placed
  <2> QED BY <1>2, <1>3, <1>4, <1>6, <2>1, <2>2, <2>4, <2>5, <2>6 DEF WinInv, Orderly, Sound
<1> QED BY <1>5, <1>6

LEMMA WinOwn ==
  ASSUME TypeOK, TypeOK', RefsInv, RoundsInv, NEW u \in Windows, WinInv(u), Own(u)
  PROVE  WinInv(u)'
<1>1. RefsOf(u) /\ RoundsOf(u)
  BY DEF RefsInv, RoundsInv
<1>2. CASE Receive(u)
  <2> DEFINE e == Head(inbox[u])
  <2>1. /\ Received(u, e)
        /\ \/ ReceiveStream(u, e) \/ ReceiveLine(u, e) \/ ReceiveHistory(u, e)
           \/ ReceiveJoined(u, e) \/ ReceiveRefresh(u, e)
    BY <1>2, ReceiveIs
  <2> HIDE DEF e
  <2>2. CASE ReceiveRefresh(u, e)
    BY <1>1, <2>1, <2>2, WinRefresh
  <2>3. CASE ReceiveStream(u, e) \/ ReceiveLine(u, e) \/ ReceiveHistory(u, e) \/ ReceiveJoined(u, e)
    BY <1>1, <2>1, <2>3, ReceiptIs, WinReceived
  <2> QED BY <2>1, <2>2, <2>3
<1>3. CASE Deliver(u)
  BY <1>1, <1>3, DeliverIs, WinContinues, WinRegisters
<1> QED BY <1>1, <1>2, <1>3, WinJoin, WinAsk, WinGap, WinType DEF Own

\* Every step keeps what holds of a window.
LEMMA WinInvNext ==
  ASSUME TypeOK, TypeOK', RefsInv, RoundsInv, NEW u \in Windows, WinInv(u), [Next]_vars
  PROVE  WinInv(u)'
<1>1. RefsOf(u) /\ RoundsOf(u) /\ Grows
  BY GrowsNext DEF RefsInv, RoundsInv
<1>2. CASE Same(u) /\ log' = log
  BY <1>1, <1>2, WinStays
<1>3. ASSUME NEW e \in StreamEvents, SpeakStream(e), SpokenTo(u, members, e) PROVE WinInv(u)'
  <2>1. e \in Events /\ LinesOf(e) = {} /\ e.type \notin {"history", "joined", "refresh"} /\ log' = log
    BY <1>3, LinesOfSent, StreamEventIs DEF SpeakStream
  <2> QED BY <1>1, <1>3, <2>1, WinStays, WinHears DEF SpokenTo
<1>4. ASSUME NEW line \in Lines, log' = Append(log, line), prompts' = prompts, NEW ws,
             SpokenTo(u, ws, TheLine(Len(log) + 1)), u \in ws \/ u \notin members \/ line.type = "in"
      PROVE  WinInv(u)'
  <2> DEFINE e == TheLine(Len(log) + 1)
             N == Len(log) + 1
  <2>1. e \in Events /\ LinesOf(e) = {N} /\ e.type = "line"
    BY LinesOfSent DEF TheLine
  <2>2. /\ \A n \in DOMAIN log : n < N
        /\ \A n \in DOMAIN log' : n \in DOMAIN log \/ (n = N /\ log'[n] = line)
    BY <1>4, LinesMore
  <2> HIDE DEF e, N
  <2>3. SpokenTo(u, ws, e)
    BY <1>4 DEF e
  <2>4. CASE u \in ws
    BY <1>1, <2>1, <2>2, <2>3, <2>4, WinHears DEF SpokenTo
  <2>5. CASE u \notin ws
    BY <1>1, <1>4, <2>2, <2>3, <2>5, WinStays DEF SpokenTo
  <2> QED BY <2>4, <2>5
<1>5. ASSUME NEW line \in Lines, SpeakLine(line), SpokenTo(u, members, TheLine(Len(log) + 1))
      PROVE  WinInv(u)'
  BY <1>4, <1>5 DEF SpeakLine
<1>6. ASSUME NEW w \in Windows, HandleSend(w), SpokenTo(u, Others(w), TheLine(Len(log) + 1))
      PROVE  WinInv(u)'
  BY <1>4, <1>6, HandleSendIs
<1>7. CASE Own(u)
  BY <1>7, WinOwn
<1> QED BY <1>2, <1>3, <1>5, <1>6, <1>7, Steps

WinsInv == \A w \in Windows : WinInv(w)

LEMMA WinsInit == Init => WinsInv
<1> SUFFICES ASSUME Init, NEW w \in Windows PROVE WinInv(w)
  BY DEF WinsInv
<1>1. /\ log = <<>> /\ members = {} /\ inbox[w] = <<>> /\ call[w] = NoCall
      /\ win[w].msgs = <<>> /\ win[w].replay = 0 /\ win[w].round = 0 /\ win[w].ready = FALSE
      /\ past[w].typed = {} /\ past[w].given = {} /\ past[w].lossy = FALSE /\ past[w].disturbed = FALSE
      /\ NoCall.phase = "none"
  BY DEF Init, NoCall
<1>2. Cursor(call[w]) /\ Idle(w) /\ ~Gapped(w)
  BY <1>1 DEF Cursor, Idle, Gapped
<1>3. Orderly(w)
  BY <1>1 DEF Orderly, Shaped, Numbered, Fresh, Active, Prepared, Placed, Prefix, Ordered
<1> QED BY <1>1, <1>2, <1>3 DEF WinInv

\* What is ahead of an event, in the terms of the invariant.
LEMMA BeforeIs ==
  ASSUME TypeOK, NEW w \in Windows
  PROVE  /\ \A n : n \in Before(w, Len(inbox[w]) + 1) <=> Coming(inbox[w], past[w].given, n)
         /\ \A i \in DOMAIN inbox[w] : \A m \in Before(w, i) :
              m \in past[w].given \/ \E j \in DOMAIN inbox[w] : j < i /\ m \in LinesOf(inbox[w][j])
<1>1. inbox[w] \in Seq(Events) /\ DOMAIN inbox[w] = 1..Len(inbox[w]) /\ Len(inbox[w]) \in Nat
  <2>1. inbox[w] \in Seq(Events)
    BY ViewIs
  <2> QED BY <2>1
<1>2. 1..((Len(inbox[w]) + 1) - 1) = DOMAIN inbox[w]
  BY <1>1
<1>3. \A n : n \in Before(w, Len(inbox[w]) + 1) <=> Coming(inbox[w], past[w].given, n)
  BY <1>2 DEF Before, Coming
<1>4. ASSUME NEW i \in DOMAIN inbox[w], NEW m \in Before(w, i)
      PROVE  m \in past[w].given \/ \E j \in DOMAIN inbox[w] : j < i /\ m \in LinesOf(inbox[w][j])
  <2>1. m \in past[w].given \/ \E j \in 1..(i - 1) : m \in LinesOf(inbox[w][j])
    BY DEF Before
  <2>2. \A j \in 1..(i - 1) : j \in DOMAIN inbox[w] /\ j < i
    BY <1>1
  <2> QED BY <2>1, <2>2
<1> QED BY <1>3, <1>4

\* The invariant implies the property.
LEMMA Meets ==
  ASSUME TypeOK, WinsInv
  PROVE  HistoryMeetsLive
<1> SUFFICES ASSUME NEW w \in members, ~past[w].lossy
             PROVE  /\ \A n \in 1..Len(log) :
                         log[n].type = "in" \/ n \in past[w].missed \/ n \in Before(w, Len(inbox[w]) + 1)
                    /\ \A i \in DOMAIN inbox[w] : \A n \in LinesOf(inbox[w][i]), m \in Before(w, i) : m < n
  BY DEF HistoryMeetsLive
<1>1. w \in Windows
  BY TypeParts DEF InboxType
<1>2. Orderly(w)
  BY <1>1 DEF WinsInv, WinInv, Sound
<1>3. call[w].phase = "none"
  BY <1>2 DEF Orderly, Prepared
<1>4. 1..Len(log) = DOMAIN log
  <2>1. log \in Seq(Lines)
    BY TypeParts DEF LogType
  <2> QED BY <2>1
<1>5. \A n \in 1..Len(log) :
        log[n].type = "in" \/ n \in past[w].missed \/ n \in Before(w, Len(inbox[w]) + 1)
  BY <1>1, <1>2, <1>3, <1>4, BeforeIs DEF Orderly, Placed
<1>6. \A i \in DOMAIN inbox[w] : \A n \in LinesOf(inbox[w][i]), m \in Before(w, i) : m < n
  BY <1>1, <1>2, BeforeIs DEF Orderly, Placed, Ordered
<1> QED BY <1>5, <1>6

MeetInv == TypeInv /\ LogInv /\ WinsInv

LEMMA MeetInvNext ==
  ASSUME MeetInv, [Next]_vars
  PROVE  MeetInv'
<1>1. TypeInv' /\ LogInv'
  BY TypeInvNext, LogInvNext DEF MeetInv, TypeInv
<1>2. WinsInv'
  BY <1>1, WinInvNext DEF MeetInv, TypeInv, WinsInv
<1> QED BY <1>1, <1>2 DEF MeetInv

\* Types, references, rounds, the log and the inboxes, in every reachable state.
LEMMA MeetInvariant == Spec => []MeetInv
<1>1. Init => MeetInv
  BY TypeInvInit, LogInvInit, WinsInit DEF MeetInv
<1>2. MeetInv /\ [Next]_vars => MeetInv'
  BY MeetInvNext
<1> QED BY <1>1, <1>2, PTL DEF Spec

\* Every line the process printed is given to a window once, by the history or live, in the
\* order of the log, but for those printed between the last read of its join and the
\* registration of its socket.
THEOREM EveryLineOnce == Spec => []HistoryMeetsLive
<1>1. MeetInv => HistoryMeetsLive
  BY Meets DEF MeetInv, TypeInv
<1> QED BY <1>1, MeetInvariant, PTL

-----------------------------------------------------------------------------
(* The messages of the user *)

\* The messages of a text that are not echoed yet are as many as the prompts, or fewer.
Counts(S, U, k) == Cardinality(S) <= Cardinality(U) /\ (k \/ Cardinality(S) = Cardinality(U))

\* Counting with one more, or one less, on both sides.
LEMMA CountsAdd ==
  ASSUME NEW S, NEW U, NEW k, IsFiniteSet(S), IsFiniteSet(U), Counts(S, U, k), NEW s, s \notin S, NEW p, p \notin U
  PROVE  Counts(S \cup {s}, U \cup {p}, k)
<1>1. Cardinality(S \cup {s}) = Cardinality(S) + 1 /\ Cardinality(U \cup {p}) = Cardinality(U) + 1
  BY FS_AddElement
<1>2. Cardinality(S) \in Nat /\ Cardinality(U) \in Nat
  BY FS_CardinalityType
<1> QED BY <1>1, <1>2 DEF Counts

LEMMA CountsRemove ==
  ASSUME NEW S, NEW U, NEW k, IsFiniteSet(S), IsFiniteSet(U), Counts(S, U, k), NEW s \in S, NEW p
  PROVE  p \in U => Counts(S \ {s}, U \ {p}, k)
<1>1. p \in U => Cardinality(U \ {p}) = Cardinality(U) - 1
  BY FS_RemoveElement
<1>2. Cardinality(S \ {s}) = Cardinality(S) - 1
  BY FS_RemoveElement
<1>3. Cardinality(S) \in Nat /\ Cardinality(U) \in Nat
  BY FS_CardinalityType
<1> QED BY <1>1, <1>2, <1>3 DEF Counts

LEMMA CountsFewer ==
  ASSUME NEW S, NEW U, NEW k, IsFiniteSet(S), IsFiniteSet(U), Counts(S, U, k), NEW s \in S
  PROVE  Counts(S \ {s}, U, TRUE)
<1>1. Cardinality(S \ {s}) = Cardinality(S) - 1
  BY FS_RemoveElement
<1>2. Cardinality(S) \in Nat /\ Cardinality(U) \in Nat
  BY FS_CardinalityType
<1> QED BY <1>1, <1>2 DEF Counts

LEMMA CountsNone ==
  ASSUME NEW U, NEW k, IsFiniteSet(U), Counts({}, U, k), NEW V, V \subseteq U
  PROVE  Counts({}, V, k)
<1>1. IsFiniteSet(V) /\ Cardinality({}) = 0
  BY FS_Subset, FS_EmptySet
<1>2. Cardinality(V) \in Nat
  BY <1>1, FS_CardinalityType
<1>3. k \/ V = {}
  BY <1>1, FS_EmptySet DEF Counts
<1> QED BY <1>1, <1>2, <1>3 DEF Counts

\* Who shows what: Found are the messages of a text and uuid, Waiting the known prompts of a
\* text that were not echoed.
Found(ms, t, x) == {i \in DOMAIN ms : ms[i] = UserMessage(t, x)}
\* Prompts of a text that are known and not echoed.
Waiting(P, K, E, t) == {p \in K \ E : P[p].text = t}

\* The messages of the user a window shows are the prompts it knows.
Shows(P, ms, K, E, k) ==
  /\ \A p \in E : Cardinality(Found(ms, P[p].text, p)) = 1
  /\ \A t \in Texts : Counts(Found(ms, t, 0), Waiting(P, K, E, t), k)
  /\ \A i \in DOMAIN ms : ms[i].type = "user" => ms[i].uuid \in {0} \cup E

\* Messages of the user differ by their text and uuid.
LEMMA UserMessages ==
  /\ \A t, x, s, y : UserMessage(t, x) = UserMessage(s, y) => t = s /\ x = y
  /\ \A t, x : UserMessage(t, x).type = "user" /\ UserMessage(t, x).text = t /\ UserMessage(t, x).uuid = x
<1>1. \A t, x : UserMessage(t, x).type = "user" /\ UserMessage(t, x).text = t /\ UserMessage(t, x).uuid = x
  BY DEF UserMessage
<1>2. ASSUME NEW t, NEW x, NEW s, NEW y, UserMessage(t, x) = UserMessage(s, y) PROVE t = s /\ x = y
  BY <1>1, <1>2
<1> QED BY <1>1, <1>2

LEMMA FoundFinite ==
  ASSUME NEW ms \in Seq(Messages), NEW t, NEW x
  PROVE  IsFiniteSet(Found(ms, t, x))
<1>1. Len(ms) \in Nat /\ DOMAIN ms = 1..Len(ms)
  OBVIOUS
<1>2. IsFiniteSet(1..Len(ms))
  BY <1>1, FS_Interval
<1>3. Found(ms, t, x) \subseteq 1..Len(ms)
  BY <1>1 DEF Found
<1> QED BY <1>2, <1>3, FS_Subset

LEMMA WaitingFinite ==
  ASSUME NEW n \in Nat, NEW K, K \subseteq 1..n, NEW P, NEW E, NEW t
  PROVE  IsFiniteSet(Waiting(P, K, E, t))
<1>1. IsFiniteSet(1..n)
  BY FS_Interval
<1>2. Waiting(P, K, E, t) \subseteq 1..n
  BY DEF Waiting
<1> QED BY <1>1, <1>2, FS_Subset

\* What keeps the messages of the user shows the same prompts.
LEMMA ShowsKept ==
  ASSUME NEW ms, NEW ns, KeepsUsers(ms, ns), NEW P, NEW K, NEW E, NEW k, Shows(P, ms, K, E, k)
  PROVE  Shows(P, ns, K, E, k)
<1>1. \A t, x : Found(ns, t, x) = Found(ms, t, x)
  <2>1. ASSUME NEW t, NEW x, NEW i PROVE i \in Found(ns, t, x) <=> i \in Found(ms, t, x)
    <3>1. i \in DOMAIN ns => IF i \in DOMAIN ms /\ ms[i].type = "user" THEN ns[i] = ms[i] ELSE ns[i].type # "user"
      BY DEF KeepsUsers
    <3>2. i \in DOMAIN ms => i \in DOMAIN ns
      BY DEF KeepsUsers
    <3>3. UserMessage(t, x).type = "user"
      BY UserMessages
    <3> QED BY <3>1, <3>2, <3>3 DEF Found
  <2> QED BY <2>1 DEF Found
<1>2. \A i \in DOMAIN ns : ns[i].type = "user" => ns[i].uuid \in {0} \cup E
  BY DEF Shows, KeepsUsers
<1> QED BY <1>1, <1>2 DEF Shows

\* A prompt that was not known is shown.
LEMMA ShowsNew ==
  ASSUME NEW ms \in Seq(Messages), NEW n \in Nat, NEW K, K \subseteq 1..n, NEW E, NEW P, NEW k,
         Shows(P, ms, K, E, k), NEW p, p \notin K, p \notin E, 0 \notin E, P[p].text \in Texts
  PROVE  Shows(P, Append(ms, UserMessage(P[p].text, 0)), K \cup {p}, E, k)
<1> DEFINE m == UserMessage(P[p].text, 0)
           ns == Append(ms, m)
           l == Len(ms) + 1
<1>1. m.type = "user" /\ m.text = P[p].text /\ m.uuid = 0
  BY UserMessages
<1>2. /\ DOMAIN ns = DOMAIN ms \cup {l} /\ l \notin DOMAIN ms /\ ns[l] = m
      /\ \A i \in DOMAIN ms : ns[i] = ms[i]
  <2>1. m \in Messages
    BY MessageKinds, Constants
  <2> HIDE DEF m
  <2>2. /\ DOMAIN ns = 1..(Len(ms) + 1) /\ DOMAIN ms = 1..Len(ms) /\ Len(ms) \in Nat /\ ns[Len(ms) + 1] = m
        /\ \A i \in DOMAIN ms : ns[i] = ms[i]
    BY <2>1, Appended
  <2>3. 1..(Len(ms) + 1) = (1..Len(ms)) \cup {l} /\ l \notin 1..Len(ms)
    BY <2>2
  <2> QED BY <2>2, <2>3
<1> HIDE DEF ns, l
<1>3. \A t, x : Found(ns, t, x) = IF t = P[p].text /\ x = 0 THEN Found(ms, t, x) \cup {l} ELSE Found(ms, t, x)
  <2>1. ASSUME NEW t, NEW x
        PROVE  Found(ns, t, x) = IF t = P[p].text /\ x = 0 THEN Found(ms, t, x) \cup {l} ELSE Found(ms, t, x)
    <3>1. m = UserMessage(t, x) <=> t = P[p].text /\ x = 0
      BY UserMessages
    <3> HIDE DEF m
    <3> QED BY <1>2, <3>1 DEF Found
  <2> QED BY <2>1
<1>4. \A t : Waiting(P, K \cup {p}, E, t) = IF t = P[p].text THEN Waiting(P, K, E, t) \cup {p} ELSE Waiting(P, K, E, t)
  BY DEF Waiting
<1>5. \A q \in E : Cardinality(Found(ns, P[q].text, q)) = 1
  BY <1>3 DEF Shows
<1>6. ASSUME NEW t \in Texts PROVE Counts(Found(ns, t, 0), Waiting(P, K \cup {p}, E, t), k)
  <2>1. Counts(Found(ms, t, 0), Waiting(P, K, E, t), k) /\ IsFiniteSet(Found(ms, t, 0))
        /\ IsFiniteSet(Waiting(P, K, E, t))
    BY FoundFinite, WaitingFinite DEF Shows
  <2>2. l \notin Found(ms, t, 0) /\ p \notin Waiting(P, K, E, t)
    BY <1>2 DEF Found, Waiting
  <2>3. Counts(Found(ms, t, 0) \cup {l}, Waiting(P, K, E, t) \cup {p}, k)
    BY <2>1, <2>2, CountsAdd
  <2> QED BY <1>3, <1>4, <2>1, <2>3
<1>7. \A i \in DOMAIN ns : ns[i].type = "user" => ns[i].uuid \in {0} \cup E
  BY <1>1, <1>2 DEF Shows
<1> QED BY <1>5, <1>6, <1>7 DEF Shows, ns

\* The echo of a prompt that was not echoed: nothing of its text waits, or a message that
\* does is taken for it.
LEMMA ShowsEcho ==
  ASSUME NEW v \in Views, NEW n \in Nat, NEW K, K \subseteq 1..n, NEW E, NEW P, NEW k \in BOOLEAN,
         Shows(P, v.msgs, K, E, k), NEW p \in 1..MaxInputs, p \notin E, P[p].text \in Texts, 0 \notin E
  PROVE  LET t == P[p].text
         IN Shows(P, onMessageUser(v, t, p).msgs, K \cup {p}, E \cup {p},
                  k \/ (p \notin K /\ MatchOf(v.msgs, t, p) # 0))
<1> DEFINE T == P[p].text
           ms == v.msgs
           j == MatchOf(ms, T, p)
           ns == onMessageUser(v, T, p).msgs
           z == k \/ (p \notin K /\ j # 0)
<1>1. ms \in Seq(Messages) /\ p \in 0..MaxInputs /\ p # 0
  BY Constants DEF Views
<1>2. IF j = 0 THEN ns = Append(ms, UserMessage(T, p))
      ELSE /\ j \in DOMAIN ms /\ ms[j].type = "user" /\ ms[j].text \in Texts
           /\ ns = [ms EXCEPT ![j] = UserMessage(ms[j].text, p)]
  BY <1>1, UserIs
<1>3. /\ j # 0 => Matches(ms[j], T, p)
      /\ \A i \in DOMAIN ms : Matches(ms[i], T, p) => j # 0
  BY <1>1, LastMatch
<1>4. UserMessage(T, p) \in Messages /\ UserMessage(T, p).type = "user" /\ UserMessage(T, p).uuid = p
  BY <1>1, MessageKinds, UserMessages
<1>5. \A i \in DOMAIN ms : ms[i].type = "user" => ms[i].uuid \in {0} \cup E /\ ms[i] = UserMessage(ms[i].text, ms[i].uuid)
  <2>1. \A i \in DOMAIN ms : ms[i] \in Messages
    BY <1>1
  <2> QED BY <2>1, MessageKinds DEF Shows
<1>6. \A t : Found(ms, t, p) = {}
  <2>1. ASSUME NEW t, NEW i \in Found(ms, t, p) PROVE FALSE
    <3>1. i \in DOMAIN ms /\ ms[i] = UserMessage(t, p)
      BY <2>1 DEF Found
    <3>2. ms[i].type = "user" /\ ms[i].uuid = p
      BY <3>1, UserMessages
    <3> QED BY <1>1, <1>5, <3>1, <3>2
  <2> QED BY <2>1
<1>7. \A t : Waiting(P, K \cup {p}, E \cup {p}, t) = Waiting(P, K, E, t) \ {p}
  BY DEF Waiting
<1>8. \A t : p \in Waiting(P, K, E, t) <=> p \in K /\ t = T
  BY DEF Waiting
<1>9. \A t \in Texts : /\ Counts(Found(ms, t, 0), Waiting(P, K, E, t), k) /\ IsFiniteSet(Found(ms, t, 0))
                       /\ IsFiniteSet(Waiting(P, K, E, t))
  BY <1>1, FoundFinite, WaitingFinite DEF Shows
<1> HIDE DEF j, ns, ms
<1>10. CASE j = 0
  <2> DEFINE m == UserMessage(T, p)
             l == Len(ms) + 1
  <2>1. /\ DOMAIN ns = DOMAIN ms \cup {l} /\ l \notin DOMAIN ms /\ ns[l] = m
        /\ \A i \in DOMAIN ms : ns[i] = ms[i]
    <3>1. ns = Append(ms, m) /\ m \in Messages
      BY <1>2, <1>4, <1>10
    <3> HIDE DEF m
    <3>2. /\ DOMAIN ns = 1..(Len(ms) + 1) /\ DOMAIN ms = 1..Len(ms) /\ Len(ms) \in Nat /\ ns[Len(ms) + 1] = m
          /\ \A i \in DOMAIN ms : ns[i] = ms[i]
      BY <1>1, <3>1, Appended
    <3>3. 1..(Len(ms) + 1) = (1..Len(ms)) \cup {l} /\ l \notin 1..Len(ms)
      BY <3>2
    <3> QED BY <3>2, <3>3
  <2> HIDE DEF l
  <2>2. \A t, x : Found(ns, t, x) = IF t = T /\ x = p THEN Found(ms, t, x) \cup {l} ELSE Found(ms, t, x)
    <3>1. ASSUME NEW t, NEW x
          PROVE  Found(ns, t, x) = IF t = T /\ x = p THEN Found(ms, t, x) \cup {l} ELSE Found(ms, t, x)
      <4>1. m = UserMessage(t, x) <=> t = T /\ x = p
        BY UserMessages
      <4> HIDE DEF m
      <4> QED BY <2>1, <4>1 DEF Found
    <3> QED BY <3>1
  <2>3. \A q \in E \cup {p} : Cardinality(Found(ns, P[q].text, q)) = 1
    <3>1. Found(ns, T, p) = {l}
      BY <1>6, <2>2
    <3>2. Cardinality({l}) = 1
      BY FS_Singleton
    <3>3. \A q \in E : Found(ns, P[q].text, q) = Found(ms, P[q].text, q)
      BY <2>2
    <3> QED BY <3>1, <3>2, <3>3 DEF Shows, ms
  <2>4. ASSUME NEW t \in Texts PROVE Counts(Found(ns, t, 0), Waiting(P, K \cup {p}, E \cup {p}, t), z)
    <3>1. Found(ns, t, 0) = Found(ms, t, 0)
      BY <1>1, <2>2
    <3>2. CASE t = T
      <4>1. Found(ms, t, 0) = {}
        <5>1. ASSUME NEW i \in Found(ms, t, 0) PROVE FALSE
          <6>1. i \in DOMAIN ms /\ ms[i] = UserMessage(t, 0)
            BY <5>1 DEF Found
          <6>2. Matches(ms[i], T, p)
            BY <3>2, <6>1, UserMessages DEF Matches
          <6> QED BY <1>3, <1>10, <6>1, <6>2
        <5> QED BY <5>1
      <4>2. Counts({}, Waiting(P, K, E, t), k)
        BY <1>9, <4>1
      <4>3. Counts({}, Waiting(P, K, E, t) \ {p}, k)
        BY <1>9, <4>2, CountsNone
      <4> QED BY <1>7, <3>1, <4>1, <4>3 DEF Counts
    <3>3. CASE t # T
      <4>1. Waiting(P, K, E, t) \ {p} = Waiting(P, K, E, t)
        BY <1>8, <3>3
      <4> QED BY <1>7, <1>9, <3>1, <4>1 DEF Counts
    <3> QED BY <3>2, <3>3
  <2>5. \A i \in DOMAIN ns : ns[i].type = "user" => ns[i].uuid \in {0} \cup (E \cup {p})
    BY <1>4, <1>5, <2>1
  <2> QED BY <2>3, <2>4, <2>5 DEF Shows, ns, ms, j
<1>11. CASE j # 0
  <2> DEFINE m == UserMessage(ms[j].text, p)
  <2>1. ms[j].type = "user" /\ j \in DOMAIN ms /\ ms[j].uuid = 0 /\ ms[j].text = T /\ ms[j] = UserMessage(T, 0)
    BY <1>1, <1>2, <1>3, <1>5, <1>11 DEF Matches
  <2>2. DOMAIN ns = DOMAIN ms /\ ns[j] = UserMessage(T, p) /\ \A i \in DOMAIN ms : i # j => ns[i] = ms[i]
    <3> DEFINE y == UserMessage(T, p)
    <3>1. ns = [ms EXCEPT ![j] = y] /\ y \in Messages
      BY <1>2, <1>4, <1>11, <2>1
    <3> HIDE DEF y
    <3>2. DOMAIN ns = DOMAIN ms /\ ns[j] = y /\ \A i \in DOMAIN ms : i # j => ns[i] = ms[i]
      BY <1>1, <2>1, <3>1, Replaced
    <3> QED BY <3>2 DEF y
  <2>3. \A t, x : Found(ns, t, x) = IF t = T /\ x = p THEN Found(ms, t, x) \cup {j}
                                    ELSE IF t = T /\ x = 0 THEN Found(ms, t, x) \ {j} ELSE Found(ms, t, x)
    <3>1. ASSUME NEW t, NEW x
          PROVE  Found(ns, t, x) = IF t = T /\ x = p THEN Found(ms, t, x) \cup {j}
                                   ELSE IF t = T /\ x = 0 THEN Found(ms, t, x) \ {j} ELSE Found(ms, t, x)
      <4>1. (UserMessage(T, p) = UserMessage(t, x) <=> t = T /\ x = p)
            /\ (UserMessage(T, 0) = UserMessage(t, x) <=> t = T /\ x = 0)
        BY UserMessages
      <4>2. \A i : i \in Found(ns, t, x) <=> i \in DOMAIN ms /\ ns[i] = UserMessage(t, x)
        BY <2>2 DEF Found
      <4>3. \A i : i \in Found(ms, t, x) <=> i \in DOMAIN ms /\ ms[i] = UserMessage(t, x)
        BY DEF Found
      <4>4. j \in Found(ns, t, x) <=> t = T /\ x = p
        BY <2>1, <2>2, <4>1, <4>2
      <4>5. j \in Found(ms, t, x) <=> t = T /\ x = 0
        BY <2>1, <4>1, <4>3
      <4>6. \A i : i # j => (i \in Found(ns, t, x) <=> i \in Found(ms, t, x))
        BY <2>2, <4>2, <4>3
      <4>7. ASSUME t = T, x = p PROVE Found(ns, t, x) = Found(ms, t, x) \cup {j}
        BY <4>4, <4>6, <4>7
      <4>8. ASSUME t = T, x = 0 PROVE Found(ns, t, x) = Found(ms, t, x) \ {j}
        BY <1>1, <4>4, <4>5, <4>6, <4>8
      <4>9. ASSUME ~(t = T /\ x = p), ~(t = T /\ x = 0) PROVE Found(ns, t, x) = Found(ms, t, x)
        BY <4>4, <4>5, <4>6, <4>9
      <4> HIDE DEF T
      <4> QED BY <1>1, <4>7, <4>8, <4>9
    <3> QED BY <3>1
  <2>4. \A q \in E \cup {p} : Cardinality(Found(ns, P[q].text, q)) = 1
    <3>1. Found(ns, T, p) = {j}
      BY <1>6, <2>3
    <3>2. Cardinality({j}) = 1
      BY FS_Singleton
    <3>3. \A q \in E : Found(ns, P[q].text, q) = Found(ms, P[q].text, q)
      BY <2>3
    <3> QED BY <3>1, <3>2, <3>3 DEF Shows, ms
  <2>5. ASSUME NEW t \in Texts PROVE Counts(Found(ns, t, 0), Waiting(P, K \cup {p}, E \cup {p}, t), z)
    <3>1. CASE t = T
      <4>1. Found(ns, t, 0) = Found(ms, t, 0) \ {j}
        BY <1>1, <2>3, <3>1
      <4>2. j \in Found(ms, t, 0)
        BY <2>1, <3>1 DEF Found
      <4>3. CASE p \in K
        <5>1. Counts(Found(ms, t, 0) \ {j}, Waiting(P, K, E, t) \ {p}, k)
          BY <1>8, <1>9, <3>1, <4>2, <4>3, CountsRemove
        <5> QED BY <1>7, <4>1, <5>1 DEF Counts
      <4>4. CASE p \notin K
        <5>1. Counts(Found(ms, t, 0) \ {j}, Waiting(P, K, E, t), TRUE)
          BY <1>9, <4>2, CountsFewer
        <5>2. Waiting(P, K, E, t) \ {p} = Waiting(P, K, E, t) /\ z
          BY <1>8, <1>11, <4>4
        <5> QED BY <1>7, <4>1, <5>1, <5>2 DEF Counts
      <4> QED BY <4>3, <4>4
    <3>2. CASE t # T
      <4>1. Found(ns, t, 0) = Found(ms, t, 0)
        BY <2>3, <3>2
      <4>2. Waiting(P, K, E, t) \ {p} = Waiting(P, K, E, t)
        BY <1>8, <3>2
      <4> QED BY <1>7, <1>9, <4>1, <4>2 DEF Counts
    <3> QED BY <3>1, <3>2
  <2>6. \A i \in DOMAIN ns : ns[i].type = "user" => ns[i].uuid \in {0} \cup (E \cup {p})
    BY <1>4, <1>5, <2>2
  <2> QED BY <2>4, <2>5, <2>6 DEF Shows, ns, ms, j
<1> QED BY <1>10, <1>11

-----------------------------------------------------------------------------
(* What lines do to the messages of the user *)

\* The prompts of a set of lines.
LEMMA PromptsIn ==
  ASSUME NEW G
  PROVE  /\ \A p : p \in PromptsOf(G) <=> \E m \in G : log[m].type \in {"in", "echo"} /\ log[m].n = p
         /\ \A p : p \in EchoedIn(G) <=> \E m \in G : log[m].type = "echo" /\ log[m].n = p
         /\ EchoedIn(G) \subseteq PromptsOf(G)
<1>1. \A p : p \in PromptsOf(G) <=> \E m \in G : log[m].type \in {"in", "echo"} /\ log[m].n = p
  BY DEF PromptsOf
<1>2. \A p : p \in EchoedIn(G) <=> \E m \in G : log[m].type = "echo" /\ log[m].n = p
  BY DEF EchoedIn
<1> QED BY <1>1, <1>2

LEMMA LinesAdded ==
  ASSUME NEW G, NEW n
  PROVE  /\ PromptsOf(G \cup {n}) = IF log[n].type \in {"in", "echo"} THEN PromptsOf(G) \cup {log[n].n}
                                   ELSE PromptsOf(G)
         /\ EchoedIn(G \cup {n}) = IF log[n].type = "echo" THEN EchoedIn(G) \cup {log[n].n} ELSE EchoedIn(G)
<1>1. \A q : q \in PromptsOf(G \cup {n}) <=>
              q \in PromptsOf(G) \/ (log[n].type \in {"in", "echo"} /\ q = log[n].n)
  BY PromptsIn
<1>2. \A q : q \in EchoedIn(G \cup {n}) <=> q \in EchoedIn(G) \/ (log[n].type = "echo" /\ q = log[n].n)
  BY PromptsIn
<1>3. PromptsOf(G \cup {n}) = IF log[n].type \in {"in", "echo"} THEN PromptsOf(G) \cup {log[n].n}
                              ELSE PromptsOf(G)
  <2> DEFINE b == log[n].type \in {"in", "echo"}
             q == log[n].n
             C == PromptsOf(G \cup {n})
             D == PromptsOf(G)
  <2>1. b => C = D \cup {q}
    BY <1>1
  <2>2. ~b => C = D
    BY <1>1
  <2> HIDE DEF b, q, C, D
  <2>3. C = IF b THEN D \cup {q} ELSE D
    BY <2>1, <2>2
  <2> QED BY <2>3 DEF b, q, C, D
<1>4. EchoedIn(G \cup {n}) = IF log[n].type = "echo" THEN EchoedIn(G) \cup {log[n].n} ELSE EchoedIn(G)
  <2> DEFINE b == log[n].type = "echo"
             q == log[n].n
             C == EchoedIn(G \cup {n})
             D == EchoedIn(G)
  <2>1. b => C = D \cup {q}
    BY <1>2
  <2>2. ~b => C = D
    BY <1>2
  <2> HIDE DEF b, q, C, D
  <2>3. C = IF b THEN D \cup {q} ELSE D
    BY <2>1, <2>2
  <2> QED BY <2>3 DEF b, q, C, D
<1> QED BY <1>3, <1>4

\* The prompts of known lines are known.
LEMMA PromptsKnown ==
  ASSUME NEW G, \A n \in G : LineKnown(log[n])
  PROVE  PromptsOf(G) \subseteq DOMAIN prompts /\ EchoedIn(G) \subseteq DOMAIN prompts
<1>1. \A p \in PromptsOf(G) : p \in DOMAIN prompts
  BY PromptsIn DEF LineKnown
<1> QED BY <1>1, PromptsIn

\* Prompts typed later do not matter.
LEMMA ShowsGrows ==
  ASSUME NEW P, NEW Q, NEW ms, NEW K, NEW E, NEW k, Shows(P, ms, K, E, k),
         K \subseteq DOMAIN P, E \subseteq DOMAIN P, \A p \in DOMAIN P : Q[p] = P[p]
  PROVE  Shows(Q, ms, K, E, k)
<1>1. \A t : Waiting(Q, K, E, t) = Waiting(P, K, E, t)
  BY DEF Waiting
<1> QED BY <1>1 DEF Shows

\* The next line, live or replayed.
Taking(ms, K, line) ==
  line.type = "echo" /\ line.n \notin K /\ MatchOf(ms, prompts[line.n].text, line.n) # 0

\* A line keeps the account of the prompts.
LEMMA ShowsLine ==
  ASSUME PromptsType, NEW v \in Views, log \in Seq(Lines), Unique, EchoAfterIn,
         \A m \in DOMAIN log : LineKnown(log[m]),
         NEW G, G \subseteq DOMAIN log, NEW n \in DOMAIN log, \A m \in G : m < n,
         NEW T, T \subseteq DOMAIN prompts, log[n].type = "in" => log[n].n \notin T,
         NEW k \in BOOLEAN, Shows(prompts, v.msgs, T \cup PromptsOf(G), EchoedIn(G), k)
  PROVE  Shows(prompts, Reduced(v, log[n]).msgs, T \cup PromptsOf(G \cup {n}), EchoedIn(G \cup {n}),
               k \/ Taking(v.msgs, T \cup PromptsOf(G), log[n]))
<1> DEFINE line == log[n]
           p == log[n].n
           K == T \cup PromptsOf(G)
           E == EchoedIn(G)
           N == Len(prompts)
<1>1. line \in Lines /\ LineKnown(line) /\ v.msgs \in Seq(Messages) /\ N \in Nat /\ DOMAIN prompts = 1..N
      /\ N <= MaxInputs /\ MaxInputs \in Nat
  <2>1. DOMAIN log = 1..Len(log) /\ \A m \in DOMAIN log : log[m] \in Lines
    OBVIOUS
  <2>2. N \in Nat /\ DOMAIN prompts = 1..N /\ N <= MaxInputs
    BY DEF PromptsType
  <2> QED BY <2>1, <2>2, Constants DEF Views
<1>2. K \subseteq 1..N /\ E \subseteq 1..N /\ E \subseteq K
  BY <1>1, PromptsKnown, PromptsIn
<1>3. \A m \in G : m \in DOMAIN log /\ m # n /\ ~(n < m)
  <2>1. \A m \in DOMAIN log : m \in Nat
    OBVIOUS
  <2> QED BY <2>1
<1>4. PromptsOf(G \cup {n}) = IF line.type \in {"in", "echo"} THEN PromptsOf(G) \cup {p} ELSE PromptsOf(G)
  BY LinesAdded
<1>5. EchoedIn(G \cup {n}) = IF line.type = "echo" THEN E \cup {p} ELSE E
  BY LinesAdded
<1>6. CASE line.type = "echo"
  <2>1. p \notin E
    <3>1. ASSUME NEW m \in G, log[m].type = "echo", log[m].n = p PROVE FALSE
      BY <1>3, <1>6, <3>1 DEF Unique
    <3> QED BY <3>1, PromptsIn
  <2>2. p \in 1..MaxInputs /\ prompts[p].text \in Texts /\ 0 \notin E /\ p \in DOMAIN prompts
    <3>1. p \in DOMAIN prompts
      BY <1>1, <1>6 DEF LineKnown
    <3> QED BY <1>1, <1>2, <3>1, PromptIs
  <2>3. Reduced(v, line) = onMessageUser(v, prompts[p].text, p)
    BY <1>6 DEF Reduced
  <2> HIDE DEF p, K, E, N, line
  <2>4. Shows(prompts, onMessageUser(v, prompts[p].text, p).msgs, K \cup {p}, E \cup {p},
              k \/ (p \notin K /\ MatchOf(v.msgs, prompts[p].text, p) # 0))
    <3>1. Shows(prompts, v.msgs, K, E, k)
      BY DEF K, E
    <3> QED BY <1>1, <1>2, <2>1, <2>2, <3>1, ShowsEcho
  <2>5. (T \cup PromptsOf(G \cup {n})) = K \cup {p}
    BY <1>4, <1>6 DEF K
  <2>6. Taking(v.msgs, K, line) <=> (p \notin K /\ MatchOf(v.msgs, prompts[p].text, p) # 0)
    BY <1>6 DEF Taking, line, p
  <2>7. (k \/ (p \notin K /\ MatchOf(v.msgs, prompts[p].text, p) # 0)) \in BOOLEAN
    OBVIOUS
  <2>8. (k \/ Taking(v.msgs, K, line)) = (k \/ (p \notin K /\ MatchOf(v.msgs, prompts[p].text, p) # 0))
    BY <2>6
  <2> QED BY <1>5, <1>6, <2>3, <2>4, <2>5, <2>8 DEF K, line
<1>7. CASE line.type = "in"
  <2>1. p \notin PromptsOf(G)
    <3>1. ASSUME NEW m \in G, log[m].type = "in", log[m].n = p PROVE FALSE
      BY <1>3, <1>7, <3>1 DEF Unique
    <3>2. ASSUME NEW m \in G, log[m].type = "echo", log[m].n = p PROVE FALSE
      <4>1. PICK l : l < m /\ InLine(l, p)
        BY <1>3, <3>2 DEF EchoAfterIn
      <4>2. l = n
        BY <1>7, <4>1 DEF Unique, InLine
      <4> QED BY <1>3, <4>1, <4>2
    <3> QED BY <3>1, <3>2, PromptsIn
  <2>2. p \notin K /\ p \notin E
    BY <1>2, <1>7, <2>1
  <2>3. p \in DOMAIN prompts /\ prompts[p].text \in Texts /\ 0 \in 0..MaxInputs /\ 0 \notin E
    <3>1. p \in DOMAIN prompts
      BY <1>1, <1>7 DEF LineKnown
    <3> QED BY <1>1, <1>2, <3>1, PromptIs
  <2>4. Reduced(v, line) = onMessageUser(v, prompts[p].text, 0)
    BY <1>7 DEF Reduced
  <2> HIDE DEF p, K, E, N, line
  <2>5. onMessageUser(v, prompts[p].text, 0).msgs = Append(v.msgs, UserMessage(prompts[p].text, 0))
    BY <2>3, UserIs
  <2>6. Shows(prompts, Append(v.msgs, UserMessage(prompts[p].text, 0)), K \cup {p}, E, k)
    <3>1. Shows(prompts, v.msgs, K, E, k)
      BY DEF K, E
    <3> QED BY <1>1, <1>2, <2>2, <2>3, <3>1, ShowsNew
  <2>7. (T \cup PromptsOf(G \cup {n})) = K \cup {p}
    BY <1>4, <1>7 DEF K
  <2>8. (k \/ Taking(v.msgs, K, line)) = k
    BY <1>7 DEF Taking
  <2> QED BY <1>5, <1>7, <2>4, <2>5, <2>6, <2>7, <2>8 DEF K, line
<1>8. CASE line.type \notin {"in", "echo"}
  <2>1. KeepsUsers(v.msgs, Reduced(v, line).msgs)
    BY <1>1, <1>8, ReducedReduces
  <2>2. (k \/ Taking(v.msgs, K, line)) = k
    BY <1>8 DEF Taking
  <2> HIDE DEF line
  <2>3. Shows(prompts, Reduced(v, line).msgs, K, E, k)
    BY <2>1, ShowsKept
  <2> QED BY <1>4, <1>5, <1>8, <2>2, <2>3 DEF line
<1> QED BY <1>6, <1>7, <1>8

\* The lines of a batch: what precedes them in the log was replayed, without the prompts of
\* stdin or with them, and no echo is taken for another.
LEMMA ShowsReplayed ==
  ASSUME PromptsType, NEW v \in Views, log \in Seq(Lines), Unique, EchoAfterIn,
         \A m \in DOMAIN log : LineKnown(log[m]),
         NEW G, G \subseteq DOMAIN log, NEW R, R \subseteq DOMAIN log, \A m \in G, n \in R : m < n,
         NEW h \in 0..Len(log), NEW x \in BOOLEAN, \A n \in G \cup R : Upon(n, h, x),
         \A n \in R : \A m : Upon(m, h, x) /\ m < n => m \in G \cup R,
         NEW k \in BOOLEAN, Shows(prompts, v.msgs, PromptsOf(G), EchoedIn(G), k)
  PROVE  Shows(prompts, Replayed(v, R).msgs, PromptsOf(G \cup R), EchoedIn(G \cup R), k)
<1> DEFINE N == Len(log)
           H(n) == G \cup {m \in R : m <= n}
           S == {s \in (0..N) \X Views :
                   Shows(prompts, s[2].msgs, PromptsOf(H(s[1])), EchoedIn(H(s[1])), k)}
<1>1. N \in Nat /\ DOMAIN log = 1..N
  OBVIOUS
<1>2. H(0) = G /\ H(N) = G \cup R
  BY <1>1
<1>3. <<0, v>> \in S
  <2>1. <<0, v>> \in (0..N) \X Views /\ <<0, v>>[1] = 0 /\ <<0, v>>[2] = v
    BY <1>1
  <2>2. Shows(prompts, v.msgs, PromptsOf(H(0)), EchoedIn(H(0)), k)
    BY <1>2
  <2> HIDE DEF H, N
  <2> QED BY <2>1, <2>2
<1>4. ASSUME NEW n \in 1..N, NEW y, <<n - 1, y>> \in S
      PROVE  <<n, IF n \in R THEN Reduced(y, log[n]) ELSE y>> \in S
  <2>1. y \in Views /\ n - 1 \in 0..N /\ n \in 0..N /\ n \in DOMAIN log
    BY <1>1, <1>4
  <2>2. Shows(prompts, y.msgs, PromptsOf(H(n - 1)), EchoedIn(H(n - 1)), k)
    BY <1>4
  <2>3. H(n) = IF n \in R THEN H(n - 1) \cup {n} ELSE H(n - 1)
    <3>1. \A m \in R : m <= n <=> m <= n - 1 \/ m = n
      BY <1>1
    <3> QED BY <3>1
  <2>4. CASE n \notin R
    BY <2>1, <2>2, <2>3, <2>4
  <2>5. CASE n \in R
    <3> DEFINE F == H(n - 1)
    <3>1. /\ F \subseteq DOMAIN log /\ \A m \in F : m < n
          /\ \A m \in G \cup R : m < n => m \in F
      <4>1. \A m \in R : m <= n - 1 <=> m < n
        BY <1>1
      <4> QED BY <2>5, <4>1
    <3>2. \A m \in F : Upon(m, h, x)
      OBVIOUS
    <3> HIDE DEF F, H, N
    <3>3. Shows(prompts, y.msgs, {} \cup PromptsOf(F), EchoedIn(F), k)
      BY <2>2 DEF F
    <3>4. Shows(prompts, Reduced(y, log[n]).msgs, {} \cup PromptsOf(F \cup {n}), EchoedIn(F \cup {n}),
                k \/ Taking(y.msgs, {} \cup PromptsOf(F), log[n]))
      BY <2>1, <3>1, <3>3, ShowsLine
    <3>5. ~Taking(y.msgs, {} \cup PromptsOf(F), log[n])
      <4> SUFFICES ASSUME Taking(y.msgs, {} \cup PromptsOf(F), log[n]) PROVE FALSE
        OBVIOUS
      <4> DEFINE p == log[n].n
                 j == MatchOf(y.msgs, prompts[p].text, p)
      <4>1. log[n].type = "echo" /\ p \notin PromptsOf(F) /\ j # 0
        BY DEF Taking
      <4>2. PICK m : m < n /\ InLine(m, p)
        BY <2>1, <4>1 DEF EchoAfterIn
      <4>3. m \notin F
        BY <4>1, <4>2, PromptsIn DEF InLine
      <4>4. ~Upon(m, h, x)
        BY <2>5, <3>1, <4>2, <4>3
      <4>5. m \in 1..h
        <5>1. n \in 1..h /\ m \in Nat /\ m >= 1
          BY <1>1, <2>5, <4>2 DEF Upon, InLine
        <5> QED BY <4>2, <5>1
      <4>6. x
        BY <4>4, <4>5 DEF Upon
      <4>7. \A l \in F : log[l].type # "in"
        BY <3>2, <4>6 DEF Upon
      <4>8. PromptsOf(F) \ EchoedIn(F) = {}
        BY <4>7, PromptsIn
      <4>9. p \in DOMAIN prompts /\ prompts[p].text \in Texts /\ p # 0 /\ p \notin EchoedIn(F)
        <5>1. p \in DOMAIN prompts
          BY <2>1, <4>1 DEF LineKnown
        <5> QED BY <4>1, <5>1, PromptIs, PromptsIn
      <4> HIDE DEF j, p
      <4>10. y.msgs \in Seq(Messages)
        BY <2>1 DEF Views
      <4>11. j \in DOMAIN y.msgs /\ Matches(y.msgs[j], prompts[p].text, p)
        BY <4>1, <4>10, LastMatch DEF j
      <4>12. y.msgs[j].uuid \in {0} \cup EchoedIn(F)
        BY <3>3, <4>11 DEF Shows, Matches
      <4>13. y.msgs[j].type = "user" /\ y.msgs[j].uuid = 0 /\ y.msgs[j].text = prompts[p].text
        BY <4>9, <4>11, <4>12 DEF Matches
      <4>14. j \in Found(y.msgs, prompts[p].text, 0)
        <5>1. y.msgs[j] \in Messages
          BY <4>10, <4>11
        <5> QED BY <4>11, <4>13, <5>1, MessageKinds DEF Found
      <4>15. Waiting(prompts, {} \cup PromptsOf(F), EchoedIn(F), prompts[p].text) = {}
        BY <4>8 DEF Waiting
      <4>16. Cardinality(Found(y.msgs, prompts[p].text, 0)) <= Cardinality({})
        BY <3>3, <4>9, <4>15 DEF Shows, Counts
      <4>17. IsFiniteSet(Found(y.msgs, prompts[p].text, 0))
        BY <4>10, FoundFinite
      <4>18. Cardinality({}) = 0 /\ Cardinality(Found(y.msgs, prompts[p].text, 0)) \in Nat
        BY <4>17, FS_EmptySet, FS_CardinalityType
      <4>19. Cardinality(Found(y.msgs, prompts[p].text, 0)) = 0
        BY <4>16, <4>18
      <4> QED BY <4>14, <4>17, <4>19, FS_EmptySet
    <3>6. (k \/ Taking(y.msgs, {} \cup PromptsOf(F), log[n])) = k
      BY <3>5
    <3>7. Shows(prompts, Reduced(y, log[n]).msgs, PromptsOf(F \cup {n}), EchoedIn(F \cup {n}), k)
      BY <3>4, <3>6
    <3>8. Reduced(y, log[n]) \in Views
      <4>1. log[n] \in Lines
        BY <2>1
      <4> QED BY <2>1, <4>1, ReducedReduces DEF Reduces
    <3>9. H(n) = F \cup {n}
      BY <2>3, <2>5 DEF F
    <3> QED BY <2>1, <2>5, <3>7, <3>8, <3>9
  <2> QED BY <2>4, <2>5
<1> HIDE DEF S
<1>5. <<N, Replayed(v, R)>> \in S
  BY <1>1, <1>3, <1>4, ReplayInduction
<1> QED BY <1>2, <1>5 DEF S

-----------------------------------------------------------------------------
(* The prompts a window shows *)

\* A line of stdin on its way to a window is a prompt of another one.
Foreign(u) ==
  \A i \in DOMAIN inbox[u] :
    inbox[u][i].type = "line" /\ log[inbox[u][i].n].type = "in" => prompts[log[inbox[u][i].n].n].by # u

\* So it is with a window that lost no event for good.
Tells(u) ==
  Sound(u) => Shows(prompts, win[u].msgs, Known(u), EchoedIn(past[u].given), past[u].taken)

\* A window still hears no line of stdin of its own.
LEMMA ForeignMore ==
  ASSUME TypeOK, RefsInv, Grows, NEW u \in Windows, Foreign(u),
         \A i \in DOMAIN inbox'[u] :
           \/ inbox'[u][i].type # "line"
           \/ \E j \in DOMAIN inbox[u] : inbox'[u][i] = inbox[u][j]
           \/ log'[inbox'[u][i].n].type = "in" => prompts'[log'[inbox'[u][i].n].n].by # u
  PROVE  Foreign(u)'
<1>1. ASSUME NEW j \in DOMAIN inbox[u], inbox[u][j].type = "line", log'[inbox[u][j].n].type = "in"
      PROVE  prompts'[log'[inbox[u][j].n].n].by # u
  <2>1. inbox[u][j].n \in DOMAIN log
    BY <1>1 DEF RefsInv, RefsOf, LinesOf
  <2>2. log'[inbox[u][j].n] = log[inbox[u][j].n] /\ LineKnown(log[inbox[u][j].n])
    BY <2>1 DEF Grows, RefsInv
  <2>3. log[inbox[u][j].n].n \in DOMAIN prompts
    BY <1>1, <2>2 DEF LineKnown
  <2>4. prompts'[log[inbox[u][j].n].n] = prompts[log[inbox[u][j].n].n]
    BY <2>3 DEF Grows
  <2> QED BY Zenon, <1>1, <2>2, <2>4 DEF Foreign
<1>2. ASSUME NEW i \in DOMAIN inbox'[u], inbox'[u][i].type = "line", log'[inbox'[u][i].n].type = "in"
      PROVE  prompts'[log'[inbox'[u][i].n].n].by # u
  BY <1>1, <1>2
<1> QED BY <1>2 DEF Foreign

\* What a window knows does not depend on lines it was not given.
LEMMA KnownStays ==
  ASSUME TypeOK, RefsInv, Grows, NEW u \in Windows, past'[u].given = past[u].given
  PROVE  /\ PromptsOf(past[u].given)' = PromptsOf(past[u].given)
         /\ EchoedIn(past[u].given)' = EchoedIn(past[u].given)
         /\ PromptsOf(past[u].given) \subseteq DOMAIN prompts /\ EchoedIn(past[u].given) \subseteq DOMAIN prompts
         /\ past[u].typed \subseteq DOMAIN prompts
<1>1. past[u].given \subseteq DOMAIN log /\ past[u].typed \subseteq DOMAIN prompts
  BY DEF RefsInv, RefsOf
<1>2. \A m \in past[u].given : log'[m] = log[m]
  BY <1>1 DEF Grows
<1>3. PromptsOf(past[u].given)' = PromptsOf(past[u].given)
  BY <1>2 DEF PromptsOf
<1>4. EchoedIn(past[u].given)' = EchoedIn(past[u].given)
  BY <1>2 DEF EchoedIn
<1>5. \A m \in past[u].given : LineKnown(log[m])
  BY <1>1 DEF RefsInv
<1> QED BY <1>1, <1>3, <1>4, <1>5, PromptsKnown

\* A step that leaves the messages of the user, and what is known of them, as they are.
LEMMA TellsKept ==
  ASSUME TypeOK, RefsInv, Grows, NEW u \in Windows, Tells(u), Sound(u)' => Sound(u),
         KeepsUsers(win[u].msgs, win'[u].msgs), past'[u].given = past[u].given,
         past'[u].typed = past[u].typed, past'[u].taken = past[u].taken
  PROVE  Tells(u)'
<1> SUFFICES ASSUME Sound(u)'
             PROVE  Shows(prompts', win'[u].msgs, Known(u)', EchoedIn(past[u].given)', past'[u].taken)
  BY DEF Tells
<1> DEFINE K == Known(u)
           E == EchoedIn(past[u].given)
           k == past[u].taken
           ms == win[u].msgs
           ns == win'[u].msgs
<1>1. Known(u)' = K /\ EchoedIn(past[u].given)' = E /\ K \subseteq DOMAIN prompts /\ E \subseteq DOMAIN prompts
  BY KnownStays DEF Known
<1>2. Shows(prompts, ms, K, E, k)
  BY DEF Tells
<1> HIDE DEF K, E, k, ms, ns
<1>3. Shows(prompts, ns, K, E, k)
  BY <1>2, ShowsKept DEF ms, ns
<1>4. Shows(prompts', ns, K, E, k)
  BY <1>1, <1>3, ShowsGrows DEF Grows
<1> QED BY <1>1, <1>4 DEF k, ns

LEMMA KeepsItself ==
  ASSUME NEW ms
  PROVE  KeepsUsers(ms, ms)
BY DEF KeepsUsers

PromptInv(u) == Foreign(u) /\ Tells(u)

\* The steps of others, and each step of its own.
LEMMA PromptsStay ==
  ASSUME TypeOK, RefsInv, Grows, NEW u \in Windows, PromptInv(u), Same(u)
  PROVE  PromptInv(u)'
<1>1. Foreign(u)'
  BY ForeignMore DEF Same, PromptInv
<1>2. Sound(u)' => Sound(u)
  BY DEF Same, Sound, Gapped
<1> QED BY <1>1, <1>2, TellsKept, KeepsItself DEF Same, PromptInv

LEMMA PromptsHear ==
  ASSUME TypeOK, RefsInv, Grows, NEW u \in Windows, PromptInv(u), NEW e \in Events, Hears(u, e),
         e.type # "line" \/ (log'[e.n].type = "in" => prompts'[log'[e.n].n].by # u)
  PROVE  PromptInv(u)'
<1>1. inbox[u] \in Seq(Events) /\ past[u].lossy \in BOOLEAN
  BY ViewIs, HistoryIs
<1>2. /\ \A j \in DOMAIN inbox[u] : inbox'[u][j] = inbox[u][j]
      /\ \A j \in DOMAIN inbox'[u] : j \in DOMAIN inbox[u] \/ inbox'[u][j] = e
      /\ inbox[u] # <<>> => inbox'[u] # <<>> /\ Head(inbox'[u]) = Head(inbox[u])
  <2>1. inbox'[u] = Append(inbox[u], e)
    BY DEF Hears
  <2> DEFINE q == inbox[u]
             r == inbox'[u]
  <2>2. q \in Seq(Events) /\ r = Append(q, e)
    BY <1>1, <2>1
  <2> HIDE DEF q, r
  <2>3. /\ \A j \in DOMAIN q : r[j] = q[j]
        /\ \A j \in DOMAIN r : j \in DOMAIN q \/ r[j] = e
    BY <2>2, Appended
  <2>4. q # <<>> => r # <<>> /\ Head(r) = Head(q)
    BY <2>2
  <2> QED BY <2>3, <2>4 DEF q, r
<1>3. Foreign(u)'
  BY <1>2, ForeignMore DEF PromptInv
<1>4. Sound(u)' => Sound(u)
  <2>1. Sound(u)' => ~past[u].lossy /\ past'[u] = past[u]
    BY <1>1 DEF Hears, Sound
  <2>2. Gapped(u) => Gapped(u)'
    BY <1>2 DEF Gapped
  <2> QED BY <2>1, <2>2 DEF Sound
<1>5. /\ win'[u] = win[u] /\ past'[u].given = past[u].given /\ past'[u].typed = past[u].typed
      /\ past'[u].taken = past[u].taken
  BY DEF Hears, SameHistory
<1> QED BY <1>3, <1>4, <1>5, TellsKept, KeepsItself DEF PromptInv

\* The steps of a join.
LEMMA PromptsJoin ==
  ASSUME TypeOK, RefsInv, Grows, NEW u \in Windows, PromptInv(u), Join(u) \/ AskEcho(u) \/ Read(u)
  PROVE  PromptInv(u)'
<1>1. inbox' = inbox /\ past' = past
  BY DEF Join, AskEcho, Read
<1>2. win'[u].msgs = win[u].msgs
  <2>1. win[u] \in Views /\ DOMAIN win = Windows
    BY ViewIs
  <2> QED BY <2>1 DEF Join, AskEcho, Read, Views
<1>3. Foreign(u)'
  BY <1>1, ForeignMore DEF PromptInv
<1>4. Sound(u)' => Sound(u)
  BY <1>1 DEF Sound, Gapped
<1> QED BY <1>1, <1>2, <1>3, <1>4, TellsKept, KeepsItself DEF PromptInv

LEMMA PromptsDeliver ==
  ASSUME TypeOK, RefsInv, RoundsInv, Grows, NEW u \in Windows, PromptInv(u), Deliver(u)
  PROVE  PromptInv(u)'
<1>1. /\ call[u].phase = "rows" /\ (Continues(u) \/ Registers(u)) /\ win' = win
      /\ inbox[u] \in Seq(Events) /\ DOMAIN inbox = Windows /\ past[u] \in Histories /\ DOMAIN past = Windows
      /\ Batch(call[u]) \in Events /\ Batch(call[u]).type = "history"
      /\ Joined \in Events /\ Joined.type = "joined"
  BY DeliverIs, ViewIs, BatchType
<1>2. /\ past'[u].given = past[u].given /\ past'[u].typed = past[u].typed /\ past'[u].taken = past[u].taken
      /\ past'[u].disturbed = past[u].disturbed
  BY <1>1 DEF Continues, Registers, Histories
<1>3. ~Gapped(u)
  BY <1>1 DEF RoundsInv, RoundsOf
<1>4. \A j \in DOMAIN inbox'[u] : inbox'[u][j].type # "line" \/ \E i \in DOMAIN inbox[u] : inbox'[u][j] = inbox[u][i]
  <2> DEFINE b == Batch(call[u])
             q == inbox[u]
  <2>1. q \in Seq(Events) /\ b \in Events /\ b.type = "history"
    BY <1>1
  <2>2. \/ inbox'[u] = Append(q, b) \/ inbox'[u] = Append(q, Joined)
        \/ inbox'[u] = Append(Append(q, b), Joined)
    BY <1>1 DEF Continues, Registers
  <2> HIDE DEF b, q
  <2>3. ASSUME NEW s \in Seq(Events), NEW e \in Events, NEW j \in DOMAIN Append(s, e)
        PROVE  Append(s, e)[j] = e \/ \E i \in DOMAIN s : Append(s, e)[j] = s[i]
    BY Appended
  <2>4. Append(q, b) \in Seq(Events)
    BY <2>1, Appended
  <2>5. CASE inbox'[u] = Append(q, b)
    BY <2>1, <2>3, <2>5 DEF q
  <2>6. CASE inbox'[u] = Append(q, Joined)
    BY <1>1, <2>1, <2>3, <2>6 DEF q
  <2>7. CASE inbox'[u] = Append(Append(q, b), Joined)
    <3>1. ASSUME NEW j \in DOMAIN inbox'[u]
          PROVE  inbox'[u][j].type # "line" \/ \E i \in DOMAIN q : inbox'[u][j] = q[i]
      <4>1. inbox'[u][j] = Joined \/ \E i \in DOMAIN Append(q, b) : inbox'[u][j] = Append(q, b)[i]
        BY <1>1, <2>3, <2>4, <2>7
      <4>2. \A i \in DOMAIN Append(q, b) : Append(q, b)[i] = b \/ \E k \in DOMAIN q : Append(q, b)[i] = q[k]
        BY <2>1, <2>3
      <4> QED BY <1>1, <2>1, <4>1, <4>2
    <3> QED BY <3>1 DEF q
  <2> QED BY <2>2, <2>5, <2>6, <2>7
<1>5. Foreign(u)'
  BY <1>4, ForeignMore DEF PromptInv
<1>6. Sound(u)' => Sound(u)
  BY <1>2, <1>3 DEF Sound
<1> QED BY <1>1, <1>2, <1>5, <1>6, TellsKept, KeepsItself DEF PromptInv

LEMMA ForeignTaken ==
  ASSUME TypeOK, RefsInv, Grows, NEW u \in Windows, Foreign(u), NEW e, Received(u, e)
  PROVE  Foreign(u)'
<1>1. \A i \in DOMAIN inbox'[u] : i + 1 \in DOMAIN inbox[u] /\ inbox'[u][i] = inbox[u][i + 1]
  BY TakenEvent
<1> QED BY <1>1, ForeignMore

\* What a window has when it takes an event, which is not a refresh, and stays sound.
LEMMA PromptsReceive ==
  ASSUME MeetInv, TypeOK', NEW u \in Windows, PromptInv(u), NEW e, Received(u, e),
         \/ ReceiveStream(u, e) \/ ReceiveLine(u, e) \/ ReceiveHistory(u, e) \/ ReceiveJoined(u, e)
  PROVE  Tells(u)'
<1>1. TypeOK /\ RefsInv /\ RoundsInv /\ WinInv(u) /\ RefsOf(u) /\ RoundsOf(u) /\ Unique /\ EchoAfterIn
  BY DEF MeetInv, TypeInv, RefsInv, RoundsInv, WinsInv, LogInv
<1>2. /\ log' = log /\ prompts' = prompts /\ Grows
  BY DEF Received, Grows
<1>3. /\ win[u] \in Views /\ past[u] \in Histories /\ DOMAIN win = Windows /\ DOMAIN past = Windows
      /\ e \in Events /\ e = inbox[u][1] /\ 1 \in DOMAIN inbox[u] /\ win \in [Windows -> Views] /\ PromptsType
      /\ log \in Seq(Lines) /\ (\A n \in DOMAIN log : LineKnown(log[n])) /\ past[u].taken \in BOOLEAN
      /\ past[u].typed \subseteq DOMAIN prompts /\ past[u].given \subseteq DOMAIN log
      /\ LinesOf(e) \subseteq DOMAIN log /\ \A p \in past[u].typed : prompts[p].by = u
  BY <1>1, ViewIs, HistoryIs, TakenEvent, TypeParts, BoundsGivePrompts DEF WindowType, LogType, RefsInv, RefsOf
<1>4. Sound(u)' => Sound(u) /\ Orderly(u)
  BY <1>1, ReceiptIs, WinReceived
<1>5. past'[u].typed = past[u].typed
  BY <1>1, ReceiptIs
<1>6. SUFFICES ASSUME Sound(u)'
               PROVE  Shows(prompts', win'[u].msgs, Known(u)', EchoedIn(past[u].given)', past'[u].taken)
  BY DEF Tells
<1>7. Sound(u) /\ Orderly(u)
  BY <1>4, <1>6
<1> DEFINE v == win[u]
           G == past[u].given
           T == past[u].typed
           k == past[u].taken
<1>8. Shows(prompts, v.msgs, T \cup PromptsOf(G), EchoedIn(G), k)
  BY <1>7 DEF PromptInv, Tells, Known
<1>9. \A n \in LinesOf(e) : \A m \in G : m < n
  BY <1>3, <1>7 DEF Orderly, Placed, Ordered
<1>10. CASE ReceiveStream(u, e)
  <2>1. e \in StreamEvents
    BY <1>3, <1>10, EventKinds DEF ReceiveStream
  <2>2. win'[u] = Streamed(v, e) /\ KeepsUsers(v.msgs, Streamed(v, e).msgs)
    BY <1>3, <1>10, <2>1, StreamedReduces DEF ReceiveStream
  <2>3. past'[u].given = G /\ past'[u].taken = k
    BY <1>3, <1>10 DEF ReceiveStream, Histories
  <2>4. Tells(u)'
    BY <1>1, <1>2, <1>5, <1>7, <2>2, <2>3, TellsKept DEF PromptInv
  <2> QED BY <1>6, <2>4 DEF Tells
<1>11. CASE ReceiveJoined(u, e)
  <2>1. win'[u].msgs = v.msgs
    BY <1>3, <1>11 DEF ReceiveJoined, Views
  <2>2. past'[u].given = G /\ past'[u].taken = k
    BY <1>3, <1>11 DEF ReceiveJoined, Histories
  <2>3. KeepsUsers(win[u].msgs, win'[u].msgs)
    BY <2>1 DEF KeepsUsers
  <2>4. Tells(u)'
    BY <1>1, <1>2, <1>5, <1>7, <2>2, <2>3, TellsKept DEF PromptInv
  <2> QED BY <1>6, <2>4 DEF Tells
<1>12. CASE ReceiveLine(u, e)
  <2> DEFINE n == e.n
             line == log[n]
  <2>1. LinesOf(e) = {n} /\ n \in DOMAIN log /\ \A m \in G : m < n
    BY <1>3, <1>9, <1>12 DEF ReceiveLine, LinesOf
  <2>2. line.type = "in" => line.n \notin T
    <3>1. e.type = "line"
      BY <1>12 DEF ReceiveLine
    <3>2. line.type = "in" => prompts[line.n].by # u
      BY <1>3, <3>1 DEF PromptInv, Foreign
    <3> QED BY <1>3, <3>2
  <2>3. Shows(prompts, Reduced(v, log[n]).msgs, T \cup PromptsOf(G \cup {n}), EchoedIn(G \cup {n}),
              k \/ Taking(v.msgs, T \cup PromptsOf(G), log[n]))
    <3> HIDE DEF v, G, T, k, n
    <3>1. v \in Views /\ G \subseteq DOMAIN log /\ T \subseteq DOMAIN prompts /\ k \in BOOLEAN
      BY <1>3 DEF v, G, T, k
    <3> QED BY <1>1, <1>3, <1>8, <2>1, <2>2, <3>1, ShowsLine
  <2>4. /\ win' = [win EXCEPT ![u] = Reduced(v, log[n])]
        /\ past' = [past EXCEPT ![u].given = @ \cup {n}, ![u].taken = @ \/ Takes(u, log[n])]
    BY <1>12 DEF ReceiveLine
  <2>5. win'[u] = Reduced(v, log[n])
    BY <1>3, <2>4
  <2>6. past'[u].given = G \cup {n} /\ past'[u].taken = (k \/ Takes(u, log[n]))
    BY <1>3, <2>4 DEF Histories
  <2>7. Takes(u, log[n]) = Taking(v.msgs, T \cup PromptsOf(G), log[n])
    BY DEF Takes, Taking, Known
  <2>8. EchoedIn(past[u].given)' = EchoedIn(G \cup {n})
    BY <1>2, <2>6 DEF EchoedIn
  <2>9. Known(u)' = T \cup PromptsOf(G \cup {n})
    BY <1>2, <1>5, <2>6 DEF Known, PromptsOf
  <2> HIDE DEF v, G, T, k, n
  <2> QED BY <1>2, <2>3, <2>5, <2>6, <2>7, <2>8, <2>9
<1>13. CASE ReceiveHistory(u, e)
  <2> DEFINE R == Applied(win[u], e)
             y == Replayed(win[u], R)
  <2>1. /\ e.type = "history"
        /\ win' = [win EXCEPT ![u] = [y EXCEPT !.replay = ReplayOf(win[u], e)]]
        /\ past' = [past EXCEPT ![u].given = @ \cup R]
    BY <1>3, <1>13, ReceiveHistoryIs
  <2>2. y \in Views
    BY <1>3, ReplayedReduces DEF Reduces
  <2>3. win'[u].msgs = y.msgs /\ past'[u].given = G \cup R /\ past'[u].taken = k
    <3> HIDE DEF y, R
    <3> QED BY <1>3, <2>1, <2>2 DEF Views, Histories
  <2>4. R \subseteq LinesOf(e) /\ R \subseteq DOMAIN log /\ (R # {} => R = LinesOf(e))
    BY <1>3, <2>1 DEF Applied, LinesOf
  <2>5. T = {}
    BY <1>3, <1>7, <2>1 DEF Orderly, Prepared
  <2>6. Active(inbox[u], call[u])
    BY <1>3, <2>1 DEF Active
  <2>7. PICK h \in 0..Len(log), x \in BOOLEAN : \A n : Old(inbox[u], G, n) <=> Upon(n, h, x)
    BY <1>7, <2>6 DEF Orderly, Prefix
  <2>8. \A n \in G \cup R : Upon(n, h, x)
    BY <1>3, <2>1, <2>4, <2>7 DEF Old
  <2>9. ASSUME NEW n \in R, NEW m, Upon(m, h, x), m < n PROVE m \in G \cup R
    <3>1. m \in G \/ \E i \in DOMAIN inbox[u] : m \in LinesOf(inbox[u][i])
      BY <2>7, <2>9 DEF Old
    <3>2. ASSUME NEW i \in DOMAIN inbox[u], m \in LinesOf(inbox[u][i]) PROVE m \in R
      <4>1. CASE i = 1
        BY <1>3, <2>4, <2>9, <3>2, <4>1
      <4>2. CASE i # 1
        <5>1. 1 < i
          <6>1. inbox[u] \in Seq(Events)
            BY <1>1, ViewIs
          <6> QED BY <4>2, <6>1
        <5>2. \A l \in LinesOf(e) : l < m
          BY <1>3, <1>7, <3>2, <5>1 DEF Orderly, Placed, Ordered
        <5>3. n < m /\ n \in DOMAIN log /\ m \in DOMAIN log
          BY <1>1, <2>4, <2>9, <3>2, <5>2 DEF RefsOf
        <5>4. n \in Nat /\ m \in Nat
          BY <1>3, <5>3
        <5> QED BY <2>9, <5>3, <5>4
      <4> QED BY <4>1, <4>2
    <3> QED BY <3>1, <3>2
  <2>10. Shows(prompts, y.msgs, PromptsOf(G \cup R), EchoedIn(G \cup R), k)
    <3>1. Shows(prompts, v.msgs, PromptsOf(G), EchoedIn(G), k)
      <4>1. (T \cup PromptsOf(G)) = PromptsOf(G)
        BY <2>5
      <4> HIDE DEF T, G, v, k
      <4> QED BY <1>8, <4>1
    <3>2. \A m \in G, n \in R : m < n
      BY <1>9, <2>4
    <3>3. v \in Views /\ G \subseteq DOMAIN log /\ k \in BOOLEAN
      BY <1>3
    <3>4. \A n \in R : \A m : Upon(m, h, x) /\ m < n => m \in G \cup R
      BY <2>9
    <3>5. y = Replayed(v, R)
      OBVIOUS
    <3> HIDE DEF v, G, T, k, R, y
    <3> QED BY <1>1, <1>3, <2>4, <2>8, <3>1, <3>2, <3>3, <3>4, <3>5, ShowsReplayed
  <2>11. EchoedIn(past[u].given)' = EchoedIn(G \cup R)
    <3> HIDE DEF R
    <3> QED BY <1>2, <2>3 DEF EchoedIn
  <2>12. Known(u)' = PromptsOf(G \cup R)
    <3>1. past'[u].typed = {}
      BY <1>5, <2>5
    <3> HIDE DEF R
    <3> QED BY <1>2, <2>3, <3>1 DEF Known, PromptsOf
  <2> HIDE DEF v, G, T, k, R, y
  <2> QED BY <1>2, <2>3, <2>10, <2>11, <2>12
<1> QED BY <1>10, <1>11, <1>12, <1>13

\* A window that was just opened, or is to be refreshed.
LEMMA ShowsNothing ==
  ASSUME NEW P, NEW k
  PROVE  Shows(P, <<>>, {}, {}, k)
<1>1. Cardinality({}) = 0
  BY FS_EmptySet
<1>2. Counts({}, {}, k)
  BY <1>1 DEF Counts
<1>3. \A t : Found(<<>>, t, 0) = {} /\ Waiting(P, {}, {}, t) = {}
  BY DEF Found, Waiting
<1>4. \A t \in Texts : Counts(Found(<<>>, t, 0), Waiting(P, {}, {}, t), k)
  BY <1>2, <1>3
<1>5. DOMAIN <<>> = {}
  OBVIOUS
<1> QED BY <1>4, <1>5 DEF Shows

LEMMA PromptsRefresh ==
  ASSUME MeetInv, TypeOK', NEW u \in Windows, PromptInv(u), NEW e, Received(u, e), ReceiveRefresh(u, e)
  PROVE  Tells(u)'
<1>1. win'[u].msgs = <<>> /\ past'[u].given = {} /\ past'[u].typed = {}
  BY WinRefresh DEF MeetInv, TypeInv, RefsInv, RoundsInv, WinsInv
<1>2. Known(u)' = {} /\ EchoedIn(past[u].given)' = {}
  BY <1>1 DEF Known, PromptsOf, EchoedIn
<1>3. Shows(prompts', <<>>, {}, {}, past'[u].taken)
  BY ShowsNothing
<1> QED BY <1>1, <1>2, <1>3 DEF Tells

LEMMA PromptsTyped ==
  ASSUME MeetInv, TypeOK', Grows, NEW u \in Windows, PromptInv(u), NEW t \in Texts, Type(u, t)
  PROVE  PromptInv(u)'
<1> DEFINE p == Len(prompts) + 1
           ms == win[u].msgs
           K == Known(u)
           E == EchoedIn(past[u].given)
           k == past[u].taken
<1>1. TypeOK /\ RefsInv /\ RoundsInv /\ RefsOf(u) /\ RoundsOf(u) /\ WinInv(u)
  BY DEF MeetInv, TypeInv, RefsInv, RoundsInv, WinsInv
<1>2. /\ win' = [win EXCEPT ![u].msgs = Append(@, UserMessage(t, 0))]
      /\ past' = [past EXCEPT ![u].typed = @ \cup {p}, ![u].disturbed = past[u].lossy]
      /\ inbox' = inbox
  BY DEF Type
<1>3. /\ win[u] \in Views /\ DOMAIN win = Windows /\ past[u] \in Histories /\ DOMAIN past = Windows
      /\ ms \in Seq(Messages)
  BY <1>1, ViewIs
<1>4. /\ win'[u].msgs = Append(ms, UserMessage(t, 0)) /\ past'[u].given = past[u].given
      /\ past'[u].typed = past[u].typed \cup {p} /\ past'[u].taken = k
  BY <1>2, <1>3 DEF Views, Histories
<1>5. Foreign(u)'
  BY <1>1, <1>2, ForeignMore DEF PromptInv
<1>6. Sound(u)' => Sound(u)
  BY <1>1, WinType
<1>7. SUFFICES ASSUME Sound(u)'
               PROVE  Shows(prompts', win'[u].msgs, Known(u)', EchoedIn(past[u].given)', past'[u].taken)
  BY <1>5 DEF Tells, PromptInv
<1>8. Shows(prompts, ms, K, E, k)
  BY <1>6, <1>7 DEF PromptInv, Tells
<1>9. /\ PromptsOf(past[u].given)' = PromptsOf(past[u].given)
      /\ EchoedIn(past[u].given)' = E
      /\ K \subseteq DOMAIN prompts /\ E \subseteq DOMAIN prompts
  BY <1>1, <1>4, KnownStays DEF Known
<1>10. Known(u)' = K \cup {p}
  BY <1>4, <1>9 DEF Known
<1>11. p \notin DOMAIN prompts /\ prompts'[p].text = t /\ Len(prompts) \in Nat /\ DOMAIN prompts = 1..Len(prompts)
       /\ p \in Nat
  <2>1. PromptsType
    BY <1>1, TypeParts, BoundsGivePrompts
  <2>2. Len(prompts) \in Nat /\ DOMAIN prompts = 1..Len(prompts)
    BY <2>1 DEF PromptsType
  <2> QED BY <1>1, <2>2, PromptsGrow
<1> HIDE DEF p, K, E, k, ms
<1>12. Shows(prompts', ms, K, E, k)
  BY <1>8, <1>9, ShowsGrows DEF Grows
<1>13. p \notin K /\ p \notin E /\ 0 \notin E /\ K \subseteq 1..Len(prompts)
  BY <1>9, <1>11
<1>14. Shows(prompts', Append(ms, UserMessage(prompts'[p].text, 0)), K \cup {p}, E, k)
  BY <1>3, <1>11, <1>12, <1>13, ShowsNew
<1> QED BY <1>4, <1>9, <1>10, <1>11, <1>14

LEMMA PromptsGap ==
  ASSUME MeetInv, TypeOK', Grows, NEW u \in Windows, PromptInv(u), Gap(u)
  PROVE  PromptInv(u)'
<1>1. TypeOK /\ RefsInv /\ WinInv(u)
  BY DEF MeetInv, TypeInv, WinsInv
<1>2. ~(Sound(u)')
  BY <1>1, WinGap
<1>3. inbox'[u] = <<[type |-> "refresh"]>>
  <2>1. DOMAIN inbox = Windows
    BY <1>1, ViewIs
  <2> QED BY <2>1 DEF Gap
<1>4. \A i \in DOMAIN inbox'[u] : inbox'[u][i].type # "line"
  BY <1>3
<1> QED BY <1>1, <1>2, <1>4, ForeignMore DEF PromptInv, Tells

LEMMA PromptsOwn ==
  ASSUME MeetInv, TypeOK', Grows, NEW u \in Windows, PromptInv(u), Own(u)
  PROVE  PromptInv(u)'
<1>1. TypeOK /\ RefsInv /\ RoundsInv
  BY DEF MeetInv, TypeInv
<1>2. CASE Receive(u)
  <2> DEFINE e == Head(inbox[u])
  <2>1. /\ Received(u, e)
        /\ \/ ReceiveStream(u, e) \/ ReceiveLine(u, e) \/ ReceiveHistory(u, e)
           \/ ReceiveJoined(u, e) \/ ReceiveRefresh(u, e)
    BY <1>2, ReceiveIs
  <2> HIDE DEF e
  <2> QED BY <1>1, <2>1, ForeignTaken, PromptsReceive, PromptsRefresh DEF PromptInv
<1> QED BY <1>1, <1>2, PromptsJoin, PromptsDeliver, PromptsTyped, PromptsGap DEF Own

\* Every step keeps the account of the prompts.
LEMMA PromptInvNext ==
  ASSUME MeetInv, TypeOK', NEW u \in Windows, PromptInv(u), [Next]_vars
  PROVE  PromptInv(u)'
<1>1. TypeOK /\ RefsInv /\ RoundsInv /\ Grows
  BY GrowsNext DEF MeetInv, TypeInv
<1>2. CASE Same(u)
  BY <1>1, <1>2, PromptsStay
<1>3. ASSUME NEW e \in StreamEvents, SpokenTo(u, members, e) PROVE PromptInv(u)'
  <2>1. e \in Events /\ e.type # "line"
    BY <1>1, LinesOfSent, StreamEventIs
  <2> QED BY <1>1, <1>3, <2>1, PromptsStay, PromptsHear DEF SpokenTo
<1>4. ASSUME NEW line \in Lines, log' = Append(log, line), prompts' = prompts, NEW ws,
             SpokenTo(u, ws, TheLine(Len(log) + 1)), u \in ws /\ line.type = "in" => prompts[line.n].by # u
      PROVE  PromptInv(u)'
  <2> DEFINE e == TheLine(Len(log) + 1)
  <2>1. e \in Events /\ log'[e.n] = line
    BY <1>1, <1>4, LinesOfSent, LogGrows DEF TheLine
  <2> HIDE DEF e
  <2>2. SpokenTo(u, ws, e)
    BY <1>4 DEF e
  <2>3. CASE u \in ws
    BY <1>1, <1>4, <2>1, <2>2, <2>3, PromptsHear DEF SpokenTo
  <2>4. CASE u \notin ws
    BY <1>1, <2>2, <2>4, PromptsStay DEF SpokenTo
  <2> QED BY <2>3, <2>4
<1>5. ASSUME NEW line \in Lines, SpeakLine(line), SpokenTo(u, members, TheLine(Len(log) + 1))
      PROVE  PromptInv(u)'
  BY <1>4, <1>5 DEF SpeakLine
<1>6. ASSUME NEW w \in Windows, HandleSend(w), SpokenTo(u, Others(w), TheLine(Len(log) + 1))
      PROVE  PromptInv(u)'
  <2> DEFINE p == Head(up[w])
  <2>1. /\ up[w] # <<>> /\ Line("in", p, "") \in Lines /\ Line("in", p, "").n = p
        /\ log' = Append(log, Line("in", p, "")) /\ prompts' = prompts
    BY <1>1, <1>6, HandleSendIs
  <2>2. prompts[p].by = w
    BY <1>1, <2>1, HeadKnown
  <2>3. u \in Others(w) => u # w
    BY DEF Others
  <2> HIDE DEF p
  <2> QED BY <1>4, <1>6, <2>1, <2>2, <2>3
<1>7. CASE Own(u)
  BY <1>1, <1>7, PromptsOwn
<1> QED BY <1>1, <1>2, <1>3, <1>5, <1>6, <1>7, Steps

-----------------------------------------------------------------------------

PromptsInv == MeetInv /\ \A w \in Windows : PromptInv(w)

LEMMA PromptsInit == Init => \A w \in Windows : PromptInv(w)
<1> SUFFICES ASSUME Init, NEW w \in Windows PROVE PromptInv(w)
  OBVIOUS
<1>1. inbox[w] = <<>> /\ win[w].msgs = <<>> /\ past[w].typed = {} /\ past[w].given = {}
  BY DEF Init
<1>2. Known(w) = {} /\ EchoedIn(past[w].given) = {}
  BY <1>1 DEF Known, PromptsOf, EchoedIn
<1>3. Shows(prompts, <<>>, {}, {}, past[w].taken)
  BY ShowsNothing
<1>4. Foreign(w)
  BY <1>1 DEF Foreign
<1>5. Tells(w)
  BY <1>1, <1>2, <1>3 DEF Tells
<1> QED BY <1>4, <1>5 DEF PromptInv

\* And the account of the prompts.
LEMMA PromptsInvariant == Spec => []PromptsInv
<1>1. Init => PromptsInv
  BY TypeInvInit, LogInvInit, WinsInit, PromptsInit DEF PromptsInv, MeetInv
<1>2. ASSUME PromptsInv, [Next]_vars PROVE PromptsInv'
  <2>1. MeetInv'
    BY <1>2, MeetInvNext DEF PromptsInv
  <2>2. TypeOK'
    BY <2>1 DEF MeetInv, TypeInv
  <2> QED BY <1>2, <2>1, <2>2, PromptInvNext DEF PromptsInv
<1> QED BY <1>1, <1>2, PTL DEF Spec

\* The invariant implies the property.
LEMMA PromptsShown ==
  ASSUME PromptsInv
  PROVE  EachPromptOnce
<1> SUFFICES ASSUME NEW w \in Windows, ~past[w].lossy
             PROVE  /\ \A p \in EchoedIn(past[w].given) :
                         Cardinality(Showing(w, prompts[p].text, p)) = 1
                    /\ \A t \in Texts :
                         /\ Cardinality(Showing(w, t, 0)) <= Cardinality(Unechoed(w, t))
                         /\ past[w].taken \/ Cardinality(Showing(w, t, 0)) = Cardinality(Unechoed(w, t))
                    /\ \A i \in DOMAIN win[w].msgs :
                         win[w].msgs[i].type = "user" =>
                           win[w].msgs[i].uuid \in {0} \cup EchoedIn(past[w].given)
  BY DEF EachPromptOnce
<1>1. Sound(w)
  BY DEF PromptsInv, MeetInv, WinsInv, WinInv, Sound
<1>2. Shows(prompts, win[w].msgs, Known(w), EchoedIn(past[w].given), past[w].taken)
  BY <1>1 DEF PromptsInv, PromptInv, Tells
<1>3. \A t, x : Showing(w, t, x) = Found(win[w].msgs, t, x)
  BY DEF Showing, Found
<1>4. \A t : Unechoed(w, t) = Waiting(prompts, Known(w), EchoedIn(past[w].given), t)
  BY DEF Unechoed, Waiting
<1> QED BY <1>2, <1>3, <1>4 DEF Shows, Counts

\* A window shows each prompt once: under the uuid of the echo it was given, or as often as
\* it knows unechoed prompts of the text; fewer only after an echo was taken for another.
THEOREM PromptsShownOnce == Spec => []EachPromptOnce
<1> QED BY PromptsShown, PromptsInvariant, PTL

-----------------------------------------------------------------------------
(* What is shown, and what was said *)

\* What a message shows, and a line says: the pieces of blocks, and notes.
Items == Seq(Nat \X Nat) \cup ({"tool_result", "result"} \X Nat)

\* What messages show, message by message and on the whole.
ShownIn(ms) == [i \in DOMAIN ms |-> Shown(ms[i])]
Flat(ms) == FlattenSeq(ShownIn(ms))

\* Told, of a log.
Said(line) == line.type \notin {"in", "echo"}
\* What is said in a set of lines, line by line and on the whole.
Saying(L, G) == [n \in DOMAIN L |-> IF n \in G /\ Said(L[n]) THEN <<Says(L[n])>> ELSE <<>>]
ToldOf(L, G) == FlattenSeq(Saying(L, G))

\* Told, for the log as it is.
LEMMA ToldIs == \A G : Told(G) = ToldOf(log, G)
BY DEF Told, ToldOf, Saying, Said

\* The types of what is shown and said.
LEMMA PiecesOf ==
  ASSUME NEW x \in Blocks
  PROVE  x.pieces \in Seq(Nat \X Nat) /\ x.pieces \in Items /\ x.id \in Nat /\ x.kind \in {"text", "tool", ""}
BY DEF Blocks, Items

LEMMA SaysType ==
  ASSUME NEW line \in Lines, Said(line)
  PROVE  Says(line) \in Items
<1>1. line.n \in Nat /\ line.type \in {"said", "tool_result", "result"}
  BY LineIs DEF Said
<1>2. CASE line.type = "said"
  BY <1>1, <1>2, WholeType DEF Says, Items
<1>3. CASE line.type # "said"
  <2>1. Says(line) = <<line.type, line.n>>
    BY <1>3 DEF Says
  <2> QED BY <1>1, <1>3, <2>1 DEF Items
<1> QED BY <1>2, <1>3

LEMMA ShownType ==
  ASSUME NEW m \in Messages
  PROVE  /\ Shown(m) \in Seq(Items)
         /\ m.type = "user" => Shown(m) = <<>>
         /\ m.type = "turn" => Shown(m) = [i \in DOMAIN m.blocks |-> m.blocks[i].pieces]
         /\ m.type \notin {"user", "turn"} => Shown(m) = <<<<m.type, m.n>>>>
<1>1. m.type \in {"user", "turn", "tool_result", "result"}
  BY MessageKinds
<1>2. CASE m.type = "user"
  BY <1>2 DEF Shown
<1>3. CASE m.type = "turn"
  <2> DEFINE bs == m.blocks
  <2>1. bs \in Seq(Blocks)
    BY <1>3, MessageKinds
  <2>2. Shown(m) = [i \in DOMAIN bs |-> bs[i].pieces]
    BY <1>3 DEF Shown
  <2> HIDE DEF bs
  <2>3. \A i \in DOMAIN bs : bs[i] \in Blocks
    BY <2>1
  <2>6. \A i \in DOMAIN bs : bs[i].pieces \in Items
    BY <2>3, PiecesOf
  <2>4. DOMAIN bs = 1..Len(bs) /\ Len(bs) \in Nat
    BY <2>1
  <2>5. [i \in DOMAIN bs |-> bs[i].pieces] \in Seq(Items)
    BY <2>4, <2>6
  <2> QED BY <1>3, <2>2, <2>5 DEF bs
<1>4. CASE m.type \notin {"user", "turn"}
  <2> DEFINE x == <<m.type, m.n>>
  <2>1. Shown(m) = <<x>>
    BY <1>4 DEF Shown
  <2>2. m.n \in Nat /\ m.type \in {"tool_result", "result"}
    BY <1>1, <1>4, MessageKinds
  <2>3. x \in Items
    BY <2>2 DEF Items
  <2> HIDE DEF x
  <2>4. <<x>> \in Seq(Items)
    BY <2>3, Single
  <2> QED BY <1>4, <2>1, <2>4 DEF x
<1> QED BY <1>2, <1>3, <1>4

LEMMA ShownInType ==
  ASSUME NEW ms \in Seq(Messages)
  PROVE  /\ ShownIn(ms) \in Seq(Seq(Items)) /\ Len(ShownIn(ms)) = Len(ms)
         /\ DOMAIN ShownIn(ms) = DOMAIN ms /\ DOMAIN ms = 1..Len(ms)
         /\ \A i \in DOMAIN ms : ms[i] \in Messages /\ ShownIn(ms)[i] = Shown(ms[i])
<1>1. DOMAIN ms = 1..Len(ms) /\ Len(ms) \in Nat /\ \A i \in DOMAIN ms : ms[i] \in Messages
  OBVIOUS
<1>2. \A i \in DOMAIN ms : Shown(ms[i]) \in Seq(Items)
  BY <1>1, ShownType
<1>3. ShownIn(ms) = [i \in 1..Len(ms) |-> Shown(ms[i])]
  BY <1>1 DEF ShownIn
<1>4. ShownIn(ms) \in Seq(Seq(Items))
  BY <1>1, <1>2, <1>3
<1> QED BY <1>1, <1>3, <1>4

LEMMA SayingType ==
  ASSUME NEW L \in Seq(Lines), NEW G
  PROVE  /\ Saying(L, G) \in Seq(Seq(Items)) /\ Len(Saying(L, G)) = Len(L)
         /\ DOMAIN Saying(L, G) = DOMAIN L /\ DOMAIN L = 1..Len(L)
         /\ \A n \in DOMAIN L :
              Saying(L, G)[n] = IF n \in G /\ Said(L[n]) THEN <<Says(L[n])>> ELSE <<>>
<1>1. DOMAIN L = 1..Len(L) /\ Len(L) \in Nat /\ \A n \in DOMAIN L : L[n] \in Lines
  OBVIOUS
<1>2. ASSUME NEW n \in DOMAIN L
      PROVE  (IF n \in G /\ Said(L[n]) THEN <<Says(L[n])>> ELSE <<>>) \in Seq(Items)
  <2>1. CASE Said(L[n])
    <3> DEFINE x == Says(L[n])
    <3>1. x \in Items
      BY <1>1, <2>1, SaysType
    <3> HIDE DEF x
    <3>2. <<x>> \in Seq(Items)
      BY <3>1, Single
    <3> QED BY <3>2 DEF x
  <2>2. CASE ~Said(L[n])
    BY <2>2
  <2> QED BY <2>1, <2>2
<1>3. Saying(L, G) = [n \in 1..Len(L) |-> IF n \in G /\ Said(L[n]) THEN <<Says(L[n])>> ELSE <<>>]
  BY <1>1 DEF Saying
<1>4. Saying(L, G) \in Seq(Seq(Items))
  BY <1>1, <1>2, <1>3
<1> QED BY <1>1, <1>3, <1>4

\* A message more shows what it shows; one that shows the same changes nothing.
LEMMA FlatMore ==
  ASSUME NEW ms \in Seq(Messages), NEW m \in Messages
  PROVE  Flat(Append(ms, m)) = Flat(ms) \o Shown(m) /\ Flat(ms) \in Seq(Items)
<1> DEFINE s == ShownIn(ms)
           x == Shown(m)
           t == ShownIn(Append(ms, m))
<1>1. /\ Append(ms, m) \in Seq(Messages) /\ Len(Append(ms, m)) = Len(ms) + 1
      /\ DOMAIN Append(ms, m) = 1..(Len(ms) + 1) /\ Append(ms, m)[Len(ms) + 1] = m
      /\ \A j \in DOMAIN ms : Append(ms, m)[j] = ms[j] /\ j \in DOMAIN Append(ms, m)
  BY Appended
<1>2. s \in Seq(Seq(Items)) /\ Len(s) = Len(ms) /\ DOMAIN s = DOMAIN ms /\ DOMAIN ms = 1..Len(ms)
      /\ \A i \in DOMAIN ms : s[i] = Shown(ms[i])
  BY ShownInType
<1>3. x \in Seq(Items)
  BY ShownType
<1>4. t \in Seq(Seq(Items)) /\ Len(t) = Len(ms) + 1 /\ \A i \in 1..(Len(ms) + 1) : t[i] = Shown(Append(ms, m)[i])
  BY <1>1, ShownInType
<1>5. t[Len(ms) + 1] = x /\ \A i \in 1..Len(ms) : t[i] = s[i]
  <2>1. Len(ms) \in Nat
    OBVIOUS
  <2>2. t[Len(ms) + 1] = x
    BY <1>1, <1>4, <2>1
  <2>3. ASSUME NEW i \in 1..Len(ms) PROVE t[i] = s[i]
    BY <1>1, <1>2, <1>4, <2>1
  <2> QED BY <2>2, <2>3
<1> HIDE DEF s, x, t
<1>6. /\ Append(s, x) \in Seq(Seq(Items)) /\ Len(Append(s, x)) = Len(s) + 1
      /\ Append(s, x)[Len(s) + 1] = x /\ DOMAIN s = 1..Len(s) /\ Len(s) \in Nat
      /\ \A j \in DOMAIN s : Append(s, x)[j] = s[j]
  BY <1>2, <1>3, Appended
<1>7. \A i \in 1..Len(t) : t[i] = Append(s, x)[i]
  <2> SUFFICES ASSUME NEW i \in 1..Len(t) PROVE t[i] = Append(s, x)[i]
    OBVIOUS
  <2>1. i \in 1..Len(s) \/ i = Len(s) + 1
    BY <1>2, <1>4, <1>6
  <2> QED BY <1>2, <1>5, <1>6, <2>1
<1>8. t = Append(s, x)
  BY <1>2, <1>4, <1>6, <1>7, SeqEqual
<1>9. FlattenSeq(Append(s, x)) = FlattenSeq(s) \o x /\ FlattenSeq(s) \in Seq(Items)
  BY <1>2, <1>3, FlattenAppend, FlattenType
<1> QED BY <1>8, <1>9 DEF Flat, s, t, x

\* What is shown depends on the blocks alone.
LEMMA FlatSame ==
  ASSUME NEW ms, NEW ns, DOMAIN ns = DOMAIN ms, \A i \in DOMAIN ms : Shown(ns[i]) = Shown(ms[i])
  PROVE  Flat(ns) = Flat(ms)
<1>1. ShownIn(ns) = ShownIn(ms)
  BY DEF ShownIn
<1> QED BY <1>1 DEF Flat

\* A message that shows more, before messages that show nothing.
LEMMA FlatLonger ==
  ASSUME NEW ms \in Seq(Messages), NEW ns \in Seq(Messages), Len(ns) = Len(ms), NEW k \in DOMAIN ms,
         \A i \in DOMAIN ms : i # k => ns[i] = ms[i],
         \A i \in DOMAIN ms : i > k => Shown(ms[i]) = <<>>,
         NEW x \in Items, Shown(ns[k]) = Append(Shown(ms[k]), x)
  PROVE  Flat(ns) = Append(Flat(ms), x)
<1> DEFINE s == ShownIn(ms)
           t == ShownIn(ns)
<1>1. s \in Seq(Seq(Items)) /\ Len(s) = Len(ms) /\ DOMAIN ms = 1..Len(ms) /\ \A i \in DOMAIN ms : s[i] = Shown(ms[i])
  BY ShownInType
<1>2. t \in Seq(Seq(Items)) /\ Len(t) = Len(ns) /\ DOMAIN ns = 1..Len(ns) /\ \A i \in DOMAIN ns : t[i] = Shown(ns[i])
  BY ShownInType
<1> HIDE DEF s, t
<1>3. /\ k \in 1..Len(s) /\ Len(s) = Len(t) /\ Len(s) \in Nat /\ s[k] \in Seq(Items)
      /\ s[k] = Shown(ms[k]) /\ t[k] = Append(s[k], x)
  BY <1>1, <1>2
<1>8. \A i \in 1..Len(s) : i # k => s[i] = t[i]
  BY <1>1, <1>2
<1>9. \A i \in 1..Len(s) : i > k => s[i] = <<>>
  BY <1>1, <1>2
<1> DEFINE y == s[k]
           z == <<x>>
<1>4. PICK pre \in Seq(Items) : FlattenSeq(s) = pre \o s[k] /\ FlattenSeq(t) = pre \o t[k]
  <2>1. s \in Seq(Seq(Items)) /\ t \in Seq(Seq(Items)) /\ Len(s) = Len(t) /\ k \in 1..Len(s)
    BY <1>1, <1>2, <1>3
  <2> QED BY ONLY <2>1, <1>8, <1>9, FlattenReplace
<1>5. y \in Seq(Items) /\ t[k] = Append(y, x) /\ z \in Seq(Items) /\ Append(y, x) = y \o z
  BY <1>3
<1>10. \A q \in Seq(Items) : Append(q, x) = q \o z
  OBVIOUS
<1> HIDE DEF z
<1>6. (pre \o y) \o z = pre \o (y \o z) /\ pre \o y \in Seq(Items)
  <2> HIDE DEF y
  <2>1. pre \in Seq(Items) /\ y \in Seq(Items) /\ z \in Seq(Items)
    BY <1>4, <1>5
  <2> QED BY ONLY <2>1, ConcatAssociative, ConcatProperties
<1>7. Append(pre \o y, x) = (pre \o y) \o z
  BY <1>6, <1>10
<1> QED BY <1>4, <1>5, <1>6, <1>7 DEF Flat, s, t

\* Lines the log has yet to get change nothing.
LEMMA ToldGrows ==
  ASSUME NEW L \in Seq(Lines), NEW line \in Lines, NEW G, G \subseteq DOMAIN L
  PROVE  ToldOf(Append(L, line), G) = ToldOf(L, G)
<1> DEFINE s == Saying(L, G)
           M == Append(L, line)
           t == Saying(M, G)
<1>1. /\ M \in Seq(Lines) /\ Len(M) = Len(L) + 1 /\ DOMAIN M = 1..(Len(L) + 1)
      /\ (\A j \in DOMAIN L : M[j] = L[j] /\ j \in DOMAIN M /\ j # Len(L) + 1) /\ DOMAIN L = 1..Len(L) /\ Len(L) \in Nat
  BY Appended
<1> HIDE DEF M
<1>2. s \in Seq(Seq(Items)) /\ Len(s) = Len(L)
      /\ \A n \in DOMAIN L : s[n] = IF n \in G /\ Said(L[n]) THEN <<Says(L[n])>> ELSE <<>>
  BY SayingType
<1>3. t \in Seq(Seq(Items)) /\ Len(t) = Len(M)
      /\ \A n \in DOMAIN M : t[n] = IF n \in G /\ Said(M[n]) THEN <<Says(M[n])>> ELSE <<>>
  BY <1>1, SayingType
<1>4. t[Len(L) + 1] = <<>> /\ \A i \in 1..Len(L) : t[i] = s[i]
  <2>1. Len(L) + 1 \in DOMAIN M /\ Len(L) + 1 \notin G
    BY <1>1
  <2>2. t[Len(L) + 1] = <<>>
    BY <1>3, <2>1
  <2>3. ASSUME NEW i \in 1..Len(L) PROVE t[i] = s[i]
    BY <1>1, <1>2, <1>3
  <2> QED BY <2>2, <2>3
<1> HIDE DEF s, t
<1>5. <<>> \in Seq(Items)
  OBVIOUS
<1>6. /\ Append(s, <<>>) \in Seq(Seq(Items)) /\ Len(Append(s, <<>>)) = Len(s) + 1
      /\ Append(s, <<>>)[Len(s) + 1] = <<>> /\ DOMAIN s = 1..Len(s) /\ Len(s) \in Nat
      /\ \A j \in DOMAIN s : Append(s, <<>>)[j] = s[j]
  BY <1>2, <1>5, Appended
<1>7. \A i \in 1..Len(t) : t[i] = Append(s, <<>>)[i]
  <2> SUFFICES ASSUME NEW i \in 1..Len(t) PROVE t[i] = Append(s, <<>>)[i]
    OBVIOUS
  <2>1. i \in 1..Len(s) \/ i = Len(s) + 1
    BY <1>1, <1>2, <1>3, <1>6
  <2> QED BY <1>2, <1>4, <1>6, <2>1
<1>8. t = Append(s, <<>>)
  BY <1>1, <1>2, <1>3, <1>6, <1>7, SeqEqual
<1>9. FlattenSeq(Append(s, <<>>)) = FlattenSeq(s) \o <<>> /\ FlattenSeq(s) \in Seq(Items)
  BY <1>2, <1>5, FlattenAppend, FlattenType
<1>10. FlattenSeq(s) \o <<>> = FlattenSeq(s)
  BY <1>9, ConcatEmptySeq
<1> QED BY <1>8, <1>9, <1>10 DEF ToldOf, s, t, M

\* A line after those that were told is told last.
LEMMA ToldMore ==
  ASSUME NEW L \in Seq(Lines), NEW G, NEW n \in DOMAIN L, \A m \in G : m < n
  PROVE  ToldOf(L, G \cup {n}) = IF Said(L[n]) THEN Append(ToldOf(L, G), Says(L[n])) ELSE ToldOf(L, G)
<1> DEFINE H == G \cup {n}
           s == Saying(L, G)
           t == Saying(L, H)
<1>1. /\ s \in Seq(Seq(Items)) /\ Len(s) = Len(L) /\ DOMAIN L = 1..Len(L)
      /\ \A i \in DOMAIN L : s[i] = IF i \in G /\ Said(L[i]) THEN <<Says(L[i])>> ELSE <<>>
  BY SayingType
<1>2. /\ t \in Seq(Seq(Items)) /\ Len(t) = Len(L)
      /\ \A i \in DOMAIN L : t[i] = IF i \in H /\ Said(L[i]) THEN <<Says(L[i])>> ELSE <<>>
  BY SayingType
<1>3. n \notin G /\ n \in Nat /\ \A i \in DOMAIN L : i > n => i \notin G
  OBVIOUS
<1>4. \A i \in DOMAIN L : i # n => (i \in H <=> i \in G)
  OBVIOUS
<1>5. n \in H /\ L[n] \in Lines
  OBVIOUS
<1> HIDE DEF s, t, H
<1>6. /\ n \in 1..Len(s) /\ Len(s) = Len(t) /\ s[n] = <<>>
      /\ (\A i \in 1..Len(s) : i # n => s[i] = t[i]) /\ (\A i \in 1..Len(s) : i > n => s[i] = <<>>)
  BY <1>1, <1>2, <1>3, <1>4
<1>7. t[n] = IF Said(L[n]) THEN <<Says(L[n])>> ELSE <<>>
  BY <1>2, <1>5
<1>8. PICK pre \in Seq(Items) : FlattenSeq(s) = pre \o s[n] /\ FlattenSeq(t) = pre \o t[n]
  BY <1>1, <1>2, <1>6, FlattenReplace
<1>9. pre \o <<>> = pre
  BY ConcatEmptySeq
<1>10. ASSUME Said(L[n]) PROVE Append(pre, Says(L[n])) = pre \o <<Says(L[n])>>
  <2> DEFINE x == Says(L[n])
  <2>1. x \in Items
    BY <1>5, <1>10, SaysType
  <2> HIDE DEF x
  <2>2. Append(pre, x) = pre \o <<x>>
    BY <2>1
  <2> QED BY <2>2 DEF x
<1> QED BY <1>6, <1>7, <1>8, <1>9, <1>10 DEF ToldOf, s, t, H

\* What is told is a sequence of items.
LEMMA ToldType ==
  ASSUME NEW L \in Seq(Lines), NEW G
  PROVE  ToldOf(L, G) \in Seq(Items)
BY SayingType, FlattenType DEF ToldOf

\* Nothing is told of no lines.
LEMMA ToldNothing ==
  ASSUME NEW L \in Seq(Lines)
  PROVE  ToldOf(L, {}) = <<>> /\ Flat(<<>>) = <<>>
<1> DEFINE s == Saying(L, {})
<1>1. s \in Seq(Seq(Items)) /\ Len(s) \in Nat /\ \A i \in 1..Len(s) : s[i] = <<>>
  <2>1. /\ s \in Seq(Seq(Items)) /\ Len(s) = Len(L) /\ DOMAIN L = 1..Len(L)
        /\ \A n \in DOMAIN L : s[n] = IF n \in {} /\ Said(L[n]) THEN <<Says(L[n])>> ELSE <<>>
    BY SayingType
  <2> HIDE DEF s
  <2>2. Len(L) \in Nat
    OBVIOUS
  <2> QED BY <2>1, <2>2
<1> HIDE DEF s
<1>4. Flat(<<>>) = <<>>
  <2>1. <<>> \in Seq(Messages) /\ Len(<<>>) = 0
    OBVIOUS
  <2>2. ShownIn(<<>>) \in Seq(Seq(Items)) /\ Len(ShownIn(<<>>)) = 0
    BY <2>1, ShownInType
  <2>3. ShownIn(<<>>) = <<>>
    BY <2>2
  <2>4. <<>> \in Seq(Seq(Items))
    OBVIOUS
  <2> QED BY <2>3, <2>4, FlattenType DEF Flat
<1>2. CASE Len(s) = 0
  <2>1. s = <<>>
    BY <1>1, <1>2, EmptySeq
  <2>2. FlattenSeq(s) = <<>>
    BY ONLY <1>1, <2>1, FlattenType
  <2> QED BY <1>4, <2>2 DEF ToldOf, s
<1>3. CASE Len(s) # 0
  <2>1. PICK g : Flattening(s, g) /\ FlattenSeq(s) = IF Len(s) = 0 THEN <<>> ELSE g[Len(s)]
    BY <1>1, FlattenIs
  <2>2. 1 \in 1..Len(s)
    BY <1>1, <1>3
  <2>3. g[Len(s)] = g[1]
    BY <1>1, <2>1, <2>2, FlatteningEmpties
  <2>4. g[1] = s[1]
    <3>1. Flattening(s, g) /\ Len(s) \in Nat /\ Len(s) # 0
      BY <1>1, <1>3, <2>1
    <3> QED BY ONLY <3>1, FlatteningAt
  <2>5. FlattenSeq(s) = <<>>
    BY <1>1, <1>3, <2>1, <2>2, <2>3, <2>4
  <2> QED BY <1>4, <2>5 DEF ToldOf, s
<1> QED BY <1>1, <1>2, <1>3

-----------------------------------------------------------------------------
(* What a window has settled: all but the block that is being streamed *)

\* The block was said in the lines.
SaidIn(L, G, b) == \E n \in G : L[n].type = "said" /\ L[n].n = b

\* A block of a message is one of these.
Stated(L, G, x) ==
  /\ x.id = 0 \/ SaidIn(L, G, x.id)
  /\ \A l \in DOMAIN x.pieces : SaidIn(L, G, x.pieces[l][1])

\* The blocks of a message were said in the lines that were given.
AllStated(L, G, m) == m.type = "turn" => \A k \in DOMAIN m.blocks : Stated(L, G, m.blocks[k])

\* Only messages of the user come after an open turn.
OpenLast(ms) ==
  \A i, j \in DOMAIN ms : Open(ms[i]) /\ i < j => ms[j].type = "user"

\* The messages show what the lines say, once and in their order.
Settled(L, ms, G) ==
  /\ Flat(ms) = ToldOf(L, G)
  /\ \A i \in DOMAIN ms : AllStated(L, G, ms[i])
  /\ OpenLast(ms)

\* The streaming turn of messages that changed.
LEMMA OpenTurnIs ==
  ASSUME NEW ms \in Seq(Messages), NEW i \in 0..Len(ms), i # 0 => Open(ms[i]),
         \A j \in DOMAIN ms : Open(ms[j]) => j <= i
  PROVE  findStreamingTurn(ms) = i
<1> DEFINE f == findStreamingTurn(ms)
<1>1. /\ f \in 0..Len(ms) /\ (f # 0 => Open(ms[f]))
      /\ \A j \in DOMAIN ms : Open(ms[j]) => f # 0 /\ j <= f
  BY StreamingTurn
<1>2. DOMAIN ms = 1..Len(ms) /\ Len(ms) \in Nat
  OBVIOUS
<1> HIDE DEF f
<1>3. f # 0 => f <= i
  BY <1>1, <1>2
<1>4. i # 0 => i <= f
  BY <1>1, <1>2
<1>5. f = i
  BY <1>1, <1>2, <1>3, <1>4
<1> QED BY <1>5 DEF f

LEMMA OpenTurnSame ==
  ASSUME NEW ms \in Seq(Messages), NEW ns \in Seq(Messages), DOMAIN ms = DOMAIN ns,
         \A j \in DOMAIN ms : Open(ms[j]) <=> Open(ns[j])
  PROVE  findStreamingTurn(ns) = findStreamingTurn(ms)
<1>1. /\ findStreamingTurn(ms) \in 0..Len(ms)
      /\ findStreamingTurn(ms) # 0 => Open(ms[findStreamingTurn(ms)])
      /\ \A j \in DOMAIN ms : Open(ms[j]) => findStreamingTurn(ms) # 0 /\ j <= findStreamingTurn(ms)
  BY StreamingTurn
<1> DEFINE f == findStreamingTurn(ms)
<1> HIDE DEF f
<1>2. /\ f \in 0..Len(ns) /\ (f # 0 => Open(ns[f])) /\ \A j \in DOMAIN ns : Open(ns[j]) => j <= f
  <2>1. Len(ns) = Len(ms) /\ DOMAIN ms = 1..Len(ms)
    OBVIOUS
  <2> QED BY <1>1, <2>1 DEF f
<1>3. findStreamingTurn(ns) = f
  BY <1>2, OpenTurnIs
<1> QED BY <1>3 DEF f

LEMMA OpenTurnMore ==
  ASSUME NEW ms \in Seq(Messages), NEW m \in Messages
  PROVE  findStreamingTurn(Append(ms, m)) =
           IF Open(m) THEN Len(ms) + 1 ELSE findStreamingTurn(ms)
<1> DEFINE ns == Append(ms, m)
           f == findStreamingTurn(ms)
           i == IF Open(m) THEN Len(ms) + 1 ELSE f
<1>1. /\ ns \in Seq(Messages) /\ Len(ns) = Len(ms) + 1 /\ Len(ms) + 1 \in Nat
      /\ DOMAIN ms = 1..Len(ms) /\ ns[Len(ms) + 1] = m
      /\ \A j \in DOMAIN ms : ns[j] = ms[j] /\ j # Len(ms) + 1
      /\ \A j \in DOMAIN ns : j = Len(ms) + 1 \/ j \in DOMAIN ms
  BY Appended
<1>2. /\ f \in 0..Len(ms) /\ (f # 0 => Open(ms[f]))
      /\ \A j \in DOMAIN ms : Open(ms[j]) => f # 0 /\ j <= f
  BY StreamingTurn
<1>3. Len(ms) \in Nat
  OBVIOUS
<1> HIDE DEF ns, f
<1>4. i \in 0..Len(ns)
  BY <1>1, <1>2, <1>3
<1>5. i # 0 => Open(ns[i])
  BY <1>1, <1>2, <1>3
<1>6. \A j \in DOMAIN ns : Open(ns[j]) => j <= i
  BY <1>1, <1>2, <1>3
<1>7. findStreamingTurn(ns) = i
  <2> HIDE DEF i
  <2> QED BY <1>1, <1>4, <1>5, <1>6, OpenTurnIs
<1> QED BY <1>7 DEF ns, f, i

\* With more lines, more blocks were said.
LEMMA AllStatedMore ==
  ASSUME NEW L, NEW G, NEW H, G \subseteq H, NEW m, AllStated(L, G, m)
  PROVE  AllStated(L, H, m)
BY DEF AllStated, Stated, SaidIn

\* Messages that are open or not as before, with what they show.
LEMMA SettledSame ==
  ASSUME NEW L, NEW G, NEW ms, Settled(L, ms, G), NEW ns, DOMAIN ns = DOMAIN ms,
         \A j \in DOMAIN ms : ns[j] = ms[j] \/ (ms[j].type = "user" /\ ns[j].type = "user")
  PROVE  Settled(L, ns, G)
<1>1. \A j \in DOMAIN ms : Shown(ns[j]) = Shown(ms[j])
  BY DEF Shown
<1>2. Flat(ns) = Flat(ms)
  BY <1>1, FlatSame
<1>3. \A i \in DOMAIN ns : AllStated(L, G, ns[i])
  BY DEF Settled, AllStated
<1>4. OpenLast(ns)
  BY DEF Settled, OpenLast, Open
<1> QED BY <1>2, <1>3, <1>4 DEF Settled

\* A message more.
LEMMA SettledMore ==
  ASSUME NEW L, NEW G, NEW H, G \subseteq H, NEW ms \in Seq(Messages), Settled(L, ms, G),
         NEW m \in Messages, m.type = "user" \/ findStreamingTurn(ms) = 0,
         AllStated(L, H, m), ToldOf(L, H) = ToldOf(L, G) \o Shown(m)
  PROVE  Settled(L, Append(ms, m), H)
<1> DEFINE ns == Append(ms, m)
<1>1. /\ DOMAIN ms = 1..Len(ms) /\ ns[Len(ms) + 1] = m /\ Len(ms) + 1 \in Nat
      /\ \A j \in DOMAIN ms : ns[j] = ms[j]
      /\ \A j \in DOMAIN ns : j = Len(ms) + 1 \/ j \in DOMAIN ms
  BY Appended
<1>2. Flat(ns) = ToldOf(L, H)
  BY FlatMore DEF Settled
<1>3. Len(ms) \in Nat
  OBVIOUS
<1> HIDE DEF ns
<1>4. \A i \in DOMAIN ns : AllStated(L, H, ns[i])
  <2> SUFFICES ASSUME NEW i \in DOMAIN ns PROVE AllStated(L, H, ns[i])
    OBVIOUS
  <2>1. CASE i \in DOMAIN ms
    BY <1>1, <2>1, AllStatedMore DEF Settled
  <2>2. CASE i \notin DOMAIN ms
    BY <1>1, <2>2
  <2> QED BY <2>1, <2>2
<1>5. OpenLast(ns)
  <2> SUFFICES ASSUME NEW i \in DOMAIN ns, NEW j \in DOMAIN ns, Open(ns[i]), i < j
               PROVE  ns[j].type = "user"
    BY DEF OpenLast
  <2>1. i \in DOMAIN ms
    BY <1>1, <1>3
  <2>2. Open(ms[i])
    BY <1>1, <2>1
  <2>3. m.type = "user"
    BY <2>1, <2>2, StreamingTurn
  <2>4. CASE j \in DOMAIN ms
    BY <1>1, <2>1, <2>2, <2>4 DEF Settled, OpenLast
  <2>5. CASE j \notin DOMAIN ms
    BY <1>1, <2>3, <2>5
  <2> QED BY <2>4, <2>5
<1> QED BY <1>2, <1>4, <1>5 DEF Settled, ns

\* A line that the process does not say.
LEMMA SettledUnsaid ==
  ASSUME NEW L \in Seq(Lines), NEW ms \in Seq(Messages), NEW G, Settled(L, ms, G),
         NEW n \in DOMAIN L, \A m \in G : m < n, ~Said(L[n])
  PROVE  Settled(L, ms, G \cup {n})
<1>1. ToldOf(L, G \cup {n}) = ToldOf(L, G)
  BY ToldMore
<1>2. \A i \in DOMAIN ms : AllStated(L, G \cup {n}, ms[i])
  BY AllStatedMore DEF Settled
<1> QED BY <1>1, <1>2 DEF Settled

\* A message of the user settles nothing; the log may grow; nothing is settled at first.
LEMMA SettledUser ==
  ASSUME NEW L \in Seq(Lines), NEW ms \in Seq(Messages), NEW G, Settled(L, ms, G),
         NEW m \in Messages, m.type = "user"
  PROVE  Settled(L, Append(ms, m), G)
<1>1. Shown(m) = <<>> /\ AllStated(L, G, m)
  BY ShownType DEF AllStated
<1>2. ToldOf(L, G) = ToldOf(L, G) \o <<>>
  BY ToldType, ConcatEmptySeq
<1> QED BY <1>1, <1>2, SettledMore

LEMMA SettledGrows ==
  ASSUME NEW L \in Seq(Lines), NEW line \in Lines, NEW ms, NEW G, G \subseteq DOMAIN L, Settled(L, ms, G)
  PROVE  Settled(Append(L, line), ms, G)
<1>1. ToldOf(Append(L, line), G) = ToldOf(L, G)
  BY ToldGrows
<1>2. \A n \in DOMAIN L : Append(L, line)[n] = L[n]
  BY Appended
<1>3. \A b : SaidIn(Append(L, line), G, b) <=> SaidIn(L, G, b)
  BY <1>2 DEF SaidIn
<1> QED BY <1>1, <1>3 DEF Settled, AllStated, Stated

LEMMA SettledNothing ==
  ASSUME NEW L \in Seq(Lines)
  PROVE  Settled(L, <<>>, {}) /\ findStreamingTurn(<<>>) = 0
<1>1. <<>> \in Seq(Messages) /\ DOMAIN <<>> = {} /\ Len(<<>>) = 0
  OBVIOUS
<1>2. findStreamingTurn(<<>>) = 0
  <2> DEFINE e == <<>>
  <2>1. e \in Seq(Messages) /\ Len(e) = 0
    BY <1>1
  <2> HIDE DEF e
  <2>2. findStreamingTurn(e) \in 0..Len(e)
    BY <2>1, StreamingTurn
  <2>3. findStreamingTurn(e) = 0
    BY <2>1, <2>2
  <2> QED BY <2>3 DEF e
<1> QED BY <1>1, <1>2, ToldNothing DEF Settled, OpenLast

-----------------------------------------------------------------------------
(* Lines that reach a window without an open turn *)

\* A tool that was not said is in no settled message.
LEMMA ToolUnsaid ==
  ASSUME NEW L, NEW G, NEW ms \in Seq(Messages), \A i \in DOMAIN ms : AllStated(L, G, ms[i]),
         NEW b, b # 0, ~SaidIn(L, G, b)
  PROVE  TurnOfTool(ms, b) = 0
<1> SUFFICES ASSUME TurnOfTool(ms, b) # 0 PROVE FALSE
  OBVIOUS
<1> DEFINE k == TurnOfTool(ms, b)
<1>1. k \in DOMAIN ms /\ Has(ms[k], b)
  BY LastWithTool
<1> HIDE DEF k
<1>2. PICK i \in DOMAIN ms[k].blocks : ms[k].blocks[i].id = b
  BY <1>1 DEF Has
<1> QED BY <1>1, <1>2 DEF Has, AllStated, Stated

\* A turn that shows a block whole.
LEMMA TurnSaid ==
  ASSUME NEW L \in Seq(Lines), NEW n \in DOMAIN L, L[n].type = "said", NEW G, n \in G
  PROVE  LET m == Turn(FALSE, <<Block(L[n].kind, L[n].n, Whole(L[n].n))>>)
         IN /\ m \in Messages /\ ~Open(m) /\ m.type # "user"
            /\ Shown(m) = <<Says(L[n])>> /\ AllStated(L, G, m)
<1> DEFINE b == L[n].n
           x == Block(L[n].kind, b, Whole(b))
           m == Turn(FALSE, <<x>>)
<1>1. L[n] \in Lines /\ b \in Nat /\ L[n].kind \in {"text", "tool", ""}
  <2>1. L[n] \in Lines
    OBVIOUS
  <2> QED BY <2>1, LineIs
<1>2. /\ Whole(b) \in Seq(Nat \X Nat) /\ DOMAIN Whole(b) = 1..Pieces
      /\ \A k \in 1..Pieces : Whole(b)[k] = <<b, k>>
  BY <1>1, WholeType
<1>3. x \in Blocks
  BY <1>1, <1>2, BlockType
<1>4. x.pieces = Whole(b) /\ x.id \in {0, b}
  BY DEF Block
<1>5. SaidIn(L, G, b)
  BY DEF SaidIn
<1>6. Stated(L, G, x)
  <2> HIDE DEF x, b
  <2> QED BY <1>2, <1>4, <1>5 DEF Stated
<1>7. <<x>> \in Seq(Blocks) /\ DOMAIN <<x>> = {1} /\ <<x>>[1] = x
  <2> HIDE DEF x
  <2> QED BY <1>3, Single
<1>8. m \in Messages /\ m.type = "turn" /\ m.blocks = <<x>> /\ m.streaming = FALSE
  <2> DEFINE bs == <<x>>
  <2>1. bs \in Seq(Blocks)
    BY <1>7
  <2> HIDE DEF bs, x
  <2>2. Turn(FALSE, bs) \in Messages /\ Turn(FALSE, bs).type = "turn" /\ Turn(FALSE, bs).blocks = bs
        /\ Turn(FALSE, bs).streaming = FALSE
    BY <2>1, MessageKinds DEF Turn
  <2> QED BY <2>2 DEF bs
<1>9. Says(L[n]) = Whole(b)
  BY DEF Says
<1>10. Shown(m) = <<Whole(b)>>
  <2>1. Shown(m) = [i \in DOMAIN <<x>> |-> <<x>>[i].pieces]
    BY <1>8 DEF Shown
  <2>2. Shown(m) = [i \in {1} |-> Whole(b)]
    <3> HIDE DEF x, m, b
    <3> QED BY <1>4, <1>7, <2>1
  <2> DEFINE y == Whole(b)
  <2> HIDE DEF y
  <2>3. <<y>> = [i \in {1} |-> y]
    OBVIOUS
  <2> QED BY <2>2, <2>3 DEF y
<1>11. AllStated(L, G, m)
  <2> HIDE DEF x, m
  <2> QED BY <1>6, <1>7, <1>8 DEF AllStated
<1> QED BY <1>8, <1>9, <1>10, <1>11 DEF Open

\* The blocks that are said have numbers from 1 on.
Numbers(L) == \A n \in DOMAIN L : L[n].type = "said" => L[n].n # 0

\* A line after those that are settled, in a window without an open turn.
LEMMA LineSettled ==
  ASSUME PromptsType, NEW v \in Views, log \in Seq(Lines), Unique, Numbers(log),
         \A m \in DOMAIN log : LineKnown(log[m]),
         NEW G, G \subseteq DOMAIN log, NEW n \in DOMAIN log, \A m \in G : m < n,
         Settled(log, v.msgs, G), findStreamingTurn(v.msgs) = 0
  PROVE  /\ Settled(log, Reduced(v, log[n]).msgs, G \cup {n})
         /\ findStreamingTurn(Reduced(v, log[n]).msgs) = 0
<1> DEFINE ms == v.msgs
           H == G \cup {n}
           line == log[n]
           ns == Reduced(v, line).msgs
<1>1. line \in Lines /\ LineKnown(line) /\ line.n \in Nat /\ line.kind \in {"text", "tool", ""} /\ n \notin G
      /\ line.type \in {"in", "echo", "said", "tool_result", "result"} /\ n \in Nat
  <2>1. log[n] \in Lines /\ n \in Nat
    OBVIOUS
  <2>2. n \notin G
    BY <2>1
  <2> QED BY <2>1, <2>2, LineIs
<1>2. ms \in Seq(Messages) /\ G \subseteq H /\ n \in H
  BY DEF Views
<1>3. CASE line.type \in {"in", "echo"}
  <2> DEFINE p == line.n
             t == prompts[p].text
             x == IF line.type = "in" THEN 0 ELSE p
             i == MatchOf(ms, t, x)
  <2>1. t \in Texts /\ x \in 0..MaxInputs
    <3>1. p \in DOMAIN prompts
      BY <1>1, <1>3 DEF LineKnown
    <3>2. t \in Texts /\ p \in 0..MaxInputs
      BY <3>1, PromptIs
    <3>3. MaxInputs \in Nat
      BY Constants
    <3> HIDE DEF p, t
    <3> QED BY <3>2, <3>3
  <2>2. Reduced(v, line) = onMessageUser(v, t, x)
    BY <1>3 DEF Reduced
  <2>3. IF x = 0 \/ i = 0 THEN ns = Append(ms, UserMessage(t, x))
        ELSE /\ i \in DOMAIN ms /\ ms[i].type = "user" /\ ms[i].text \in Texts
             /\ ns = [ms EXCEPT ![i] = UserMessage(ms[i].text, x)]
    <3> HIDE DEF t, x
    <3> QED BY <2>1, <2>2, UserIs
  <2>4. Settled(log, ms, H)
    BY <1>2, <1>3, SettledUnsaid DEF Said
  <2> HIDE DEF t, x, ns, line, H, ms, i
  <2>5. CASE x = 0 \/ i = 0
    <3> DEFINE m == UserMessage(t, x)
    <3>1. m \in Messages /\ m.type = "user" /\ ~Open(m)
      BY <2>1, MessageKinds DEF UserMessage, Open
    <3>2. ns = Append(ms, m)
      BY <2>3, <2>5
    <3> HIDE DEF m
    <3>3. Settled(log, Append(ms, m), H)
      BY <1>2, <2>4, <3>1, SettledUser
    <3>4. findStreamingTurn(Append(ms, m)) = 0
      BY <1>2, <3>1, OpenTurnMore DEF ms
    <3> QED BY <3>2, <3>3, <3>4 DEF ns, line, H
  <2>6. CASE ~(x = 0 \/ i = 0)
    <3> DEFINE m == UserMessage(ms[i].text, x)
    <3>1. i \in DOMAIN ms /\ ms[i].type = "user" /\ ms[i].text \in Texts /\ ns = [ms EXCEPT ![i] = m]
      BY <2>3, <2>6
    <3>2. m \in Messages /\ m.type = "user" /\ ~Open(m)
      BY <2>1, <3>1, MessageKinds DEF UserMessage, Open
    <3> HIDE DEF m
    <3>3. /\ ns \in Seq(Messages) /\ DOMAIN ns = DOMAIN ms /\ ns[i] = m
          /\ \A j \in DOMAIN ms : j # i => ns[j] = ms[j]
      BY <1>2, <3>1, <3>2, Replaced
    <3>4. Settled(log, ns, H)
      BY <2>4, <3>1, <3>2, <3>3, SettledSame
    <3>5. \A j \in DOMAIN ms : Open(ms[j]) <=> Open(ns[j])
      BY <3>1, <3>2, <3>3 DEF Open
    <3>6. findStreamingTurn(ns) = 0
      BY <1>2, <3>3, <3>5, OpenTurnSame DEF ms
    <3> QED BY <3>4, <3>6 DEF ns, line, H
  <2> QED BY <2>5, <2>6
<1>4. CASE line.type = "said"
  <2> DEFINE b == line.n
             m == Turn(FALSE, <<Block(line.kind, b, Whole(b))>>)
  <2>1. b # 0 /\ ~SaidIn(log, G, b)
    BY <1>1, <1>4 DEF Numbers, SaidIn, Unique
  <2>2. TurnOfTool(ms, b) = 0
    BY <1>2, <2>1, ToolUnsaid DEF Settled
  <2>3. Reduced(v, line) = onMessageAssistant(v, b, line.kind)
    BY <1>4 DEF Reduced
  <2>4. ns = Append(ms, m)
    <3> DEFINE k == line.kind
    <3>1. b \in Nat /\ k \in {"text", "tool", ""}
      BY <1>1
    <3> HIDE DEF b, k
    <3>2. onMessageAssistant(v, b, k).msgs =
            IF k = "tool" /\ TurnOfTool(ms, b) # 0 THEN Patched(ms, b)
            ELSE IF findStreamingTurn(ms) # 0
            THEN InTurn(ms, SaidAdded(StreamingBlocks(ms), b, k))
            ELSE Append(ms, Turn(FALSE, <<Block(k, b, Whole(b))>>))
      BY <3>1, SaidIs
    <3> QED BY <2>2, <2>3, <3>2 DEF b, k
  <2>5. m \in Messages /\ ~Open(m) /\ Shown(m) = <<Says(line)>> /\ AllStated(log, H, m)
    BY <1>2, <1>4, TurnSaid
  <2>6. ToldOf(log, H) = Append(ToldOf(log, G), Says(line))
    BY <1>4, ToldMore DEF Said
  <2>7. Says(line) \in Items /\ ToldOf(log, G) \in Seq(Items)
    BY <1>1, <1>4, SaysType, ToldType DEF Said
  <2> HIDE DEF m, H, ns, line, ms
  <2>8. ToldOf(log, H) = ToldOf(log, G) \o Shown(m)
    BY <2>5, <2>6, <2>7
  <2>9. Settled(log, Append(ms, m), H) /\ findStreamingTurn(Append(ms, m)) = 0
    BY <1>2, <2>5, <2>8, SettledMore, OpenTurnMore DEF ms
  <2> QED BY <2>4, <2>9 DEF ns, line, H
<1>5. CASE line.type \in {"tool_result", "result"}
  <2> DEFINE m == Note(line.type, line.n)
  <2>1. Reduced(v, line) = [v EXCEPT !.msgs = Append(@, m)]
    BY <1>5 DEF Reduced
  <2>2. ns = Append(ms, m)
    BY <2>1 DEF Views
  <2>3. m \in Messages /\ m.type = line.type /\ m.n = line.n
    BY <1>1, <1>5, MessageKinds DEF Note
  <2>4. Says(line) = <<m.type, m.n>>
    BY <1>5, <2>3 DEF Says
  <2>5. m.type \notin {"user", "turn"}
    BY <1>5, <2>3
  <2>6. Shown(m) = <<Says(line)>> /\ ~Open(m) /\ AllStated(log, H, m)
    <3> HIDE DEF m, line
    <3> QED BY <2>3, <2>4, <2>5, ShownType DEF Open, AllStated
  <2>7. ToldOf(log, H) = Append(ToldOf(log, G), Says(line))
    BY <1>5, ToldMore DEF Said
  <2>8. Says(line) \in Items /\ ToldOf(log, G) \in Seq(Items)
    BY <1>1, <1>5, SaysType, ToldType DEF Said
  <2> HIDE DEF m, H, ns, line, ms
  <2>9. ToldOf(log, H) = ToldOf(log, G) \o Shown(m)
    BY <2>6, <2>7, <2>8
  <2>10. Settled(log, Append(ms, m), H) /\ findStreamingTurn(Append(ms, m)) = 0
    BY <1>2, <2>3, <2>6, <2>9, SettledMore, OpenTurnMore DEF ms
  <2> QED BY <2>2, <2>10 DEF ns, line, H
<1> QED BY <1>1, <1>3, <1>4, <1>5

\* So are the lines of a batch.
LEMMA ReplayedSettled ==
  ASSUME PromptsType, NEW v \in Views, log \in Seq(Lines), Unique, Numbers(log),
         \A m \in DOMAIN log : LineKnown(log[m]),
         NEW G, G \subseteq DOMAIN log, NEW R, R \subseteq DOMAIN log, \A m \in G, n \in R : m < n,
         Settled(log, v.msgs, G), findStreamingTurn(v.msgs) = 0
  PROVE  /\ Settled(log, Replayed(v, R).msgs, G \cup R)
         /\ findStreamingTurn(Replayed(v, R).msgs) = 0
<1> DEFINE N == Len(log)
           H(n) == G \cup {m \in R : m <= n}
           S == {s \in (0..N) \X Views :
                   Settled(log, s[2].msgs, H(s[1])) /\ findStreamingTurn(s[2].msgs) = 0}
<1>1. N \in Nat /\ DOMAIN log = 1..N
  OBVIOUS
<1>2. H(0) = G /\ H(N) = G \cup R
  BY <1>1
<1>3. <<0, v>> \in S
  <2>1. <<0, v>> \in (0..N) \X Views /\ <<0, v>>[1] = 0 /\ <<0, v>>[2] = v
    BY <1>1
  <2>2. Settled(log, v.msgs, H(0)) /\ findStreamingTurn(v.msgs) = 0
    BY <1>2
  <2> HIDE DEF H, N
  <2> QED BY <2>1, <2>2
<1>4. ASSUME NEW n \in 1..N, NEW y, <<n - 1, y>> \in S
      PROVE  <<n, IF n \in R THEN Reduced(y, log[n]) ELSE y>> \in S
  <2>1. y \in Views /\ n - 1 \in 0..N /\ n \in 0..N /\ n \in DOMAIN log
    BY <1>1, <1>4
  <2>2. Settled(log, y.msgs, H(n - 1)) /\ findStreamingTurn(y.msgs) = 0
    BY <1>4
  <2>3. H(n) = IF n \in R THEN H(n - 1) \cup {n} ELSE H(n - 1)
    <3>1. \A m \in R : m <= n <=> m <= n - 1 \/ m = n
      BY <1>1
    <3> QED BY <3>1
  <2>4. CASE n \notin R
    BY <2>1, <2>2, <2>3, <2>4
  <2>5. CASE n \in R
    <3> DEFINE F == H(n - 1)
    <3>1. F \subseteq DOMAIN log /\ \A m \in F : m < n
      <4>1. \A m \in R : m <= n - 1 <=> m < n
        BY <1>1
      <4> QED BY <2>5, <4>1
    <3> HIDE DEF F, H, N
    <3>2. Settled(log, y.msgs, F) /\ findStreamingTurn(y.msgs) = 0
      BY <2>2 DEF F
    <3>3. /\ Settled(log, Reduced(y, log[n]).msgs, F \cup {n})
          /\ findStreamingTurn(Reduced(y, log[n]).msgs) = 0
      BY <2>1, <3>1, <3>2, LineSettled
    <3>4. Reduced(y, log[n]) \in Views
      BY <2>1, ReducedReduces DEF Reduces
    <3>5. H(n) = F \cup {n}
      BY <2>3, <2>5 DEF F
    <3> DEFINE z == Reduced(y, log[n])
    <3> HIDE DEF z
    <3>6. <<n, z>> \in (0..N) \X Views /\ Settled(log, z.msgs, H(n)) /\ findStreamingTurn(z.msgs) = 0
      BY <2>1, <3>3, <3>4, <3>5 DEF z
    <3>7. <<n, z>> \in S
      BY <3>6
    <3> QED BY <2>5, <3>7 DEF z
  <2> QED BY <2>4, <2>5
<1>5. <<N, Replayed(v, R)>> \in S
  <2> HIDE DEF S
  <2> QED BY <1>1, <1>3, <1>4, ReplayInduction
<1>6. Settled(log, Replayed(v, R).msgs, H(N)) /\ findStreamingTurn(Replayed(v, R).msgs) = 0
  BY <1>5
<1> QED BY <1>2, <1>6

-----------------------------------------------------------------------------
(* The block that is being streamed *)

\* The first pieces of a block.
FirstOf(b, n) == [k \in 1..n |-> <<b, k>>]

\* The block the process is streaming.
Unfinished(s) == Block(s.kind, s.b, FirstOf(s.b, s.n))

\* The messages with a block more in the open turn.
WithBlock(ms, x) == InTurn(ms, Append(StreamingBlocks(ms), x))

\* The pieces of a block up to one of them.
LEMMA FirstIs ==
  ASSUME NEW b \in Nat, NEW n \in Nat
  PROVE  /\ FirstOf(b, n) \in Seq(Nat \X Nat) /\ FirstOf(b, 0) = <<>> /\ FirstOf(b, 1) = <<<<b, 1>>>>
         /\ FirstOf(b, n + 1) = Append(FirstOf(b, n), <<b, n + 1>>)
         /\ FirstOf(b, Pieces) = Whole(b)
         /\ \A l \in DOMAIN FirstOf(b, n) : FirstOf(b, n)[l][1] = b
<1>1. \A m \in Nat : FirstOf(b, m) \in Seq(Nat \X Nat) /\ Len(FirstOf(b, m)) = m
                     /\ \A k \in 1..m : FirstOf(b, m)[k] = <<b, k>>
  BY DEF FirstOf
<1>2. FirstOf(b, 0) = <<>>
  BY <1>1, EmptySeq
<1>3. FirstOf(b, n + 1) = Append(FirstOf(b, n), <<b, n + 1>>)
  <2> DEFINE p == <<b, n + 1>>
             s == FirstOf(b, n)
             t == FirstOf(b, n + 1)
  <2>1. p \in Nat \X Nat
    OBVIOUS
  <2>2. s \in Seq(Nat \X Nat) /\ Len(s) = n /\ t \in Seq(Nat \X Nat) /\ Len(t) = n + 1
        /\ (\A k \in 1..n : s[k] = t[k]) /\ t[n + 1] = p
    <3> DEFINE N == n + 1
    <3>1. N \in Nat /\ N \in 1..N /\ \A k \in 1..n : k \in 1..N
      OBVIOUS
    <3> HIDE DEF N
    <3>2. s \in Seq(Nat \X Nat) /\ Len(s) = n /\ \A k \in 1..n : s[k] = <<b, k>>
      BY <1>1
    <3>3. /\ FirstOf(b, N) \in Seq(Nat \X Nat) /\ Len(FirstOf(b, N)) = N
          /\ \A k \in 1..N : FirstOf(b, N)[k] = <<b, k>>
      BY <1>1, <3>1
    <3>4. (\A k \in 1..n : s[k] = FirstOf(b, N)[k]) /\ FirstOf(b, N)[N] = <<b, N>>
      BY <3>1, <3>2, <3>3
    <3> QED BY <3>2, <3>3, <3>4 DEF N
  <2> HIDE DEF p, s, t
  <2>3. /\ Append(s, p) \in Seq(Nat \X Nat) /\ Len(Append(s, p)) = n + 1 /\ Append(s, p)[n + 1] = p
        /\ \A j \in 1..n : Append(s, p)[j] = s[j]
    BY <2>1, <2>2, Appended
  <2>4. \A k \in 1..Len(t) : t[k] = Append(s, p)[k]
    <3> SUFFICES ASSUME NEW k \in 1..Len(t) PROVE t[k] = Append(s, p)[k]
      OBVIOUS
    <3>1. k \in 1..n \/ k = n + 1
      BY <2>2
    <3> QED BY <2>2, <2>3, <3>1
  <2>5. t = Append(s, p)
    BY <2>2, <2>3, <2>4, SeqEqual
  <2> QED BY <2>5 DEF p, s, t
<1>4. FirstOf(b, 1) = <<<<b, 1>>>>
  <2> DEFINE p == <<b, 1>>
             t == FirstOf(b, 1)
  <2>1. p \in Nat \X Nat
    OBVIOUS
  <2>2. t \in Seq(Nat \X Nat) /\ Len(t) = 1 /\ t[1] = p
    <3>1. 1 \in Nat /\ 1 \in 1..1
      OBVIOUS
    <3> QED BY <1>1, <3>1
  <2> HIDE DEF p, t
  <2>3. <<p>> \in Seq(Nat \X Nat) /\ Len(<<p>>) = 1 /\ <<p>>[1] = p
    BY <2>1, Single
  <2>4. \A k \in 1..Len(t) : t[k] = <<p>>[k]
    BY <2>2, <2>3
  <2>5. t = <<p>>
    BY <2>2, <2>3, <2>4, SeqEqual
  <2> QED BY <2>5 DEF p, t
<1>5. FirstOf(b, Pieces) = Whole(b)
  BY DEF FirstOf, Whole
<1>6. \A l \in DOMAIN FirstOf(b, n) : FirstOf(b, n)[l][1] = b
  BY DEF FirstOf
<1> QED BY <1>1, <1>2, <1>3, <1>4, <1>5, <1>6

LEMMA UnfinishedIs ==
  ASSUME NEW s \in States
  PROVE  LET x == Unfinished(s)
         IN /\ x \in Blocks /\ x.kind = s.kind /\ x.id = IF s.kind = "tool" THEN s.b ELSE 0
            /\ x.pieces = FirstOf(s.b, s.n) /\ x.pieces \in Items
            /\ \A l \in DOMAIN x.pieces : x.pieces[l][1] = s.b
<1>1. s.b \in Nat /\ s.n \in Nat /\ s.kind \in {"text", "tool", ""}
  BY Zenon, StateIs
<1> DEFINE p == FirstOf(s.b, s.n)
<1>2. p \in Seq(Nat \X Nat) /\ \A l \in DOMAIN p : p[l][1] = s.b
  BY <1>1, FirstIs
<1> HIDE DEF p
<1>3. Block(s.kind, s.b, p) \in Blocks
  BY <1>1, <1>2, BlockType
<1> QED BY <1>2, <1>3 DEF Block, Unfinished, p, Items

\* The streaming turn with the block that is being streamed.
LEMMA WithBlockIs ==
  ASSUME NEW ms \in Seq(Messages), findStreamingTurn(ms) # 0, OpenLast(ms), NEW x \in Blocks
  PROVE  LET ns == WithBlock(ms, x)
             i == findStreamingTurn(ms)
         IN /\ ns \in Seq(Messages) /\ DOMAIN ns = DOMAIN ms /\ Len(ns) = Len(ms) /\ i \in DOMAIN ms
            /\ findStreamingTurn(ns) = i
            /\ StreamingBlocks(ms) \in Seq(Blocks) /\ ms[i] = Turn(TRUE, StreamingBlocks(ms))
            /\ StreamingBlocks(ns) = Append(StreamingBlocks(ms), x)
            /\ Append(StreamingBlocks(ms), x) \in Seq(Blocks)
            /\ ns[i] = Turn(TRUE, Append(StreamingBlocks(ms), x))
            /\ \A j \in DOMAIN ms : j # i => ns[j] = ms[j]
            /\ OpenLast(ns)
            /\ Flat(ns) = Append(Flat(ms), x.pieces)
<1> DEFINE i == findStreamingTurn(ms)
           bs == StreamingBlocks(ms)
           cs == Append(bs, x)
           ns == InTurn(ms, cs)
<1>1. i \in DOMAIN ms /\ bs \in Seq(Blocks) /\ ms[i] = Turn(TRUE, bs) /\ i # 0
  BY TheStreamingTurn
<1>2. /\ cs \in Seq(Blocks) /\ Len(cs) = Len(bs) + 1 /\ DOMAIN cs = 1..(Len(bs) + 1) /\ DOMAIN bs = 1..Len(bs)
      /\ cs[Len(bs) + 1] = x /\ (\A j \in DOMAIN bs : cs[j] = bs[j]) /\ Len(bs) + 1 \in Nat
  <2> HIDE DEF bs
  <2> QED BY <1>1, Appended
<1>3. /\ ns \in Seq(Messages) /\ Len(ns) = Len(ms) /\ DOMAIN ns = DOMAIN ms /\ ns[i] = Turn(TRUE, cs)
      /\ \A j \in DOMAIN ms : j # i => ns[j] = ms[j]
  <2> HIDE DEF cs
  <2> QED BY <1>2, InTurnIs
<1> HIDE DEF i, bs, cs, ns
<1>4. \A j \in DOMAIN ms : (Open(ms[j]) <=> Open(ns[j])) /\ (ms[j].type = "user" <=> ns[j].type = "user")
  BY <1>1, <1>3 DEF Open, Turn
<1>5. findStreamingTurn(ns) = i
  BY <1>3, <1>4, OpenTurnSame DEF i
<1>6. StreamingBlocks(ns) = cs
  BY <1>3, <1>5 DEF StreamingBlocks, Turn
<1>7. OpenLast(ns)
  BY <1>3, <1>4 DEF OpenLast
<1>8. x.pieces \in Items
  BY PiecesOf
<1>9. Shown(ms[i]) = [j \in DOMAIN bs |-> bs[j].pieces] /\ Shown(ms[i]) \in Seq(Items)
  <2>1. ms[i].type = "turn" /\ ms[i].blocks = bs /\ ms[i] \in Messages
    <3>1. \A j \in DOMAIN ms : ms[j] \in Messages
      OBVIOUS
    <3>2. Turn(TRUE, bs).type = "turn" /\ Turn(TRUE, bs).blocks = bs
      BY DEF Turn
    <3>3. ms[i] \in Messages
      BY <1>1, <3>1
    <3> QED BY <1>1, <3>2, <3>3
  <2> QED BY <2>1, ShownType
<1>10. Shown(ns[i]) = [j \in DOMAIN cs |-> cs[j].pieces] /\ Shown(ns[i]) \in Seq(Items)
  <2>1. ns[i].type = "turn" /\ ns[i].blocks = cs /\ ns[i] \in Messages
    <3>1. \A j \in DOMAIN ns : ns[j] \in Messages
      BY <1>3
    <3>2. Turn(TRUE, cs).type = "turn" /\ Turn(TRUE, cs).blocks = cs
      BY DEF Turn
    <3>3. ns[i] \in Messages
      BY <1>1, <1>3, <3>1
    <3> QED BY <1>3, <3>2, <3>3
  <2> QED BY <2>1, ShownType
<1>11. Shown(ns[i]) = Append(Shown(ms[i]), x.pieces)
  <2> DEFINE a == Shown(ms[i])
             c == Shown(ns[i])
             y == x.pieces
             N == Len(bs)
  <2>1. N \in Nat
    BY <1>1
  <2>2. a \in Seq(Items) /\ Len(a) = N /\ \A j \in 1..N : a[j] = bs[j].pieces
    BY <1>2, <1>9, <2>1
  <2>3. c \in Seq(Items) /\ Len(c) = N + 1 /\ \A j \in 1..(N + 1) : c[j] = cs[j].pieces
    BY <1>2, <1>10, <2>1
  <2>4. c[N + 1] = y /\ \A j \in 1..N : c[j] = a[j]
    <3>1. c[N + 1] = y
      BY <1>2, <2>1, <2>3
    <3>2. ASSUME NEW j \in 1..N PROVE c[j] = a[j]
      <4>1. j \in 1..(N + 1) /\ j \in DOMAIN bs
        BY <1>2, <2>1
      <4>2. cs[j] = bs[j]
        BY <1>2, <4>1
      <4>3. c[j] = cs[j].pieces
        BY <2>3, <4>1
      <4>4. a[j] = bs[j].pieces
        BY <2>2
      <4> QED BY <4>2, <4>3, <4>4
    <3> QED BY <3>1, <3>2
  <2> HIDE DEF a, c, y, N
  <2>5. /\ Append(a, y) \in Seq(Items) /\ Len(Append(a, y)) = N + 1 /\ Append(a, y)[N + 1] = y
        /\ \A j \in 1..N : Append(a, y)[j] = a[j]
    BY <1>8, <2>2, Appended DEF y
  <2>6. \A j \in 1..Len(c) : c[j] = Append(a, y)[j]
    <3> SUFFICES ASSUME NEW j \in 1..Len(c) PROVE c[j] = Append(a, y)[j]
      OBVIOUS
    <3>1. j \in 1..N \/ j = N + 1
      BY <2>1, <2>3
    <3> QED BY <2>4, <2>5, <3>1
  <2>7. c = Append(a, y)
    BY <2>3, <2>5, <2>6, SeqEqual
  <2> QED BY <2>7 DEF a, c, y
<1>12. \A j \in DOMAIN ms : j > i => Shown(ms[j]) = <<>>
  <2> SUFFICES ASSUME NEW j \in DOMAIN ms, j > i PROVE Shown(ms[j]) = <<>>
    OBVIOUS
  <2>1. Open(ms[i])
    BY <1>1 DEF Open, Turn
  <2>2. i < j
    BY <1>1
  <2>3. ms[j].type = "user"
    BY <1>1, <2>1, <2>2 DEF OpenLast
  <2> QED BY <2>3 DEF Shown
<1>13. Flat(ns) = Append(Flat(ms), x.pieces)
  BY <1>1, <1>3, <1>8, <1>11, <1>12, FlatLonger
<1> QED BY <1>1, <1>2, <1>3, <1>5, <1>6, <1>7, <1>13 DEF WithBlock, i, bs, cs, ns

\* What the turn held last stands for what it held before.
LEMMA InTurnTwice ==
  ASSUME NEW ms \in Seq(Messages), findStreamingTurn(ms) # 0, OpenLast(ms),
         NEW x \in Blocks, NEW y \in Blocks
  PROVE  InTurn(WithBlock(ms, x), Append(StreamingBlocks(ms), y)) = WithBlock(ms, y)
<1> DEFINE i == findStreamingTurn(ms)
           ns == WithBlock(ms, x)
           ls == WithBlock(ms, y)
           cs == Append(StreamingBlocks(ms), y)
           ks == InTurn(ns, cs)
<1>1. /\ ns \in Seq(Messages) /\ DOMAIN ns = DOMAIN ms /\ Len(ns) = Len(ms)
      /\ findStreamingTurn(ns) = i /\ \A j \in DOMAIN ms : j # i => ns[j] = ms[j]
  BY WithBlockIs
<1>2. /\ ls \in Seq(Messages) /\ DOMAIN ls = DOMAIN ms /\ Len(ls) = Len(ms) /\ cs \in Seq(Blocks)
      /\ ls[i] = Turn(TRUE, cs) /\ \A j \in DOMAIN ms : j # i => ls[j] = ms[j]
  BY WithBlockIs
<1> HIDE DEF ns, cs, ls
<1>3. /\ ks \in Seq(Messages) /\ Len(ks) = Len(ns) /\ ks[i] = Turn(TRUE, cs)
      /\ \A j \in DOMAIN ns : j # i => ks[j] = ns[j]
  <2>1. findStreamingTurn(ns) # 0 /\ ns \in Seq(Messages) /\ cs \in Seq(Blocks)
    BY <1>1, <1>2
  <2> HIDE DEF i
  <2> QED BY <1>1, <2>1, InTurnIs
<1> HIDE DEF ks, i
<1>4. DOMAIN ms = 1..Len(ms)
  OBVIOUS
<1>5. \A j \in 1..Len(ks) : ks[j] = ls[j]
  BY <1>1, <1>2, <1>3, <1>4
<1>6. ks = ls
  BY <1>1, <1>2, <1>3, <1>5, SeqEqual
<1> QED BY <1>6 DEF ks, ls, ns, cs

\* A message of the user comes after the turn, whatever is in it.
LEMMA WithBlockUser ==
  ASSUME NEW ms \in Seq(Messages), findStreamingTurn(ms) # 0, OpenLast(ms),
         NEW x \in Blocks, NEW m \in Messages, m.type = "user", OpenLast(Append(ms, m))
  PROVE  /\ WithBlock(Append(ms, m), x) = Append(WithBlock(ms, x), m)
         /\ findStreamingTurn(Append(ms, m)) # 0
<1> DEFINE i == findStreamingTurn(ms)
           ls == Append(ms, m)
           ns == WithBlock(ms, x)
           ks == WithBlock(ls, x)
           qs == Append(ns, m)
           N == Len(ms)
<1>1. /\ ls \in Seq(Messages) /\ Len(ls) = N + 1 /\ DOMAIN ls = 1..(N + 1) /\ DOMAIN ms = 1..N
      /\ ls[N + 1] = m /\ N + 1 \in DOMAIN ls /\ \A j \in DOMAIN ms : ls[j] = ms[j] /\ j \in DOMAIN ls /\ j # N + 1
  BY Appended
<1>2. findStreamingTurn(ls) = i
  <2>1. ~Open(m)
    BY DEF Open
  <2> QED BY <2>1, OpenTurnMore
<1>3. /\ ns \in Seq(Messages) /\ Len(ns) = N /\ DOMAIN ns = DOMAIN ms /\ i \in DOMAIN ms
      /\ ns[i] = Turn(TRUE, Append(StreamingBlocks(ms), x))
      /\ \A j \in DOMAIN ms : j # i => ns[j] = ms[j]
  BY WithBlockIs
<1>4. StreamingBlocks(ls) = StreamingBlocks(ms)
  BY <1>1, <1>2, <1>3 DEF StreamingBlocks
<1> HIDE DEF ls, ns
<1>5. findStreamingTurn(ls) # 0
  BY <1>2
<1>6. OpenLast(ls)
  BY DEF ls
<1>7. /\ ks \in Seq(Messages) /\ Len(ks) = Len(ls)
      /\ ks[findStreamingTurn(ls)] = Turn(TRUE, Append(StreamingBlocks(ls), x))
      /\ \A j \in DOMAIN ls : j # findStreamingTurn(ls) => ks[j] = ls[j]
  BY <1>1, <1>5, <1>6, WithBlockIs
<1>8. /\ qs \in Seq(Messages) /\ Len(qs) = N + 1 /\ qs[N + 1] = m /\ \A j \in DOMAIN ns : qs[j] = ns[j]
  BY <1>3, Appended
<1> HIDE DEF ks, qs
<1>9. N \in Nat
  OBVIOUS
<1> HIDE DEF i, N
<1>10. \A j \in 1..Len(ks) : ks[j] = qs[j]
  <2> SUFFICES ASSUME NEW j \in 1..Len(ks) PROVE ks[j] = qs[j]
    OBVIOUS
  <2>1. j \in DOMAIN ls /\ (j \in DOMAIN ms \/ j = N + 1)
    BY <1>1, <1>7, <1>9
  <2>2. CASE j = N + 1
    BY <1>1, <1>2, <1>3, <1>7, <1>8, <2>2
  <2>3. CASE j = i
    BY <1>1, <1>2, <1>3, <1>4, <1>7, <1>8, <2>3
  <2>4. CASE j \in DOMAIN ms /\ j # i
    BY <1>1, <1>2, <1>3, <1>7, <1>8, <2>4
  <2> QED BY <2>1, <2>2, <2>3, <2>4
<1>11. ks = qs
  BY <1>1, <1>7, <1>8, <1>10, SeqEqual
<1> QED BY <1>5, <1>11 DEF ks, qs, ls, ns

\* A turn without blocks.
LEMMA EmptyTurn ==
  LET m == Turn(TRUE, <<>>)
  IN m \in Messages /\ Open(m) /\ Shown(m) = <<>> /\ \A L, G : AllStated(L, G, m)
<1> DEFINE e == <<>>
<1>1. e \in Seq(Blocks) /\ DOMAIN e = {}
  OBVIOUS
<1> HIDE DEF e
<1>2. Turn(TRUE, e) \in Messages
  BY <1>1, MessageKinds
<1>3. Turn(TRUE, e).type = "turn" /\ Turn(TRUE, e).streaming = TRUE /\ Turn(TRUE, e).blocks = e
  BY DEF Turn
<1>4. Shown(Turn(TRUE, e)) = [i \in {} |-> e[i].pieces]
  BY <1>1, <1>3 DEF Shown
<1>5. [i \in {} |-> e[i].pieces] = <<>>
  OBVIOUS
<1> QED BY <1>1, <1>2, <1>3, <1>4, <1>5 DEF e, Open, AllStated

\* An empty turn shows nothing.
LEMMA EnsureSettled ==
  ASSUME NEW L \in Seq(Lines), NEW ms \in Seq(Messages), NEW G, Settled(L, ms, G)
  PROVE  LET ns == EnsureTurn(ms)
         IN /\ ns \in Seq(Messages) /\ Settled(L, ns, G) /\ findStreamingTurn(ns) # 0
            /\ findStreamingTurn(ms) # 0 => ns = ms
            /\ findStreamingTurn(ms) = 0 =>
                 ns = Append(ms, Turn(TRUE, <<>>)) /\ StreamingBlocks(ns) = <<>>
<1>1. /\ EnsureTurn(ms) \in Seq(Messages) /\ findStreamingTurn(EnsureTurn(ms)) # 0
      /\ findStreamingTurn(ms) # 0 => EnsureTurn(ms) = ms
      /\ findStreamingTurn(ms) = 0 => EnsureTurn(ms) = Append(ms, Turn(TRUE, <<>>))
  BY EnsureTurnIs
<1>2. CASE findStreamingTurn(ms) # 0
  BY <1>1, <1>2
<1>3. CASE findStreamingTurn(ms) = 0
  <2> DEFINE m == Turn(TRUE, <<>>)
             ns == Append(ms, m)
  <2>1. m \in Messages /\ Open(m) /\ Shown(m) = <<>> /\ AllStated(L, G, m) /\ m.blocks = <<>>
    BY EmptyTurn DEF Turn
  <2> HIDE DEF m
  <2>2. ToldOf(L, G) = ToldOf(L, G) \o Shown(m)
    BY <2>1, ToldType, ConcatEmptySeq
  <2>3. Settled(L, ns, G)
    BY <1>3, <2>1, <2>2, SettledMore
  <2>4. findStreamingTurn(ns) = Len(ms) + 1 /\ ns[Len(ms) + 1] = m
    BY <2>1, OpenTurnMore, Appended
  <2>5. StreamingBlocks(ns) = <<>>
    BY <2>1, <2>4 DEF StreamingBlocks
  <2> QED BY <1>1, <1>3, <2>3, <2>5 DEF m
<1> QED BY <1>2, <1>3

-----------------------------------------------------------------------------
(* What a window shows of an answer *)

\* Where the process was when it said what a window has heard, and what the window shows
\* then: what is settled, and the block that is being streamed if it saw the turn begin.
Follows(base, s, v) ==
  IF findStreamingTurn(base) = 0 THEN v.msgs = base
  ELSE \/ s.at \in {"message", "said"} /\ v.msgs = base
       \/ /\ s.at = "block" /\ s.kind \in {"text", "tool"}
          /\ v.msgs = WithBlock(base, Unfinished(s))
          /\ s.kind = "tool" => s.b # 0 /\ v.tool = s.b

\* A window has settled what it was given and follows the process at s.
LiveOn(L, s, v, G) ==
  \E base \in Seq(Messages) : Settled(L, base, G) /\ Follows(base, s, v)

\* A block is not in the lines that were given while it is streamed.
Unsaid(L, s, G) == s.at = "block" => ~SaidIn(L, G, s.b)

\* A chunk of which the one before it was not shown.
CutsAfter(v, e) ==
  e.type = "chunk" /\ e.kind = "text" /\ e.k > 1 /\
  ~\E i \in DOMAIN v.msgs : v.msgs[i].type = "turn" /\
      \E j \in DOMAIN v.msgs[i].blocks : Contains(v.msgs[i].blocks[j].pieces, <<e.b, e.k - 1>>)

\* What a window shows follows the process through each stream event.
LEMMA LiveStart ==
  ASSUME NEW L \in Seq(Lines), NEW G, NEW v \in Views, NEW s \in States, NEW t, NEW e,
         LiveOn(L, s, v, G), e.type = "start", Streams(s, e, t)
  PROVE  LiveOn(L, t, Streamed(v, e), G)
<1>1. PICK base \in Seq(Messages) : Settled(L, base, G) /\ Follows(base, s, v)
  BY DEF LiveOn
<1>2. s.at = "between" /\ t.at = "message"
  BY DEF Streams, States
<1>3. findStreamingTurn(base) = 0 /\ v.msgs = base
  BY <1>1, <1>2 DEF Follows
<1>4. Streamed(v, e).msgs = Append(base, Turn(TRUE, <<>>))
  BY <1>3, StartIs DEF Streamed
<1>5. EnsureTurn(base) = Append(base, Turn(TRUE, <<>>)) /\ Settled(L, EnsureTurn(base), G)
      /\ EnsureTurn(base) \in Seq(Messages) /\ findStreamingTurn(EnsureTurn(base)) # 0
  BY <1>1, <1>3, EnsureSettled
<1> QED BY <1>2, <1>4, <1>5 DEF LiveOn, Follows

LEMMA LiveBlock ==
  ASSUME NEW L \in Seq(Lines), NEW G, NEW v \in Views, NEW s \in States, NEW t \in States, NEW e \in StreamEvents,
         LiveOn(L, s, v, G), e.type = "block", Streams(s, e, t)
  PROVE  LiveOn(L, t, Streamed(v, e), G)
<1>1. PICK base \in Seq(Messages) : Settled(L, base, G) /\ Follows(base, s, v)
  BY DEF LiveOn
<1>2. /\ s.at = "message" /\ e.b = s.b + 1 /\ e.kind \in {"text", "tool"}
      /\ t.at = "block" /\ t.b = e.b /\ t.kind = e.kind /\ t.n = 0
  BY DEF Streams
<1>3. v.msgs = base
  BY <1>1, <1>2 DEF Follows
<1> DEFINE ms == EnsureTurn(base)
           x == Streamed(v, e)
<1>4. ms \in Seq(Messages) /\ Settled(L, ms, G) /\ findStreamingTurn(ms) # 0
  BY <1>1, EnsureSettled
<1>5. Unfinished(t) = Block(e.kind, e.b, <<>>)
  <2>1. e.b \in Nat
    BY StreamEventIs
  <2>2. FirstOf(e.b, 0) = <<>>
    BY <2>1, FirstIs
  <2> QED BY <1>2, <2>2 DEF Unfinished
<1>6. Streamed(v, e) = onBlockStart(v, e)
  BY <1>2 DEF Streamed
<1>7. /\ x.msgs = InTurn(ms, Append(StreamingBlocks(ms), Block(e.kind, e.b, <<>>)))
      /\ x.tool = IF e.kind = "tool" THEN e.b ELSE v.tool
  BY <1>3, <1>6, BlockStartIs
<1>8. e.b # 0
  <2>1. s.b \in Nat
    BY Zenon, StateIs
  <2> QED BY <1>2, <2>1
<1> HIDE DEF ms, x
<1>9. x.msgs = WithBlock(ms, Unfinished(t))
  BY <1>5, <1>7 DEF WithBlock
<1>10. Follows(ms, t, x)
  BY <1>2, <1>4, <1>7, <1>8, <1>9 DEF Follows
<1> QED BY <1>4, <1>10 DEF LiveOn, x

\* A block with a piece more.
LEMMA ExtendedBlock ==
  ASSUME NEW k, NEW b, NEW p, NEW q
  PROVE  Extended(Block(k, b, p), q) = Block(k, b, Append(p, q))
<1> DEFINE r == Append(p, q)
<1>1. PICK i : \A y : Block(k, b, y) = [kind |-> k, id |-> i, pieces |-> y]
  BY Zenon DEF Block
<1>2. Block(k, b, p).pieces = p
  BY <1>1
<1>3. Extended(Block(k, b, p), q) = [Block(k, b, p) EXCEPT !.pieces = r]
  BY Zenon, <1>2 DEF Extended
<1> HIDE DEF r
<1>4. [Block(k, b, p) EXCEPT !.pieces = r] = Block(k, b, r)
  BY <1>1
<1> QED BY <1>3, <1>4 DEF r

LEMMA PieceMore ==
  ASSUME NEW s \in States, NEW t \in States, s.at = "block", t.b = s.b, t.kind = s.kind, t.n = s.n + 1
  PROVE  Unfinished(t) = Extended(Unfinished(s), <<s.b, t.n>>)
<1>1. s.b \in Nat /\ s.n \in Nat
  BY Zenon, StateIs
<1>2. FirstOf(s.b, t.n) = Append(FirstOf(s.b, s.n), <<s.b, t.n>>)
  BY <1>1, FirstIs
<1> DEFINE p == FirstOf(s.b, s.n)
           q == <<s.b, t.n>>
<1> HIDE DEF p, q
<1>3. Extended(Block(s.kind, s.b, p), q) = Block(s.kind, s.b, Append(p, q))
  BY ExtendedBlock
<1> QED BY Zenon, <1>2, <1>3 DEF Unfinished, p, q

\* The last block of a kind.
LEMMA LastBlock ==
  ASSUME NEW bs \in Seq(Blocks), NEW x \in Blocks
  PROVE  LastOf(Append(bs, x), x.kind) = Len(bs) + 1
<1> DEFINE cs == Append(bs, x)
           i == LastOf(cs, x.kind)
<1>1. /\ cs \in Seq(Blocks) /\ Len(cs) = Len(bs) + 1 /\ cs[Len(bs) + 1] = x /\ Len(bs) + 1 \in DOMAIN cs
  BY Appended
<1> HIDE DEF cs
<1>2. i \in 0..Len(cs) /\ \A j \in DOMAIN cs : cs[j].kind = x.kind => i # 0 /\ j <= i
  BY <1>1, LastOfKind
<1>3. Len(bs) \in Nat
  OBVIOUS
<1> HIDE DEF i
<1>4. i = Len(bs) + 1
  BY <1>1, <1>2, <1>3
<1> QED BY <1>4 DEF i, cs

\* A chunk of text extends the block if the window has the chunks before it.
LEMMA LiveText ==
  ASSUME NEW L \in Seq(Lines), NEW G, NEW v \in Views, NEW s \in States, NEW t \in States, NEW e \in StreamEvents,
         LiveOn(L, s, v, G), e.type = "chunk", e.kind = "text", Streams(s, e, t), Unsaid(L, s, G), ~CutsAfter(v, e)
  PROVE  LiveOn(L, t, Streamed(v, e), G)
<1>1. PICK base \in Seq(Messages) : Settled(L, base, G) /\ Follows(base, s, v)
  BY DEF LiveOn
<1>2. /\ s.at = "block" /\ e.b = s.b /\ s.kind = "text" /\ e.k = s.n + 1
      /\ t.at = "block" /\ t.b = s.b /\ t.kind = "text" /\ t.n = e.k
  BY DEF Streams, States
<1>3. e.b \in Nat /\ e.k \in Nat /\ <<e.b, e.k>> \in Nat \X Nat /\ s.n \in Nat
  BY Zenon, StreamEventIs, StateIs
<1> DEFINE p == <<e.b, e.k>>
           x == Streamed(v, e)
<1>4. /\ x.tool = v.tool
      /\ x.msgs = InTurn(EnsureTurn(v.msgs), TextAdded(StreamingBlocks(EnsureTurn(v.msgs)), e))
  <2>1. x = onTextChunk(v, e)
    BY DEF Streamed
  <2> QED BY <2>1, TextIs
<1> HIDE DEF x
<1>5. CASE findStreamingTurn(base) = 0
  <2> DEFINE ms == EnsureTurn(base)
  <2>1. v.msgs = base
    BY <1>1, <1>5 DEF Follows
  <2>2. ms \in Seq(Messages) /\ Settled(L, ms, G) /\ findStreamingTurn(ms) # 0 /\ StreamingBlocks(ms) = <<>>
    BY <1>1, <1>5, EnsureSettled
  <2>3. e.k = 1
    <3> SUFFICES ASSUME e.k # 1 PROVE FALSE
      OBVIOUS
    <3>1. e.k > 1
      BY <1>2, <1>3
    <3>2. PICK i \in DOMAIN base : base[i].type = "turn" /\
            \E j \in DOMAIN base[i].blocks : Contains(base[i].blocks[j].pieces, <<e.b, e.k - 1>>)
      BY <2>1, <3>1 DEF CutsAfter
    <3>3. PICK j \in DOMAIN base[i].blocks : Contains(base[i].blocks[j].pieces, <<e.b, e.k - 1>>)
      BY <3>2
    <3>4. Stated(L, G, base[i].blocks[j])
      BY <1>1, <3>2, <3>3 DEF Settled, AllStated
    <3> DEFINE q == base[i].blocks[j].pieces
    <3>5. PICK l \in DOMAIN q : q[l] = <<e.b, e.k - 1>>
      BY <3>3 DEF Contains
    <3>6. SaidIn(L, G, e.b)
      BY <3>4, <3>5 DEF Stated
    <3> QED BY <1>2, <3>6 DEF Unsaid
  <2>4. Unfinished(t) = Block("text", e.b, <<p>>)
    <3>1. FirstOf(e.b, 1) = <<<<e.b, 1>>>>
      BY <1>3, FirstIs
    <3> QED BY <1>2, <2>3, <3>1 DEF Unfinished
  <2>5. TextAdded(<<>>, e) = Append(<<>>, Block("text", e.b, <<p>>))
    <3> DEFINE z == <<>>
    <3>1. z \in Seq(Blocks) /\ Len(z) = 0
      OBVIOUS
    <3> HIDE DEF z
    <3>2. LastOf(z, "text") \in 0..Len(z)
      BY <3>1, LastOfKind
    <3>3. LastOf(z, "text") = 0
      BY <3>1, <3>2
    <3> QED BY <3>3 DEF TextAdded, z
  <2>6. x.msgs = WithBlock(ms, Unfinished(t))
    BY <1>4, <2>1, <2>2, <2>4, <2>5 DEF WithBlock
  <2> HIDE DEF ms
  <2>7. Follows(ms, t, x)
    BY <1>2, <2>2, <2>6 DEF Follows
  <2> QED BY <2>2, <2>7 DEF LiveOn, x
<1>6. CASE findStreamingTurn(base) # 0
  <2> DEFINE y == Unfinished(s)
             z == Unfinished(t)
             bs == StreamingBlocks(base)
             ns == WithBlock(base, y)
             cs == Append(bs, y)
  <2>1. v.msgs = ns
    BY <1>1, <1>2, <1>6 DEF Follows
  <2>2. y \in Blocks /\ y.kind = "text" /\ z \in Blocks
    BY <1>2, UnfinishedIs
  <2>3. z = Extended(y, p)
    BY <1>2, PieceMore
  <2>4. OpenLast(base)
    BY <1>1 DEF Settled
  <2>5. /\ ns \in Seq(Messages) /\ findStreamingTurn(ns) # 0 /\ StreamingBlocks(ns) = cs /\ bs \in Seq(Blocks)
        /\ cs \in Seq(Blocks)
    <3> HIDE DEF y
    <3> QED BY <1>6, <2>2, <2>4, WithBlockIs
  <2>6. EnsureTurn(v.msgs) = ns
    <3> HIDE DEF ns
    <3> QED BY <2>1, <2>5, EnsureTurnIs
  <2> HIDE DEF y, z, bs, ns, p
  <2>7. TextAdded(cs, e) = Append(bs, z)
    <3> DEFINE N == Len(bs) + 1
               as == Append(bs, z)
    <3>1. LastOf(cs, "text") = N /\ N # 0 /\ N \in Nat
      BY <2>2, <2>5, LastBlock
    <3>2. /\ N \in DOMAIN cs /\ cs[N] = y /\ Len(cs) = N /\ DOMAIN cs = 1..N /\ \A j \in DOMAIN bs : cs[j] = bs[j]
      BY <2>2, <2>5, Appended
    <3>3. /\ as \in Seq(Blocks) /\ as[N] = z /\ Len(as) = N /\ DOMAIN bs = 1..(N - 1) /\ \A j \in DOMAIN bs : as[j] = bs[j]
      BY <2>2, <2>5, Appended
    <3> HIDE DEF N, as, cs
    <3>4. TextAdded(cs, e) = [cs EXCEPT ![N] = Extended(cs[N], p)]
      BY <3>1 DEF TextAdded, p
    <3>5. TextAdded(cs, e) = [cs EXCEPT ![N] = z]
      BY <2>3, <3>2, <3>4
    <3> DEFINE ks == [cs EXCEPT ![N] = z]
    <3>6. ks \in Seq(Blocks) /\ Len(ks) = Len(cs) /\ ks[N] = z /\ \A j \in DOMAIN cs : j # N => ks[j] = cs[j]
      BY <2>2, <2>5, <3>2, Replaced
    <3> HIDE DEF ks
    <3>7. \A j \in 1..Len(ks) : ks[j] = as[j]
      <4> SUFFICES ASSUME NEW j \in 1..Len(ks) PROVE ks[j] = as[j]
        OBVIOUS
      <4>1. j = N \/ j \in DOMAIN bs
        BY <3>1, <3>2, <3>3, <3>6
      <4> QED BY <3>1, <3>2, <3>3, <3>6, <4>1
    <3>8. ks = as
      BY <3>2, <3>3, <3>6, <3>7, SeqEqual
    <3> QED BY <3>5, <3>8 DEF ks, as
  <2>8. x.msgs = InTurn(ns, Append(bs, z))
    BY <1>4, <2>5, <2>6, <2>7
  <2>9. InTurn(ns, Append(bs, z)) = WithBlock(base, z)
    BY <1>6, <2>2, <2>4, InTurnTwice DEF ns, bs
  <2>10. Follows(base, t, x)
    BY <1>2, <1>6, <2>8, <2>9 DEF Follows, z
  <2> QED BY <1>1, <2>10 DEF LiveOn, x
<1> QED BY <1>5, <1>6

\* The other blocks of the open turn are not the one that is being streamed.
LEMMA OtherBlocks ==
  ASSUME NEW L, NEW G, NEW ms \in Seq(Messages), Settled(L, ms, G), findStreamingTurn(ms) # 0,
         NEW b, b # 0, ~SaidIn(L, G, b)
  PROVE  \A k \in DOMAIN StreamingBlocks(ms) : StreamingBlocks(ms)[k].id # b
<1> DEFINE i == findStreamingTurn(ms)
           bs == StreamingBlocks(ms)
<1>1. i \in DOMAIN ms /\ ms[i] = Turn(TRUE, bs)
  BY TheStreamingTurn
<1> HIDE DEF i, bs
<1>2. Turn(TRUE, bs).type = "turn" /\ Turn(TRUE, bs).blocks = bs
  BY DEF Turn
<1>3. \A k \in DOMAIN bs : Stated(L, G, bs[k])
  BY <1>1, <1>2 DEF Settled, AllStated
<1>4. \A k \in DOMAIN bs : bs[k].id # b
  BY <1>3 DEF Stated
<1> QED BY <1>4 DEF bs

\* A chunk of input extends the tool the window is at.
LEMMA LiveInput ==
  ASSUME NEW L \in Seq(Lines), NEW G, NEW v \in Views, NEW s \in States, NEW t \in States, NEW e \in StreamEvents,
         LiveOn(L, s, v, G), e.type = "chunk", e.kind # "text", Streams(s, e, t), Unsaid(L, s, G)
  PROVE  LiveOn(L, t, Streamed(v, e), G)
<1>1. PICK base \in Seq(Messages) : Settled(L, base, G) /\ Follows(base, s, v)
  BY DEF LiveOn
<1>2. /\ s.at = "block" /\ e.b = s.b /\ s.kind = e.kind /\ e.k = s.n + 1
      /\ t.at = "block" /\ t.b = s.b /\ t.kind = s.kind /\ t.n = e.k
  BY DEF Streams, States
<1>3. e.b \in Nat /\ e.k \in Nat /\ <<e.b, e.k>> \in Nat \X Nat
  BY StreamEventIs
<1> DEFINE p == <<e.b, e.k>>
           x == Streamed(v, e)
<1>4. /\ x.tool = v.tool
      /\ IF v.tool = 0 \/ findStreamingTurn(v.msgs) = 0 THEN x = v
         ELSE x.msgs = InTurn(v.msgs, InputAdded(StreamingBlocks(v.msgs), v.tool, p))
  <2>1. x = onInputJsonChunk(v, e)
    BY DEF Streamed
  <2> QED BY <2>1, InputIs
<1> HIDE DEF x
<1>5. CASE findStreamingTurn(base) = 0
  <2>1. v.msgs = base /\ x.msgs = base
    BY <1>1, <1>4, <1>5 DEF Follows
  <2>2. Follows(base, t, x)
    BY <1>5, <2>1 DEF Follows
  <2> QED BY <1>1, <2>2 DEF LiveOn, x
<1>6. CASE findStreamingTurn(base) # 0
  <2> DEFINE y == Unfinished(s)
             z == Unfinished(t)
             bs == StreamingBlocks(base)
             ns == WithBlock(base, y)
             cs == Append(bs, y)
             b == s.b
  <2>1. v.msgs = ns /\ s.kind = "tool" /\ b # 0 /\ v.tool = b
    BY <1>1, <1>2, <1>6 DEF Follows
  <2>2. y \in Blocks /\ y.id = b /\ z \in Blocks
    BY <2>1, UnfinishedIs
  <2>3. z = Extended(y, p)
    BY <1>2, PieceMore
  <2>4. OpenLast(base)
    BY <1>1 DEF Settled
  <2>5. /\ ns \in Seq(Messages) /\ findStreamingTurn(ns) # 0 /\ StreamingBlocks(ns) = cs /\ bs \in Seq(Blocks)
        /\ cs \in Seq(Blocks)
    <3> HIDE DEF y
    <3> QED BY <1>6, <2>2, <2>4, WithBlockIs
  <2>6. \A k \in DOMAIN bs : bs[k].id # b
    BY <1>1, <1>2, <1>6, <2>1, OtherBlocks DEF Unsaid
  <2> HIDE DEF y, z, bs, ns, p, b
  <2>7. InputAdded(cs, b, p) = Append(bs, z)
    <3> DEFINE N == Len(bs) + 1
               as == Append(bs, z)
               ks == InputAdded(cs, b, p)
    <3>1. N \in Nat
      BY <2>5
    <3>2. /\ cs[N] = y /\ Len(cs) = N /\ DOMAIN cs = 1..N
          /\ \A j \in DOMAIN bs : cs[j] = bs[j] /\ j # N
      BY <2>2, <2>5, Appended
    <3>3. /\ as \in Seq(Blocks) /\ as[N] = z /\ Len(as) = N /\ DOMAIN bs = 1..(N - 1) /\ \A j \in DOMAIN bs : as[j] = bs[j]
      BY <2>2, <2>5, Appended
    <3>4. ks \in Seq(Blocks) /\ Len(ks) = Len(cs)
      BY <1>3, <2>5, InputAddedType DEF p
    <3>5. \A j \in DOMAIN cs : ks[j] = IF cs[j].id = b THEN Extended(cs[j], p) ELSE cs[j]
      BY DEF InputAdded
    <3> HIDE DEF N, as, cs, ks
    <3>6. \A j \in 1..Len(ks) : ks[j] = as[j]
      <4> SUFFICES ASSUME NEW j \in 1..Len(ks) PROVE ks[j] = as[j]
        OBVIOUS
      <4>1. j \in DOMAIN cs /\ (j = N \/ j \in DOMAIN bs)
        BY <3>1, <3>2, <3>3, <3>4
      <4>2. CASE j = N
        BY <2>2, <2>3, <3>2, <3>3, <3>5, <4>1, <4>2
      <4>3. CASE j \in DOMAIN bs
        BY <2>6, <3>2, <3>3, <3>5, <4>1, <4>3
      <4> QED BY <4>1, <4>2, <4>3
    <3>7. ks = as
      BY <3>2, <3>3, <3>4, <3>6, SeqEqual
    <3> QED BY <3>7 DEF ks, as
  <2>8. x.msgs = InTurn(ns, Append(bs, z))
    BY <1>4, <2>1, <2>5, <2>7
  <2>9. InTurn(ns, Append(bs, z)) = WithBlock(base, z)
    BY <1>6, <2>2, <2>4, InTurnTwice DEF ns, bs
  <2>10. Follows(base, t, x)
    BY <1>2, <1>4, <1>6, <2>1, <2>8, <2>9 DEF Follows, z, b
  <2> QED BY <1>1, <2>10 DEF LiveOn, x
<1> QED BY <1>5, <1>6

LEMMA LiveStop ==
  ASSUME NEW L, NEW G, NEW v \in Views, NEW s \in States, NEW t, NEW e,
         LiveOn(L, s, v, G), e.type = "stop", Streams(s, e, t)
  PROVE  LiveOn(L, t, Streamed(v, e), G)
<1>1. PICK base \in Seq(Messages) : Settled(L, base, G) /\ Follows(base, s, v)
  BY DEF LiveOn
<1>2. s.at = "said" /\ t.at = "message"
  BY DEF Streams, States
<1>3. v.msgs = base
  BY <1>1, <1>2 DEF Follows
<1>4. Streamed(v, e).msgs = base
  BY <1>3, BlockStopIs DEF Streamed
<1>5. Follows(base, t, Streamed(v, e))
  BY <1>2, <1>4 DEF Follows
<1> QED BY <1>1, <1>5 DEF LiveOn

LEMMA LiveEnd ==
  ASSUME NEW L, NEW G, NEW v \in Views, NEW s \in States, NEW t, NEW e,
         LiveOn(L, s, v, G), e.type = "end", Streams(s, e, t)
  PROVE  LiveOn(L, t, Streamed(v, e), G)
<1>1. PICK base \in Seq(Messages) : Settled(L, base, G) /\ Follows(base, s, v)
  BY DEF LiveOn
<1>2. s.at = "message"
  BY DEF Streams
<1>3. v.msgs = base
  BY <1>1, <1>2 DEF Follows
<1> DEFINE x == Streamed(v, e)
           i == findStreamingTurn(base)
           bs == StreamingBlocks(base)
           m == Turn(FALSE, bs)
<1>4. (i = 0 => x = v) /\ (i # 0 => x.msgs = [base EXCEPT ![i] = m])
  BY <1>3, EndIs DEF Streamed
<1>5. CASE i = 0
  <2>1. Follows(base, t, x)
    BY <1>3, <1>4, <1>5 DEF Follows
  <2> QED BY <1>1, <2>1 DEF LiveOn
<1>6. CASE i # 0
  <2> DEFINE ns == [base EXCEPT ![i] = m]
  <2>1. i \in DOMAIN base /\ bs \in Seq(Blocks) /\ base[i] = Turn(TRUE, bs)
    BY <1>6, TheStreamingTurn
  <2>2. \A j \in DOMAIN base : Open(base[j]) => j <= i
    BY StreamingTurn
  <2> HIDE DEF i, bs, x
  <2>3. m \in Messages /\ m.type = "turn" /\ m.blocks = bs /\ m.streaming = FALSE
    BY <2>1, MessageKinds DEF Turn
  <2>4. Turn(TRUE, bs).type = "turn" /\ Turn(TRUE, bs).blocks = bs /\ Turn(TRUE, bs).streaming = TRUE
    BY DEF Turn
  <2> HIDE DEF m
  <2>5. /\ ns \in Seq(Messages) /\ DOMAIN ns = DOMAIN base /\ ns[i] = m /\ Len(ns) = Len(base)
        /\ \A j \in DOMAIN base : j # i => ns[j] = base[j]
    BY <2>1, <2>3, Replaced
  <2> HIDE DEF ns
  <2>6. \A j \in DOMAIN base : Shown(ns[j]) = Shown(base[j])
    BY <2>1, <2>3, <2>4, <2>5 DEF Shown
  <2>7. Flat(ns) = Flat(base)
    BY <2>5, <2>6, FlatSame
  <2>8. \A j \in DOMAIN ns : AllStated(L, G, ns[j])
    <3> SUFFICES ASSUME NEW j \in DOMAIN ns PROVE AllStated(L, G, ns[j])
      OBVIOUS
    <3>1. AllStated(L, G, base[j])
      BY <1>1, <2>5 DEF Settled
    <3>2. CASE j # i
      BY <2>5, <3>1, <3>2
    <3>3. CASE j = i
      BY <2>1, <2>3, <2>4, <2>5, <3>1, <3>3 DEF AllStated
    <3> QED BY <3>2, <3>3
  <2>9. \A j \in DOMAIN ns : ~Open(ns[j])
    <3> SUFFICES ASSUME NEW j \in DOMAIN ns, Open(ns[j]) PROVE FALSE
      OBVIOUS
    <3>1. j # i
      BY <2>3, <2>5 DEF Open
    <3>2. Open(base[j]) /\ j <= i
      BY <2>2, <2>5, <3>1
    <3>3. j < i
      <4>1. DOMAIN base = 1..Len(base) /\ Len(base) \in Nat
        OBVIOUS
      <4> QED BY <2>1, <2>5, <3>1, <3>2, <4>1
    <3>4. base[i].type = "user"
      BY <1>1, <2>1, <2>5, <3>2, <3>3 DEF Settled, OpenLast
    <3> QED BY <2>1, <2>4, <3>4
  <2>10. Settled(L, ns, G)
    BY <1>1, <2>7, <2>8, <2>9 DEF Settled, OpenLast
  <2>11. findStreamingTurn(ns) = 0
    <3>1. 0 \in 0..Len(ns) /\ DOMAIN ns = 1..Len(ns)
      BY <2>5
    <3> QED BY <2>5, <2>9, <3>1, OpenTurnIs
  <2>12. Follows(ns, t, x)
    BY <1>4, <1>6, <2>11 DEF Follows, ns
  <2> QED BY <2>5, <2>10, <2>12 DEF LiveOn, x
<1> QED BY <1>5, <1>6

\* All that is streamed.
LEMMA LiveStreamed ==
  ASSUME NEW L \in Seq(Lines), NEW G, NEW v \in Views, NEW s \in States, NEW t \in States, NEW e \in StreamEvents,
         LiveOn(L, s, v, G), Streams(s, e, t), Unsaid(L, s, G), ~CutsAfter(v, e)
  PROVE  LiveOn(L, t, Streamed(v, e), G)
<1>1. e.type \in {"start", "block", "chunk", "stop", "end"}
  BY StreamEventIs
<1> QED BY <1>1, LiveStart, LiveBlock, LiveText, LiveInput, LiveStop, LiveEnd

\* What a line that is said leaves of a block that was streamed: all of it.
LEMMA SaidStreamed ==
  ASSUME NEW L, NEW G, NEW v \in Views, NEW base \in Seq(Messages), Settled(L, base, G),
         findStreamingTurn(base) # 0, NEW s \in States, s.kind \in {"text", "tool"}, s.n = Pieces,
         s.kind = "tool" => s.b # 0, ~SaidIn(L, G, s.b), v.msgs = WithBlock(base, Unfinished(s))
  PROVE  onMessageAssistant(v, s.b, s.kind).msgs = v.msgs
<1> DEFINE x == Unfinished(s)
           ns == WithBlock(base, x)
           i == findStreamingTurn(base)
           bs == StreamingBlocks(base)
           cs == Append(bs, x)
           b == s.b
           y == onMessageAssistant(v, b, s.kind)
<1>1. b \in Nat /\ s.kind \in {"text", "tool", ""} /\ x \in Blocks /\ x.kind = s.kind
      /\ x.id = (IF s.kind = "tool" THEN b ELSE 0) /\ x.pieces = Whole(b)
  <2>1. b \in Nat
    BY Zenon, StateIs
  <2>2. FirstOf(b, Pieces) = Whole(b)
    BY <2>1, Constants, FirstIs
  <2> QED BY <2>1, <2>2, UnfinishedIs
<1>2. OpenLast(base)
  BY DEF Settled
<1>3. /\ ns \in Seq(Messages) /\ DOMAIN ns = DOMAIN base /\ i \in DOMAIN base
      /\ findStreamingTurn(ns) = i /\ StreamingBlocks(ns) = cs /\ bs \in Seq(Blocks) /\ cs \in Seq(Blocks)
      /\ ns[i] = Turn(TRUE, cs) /\ \A j \in DOMAIN base : j # i => ns[j] = base[j]
  <2> HIDE DEF x
  <2> QED BY <1>1, <1>2, WithBlockIs
<1>4. y.msgs = IF s.kind = "tool" /\ TurnOfTool(ns, b) # 0 THEN Patched(ns, b)
               ELSE IF i # 0 THEN InTurn(ns, SaidAdded(cs, b, s.kind))
               ELSE Append(ns, Turn(FALSE, <<Block(s.kind, b, Whole(b))>>))
  <2> HIDE DEF ns, b, i, cs
  <2>1. v.msgs = ns
    BY DEF ns
  <2> HIDE DEF y
  <2>2. onMessageAssistant(v, b, s.kind).msgs =
          IF s.kind = "tool" /\ TurnOfTool(ns, b) # 0 THEN Patched(ns, b)
          ELSE IF findStreamingTurn(ns) # 0 THEN InTurn(ns, SaidAdded(StreamingBlocks(ns), b, s.kind))
          ELSE Append(ns, Turn(FALSE, <<Block(s.kind, b, Whole(b))>>))
    BY <1>1, <2>1, SaidIs
  <2> QED BY <1>3, <2>2 DEF y
<1>5. Turn(TRUE, cs).type = "turn" /\ Turn(TRUE, cs).blocks = cs /\ Turn(TRUE, cs).streaming = TRUE
  BY DEF Turn
<1>6. /\ cs[Len(bs) + 1] = x /\ Len(bs) + 1 \in DOMAIN cs /\ \A j \in DOMAIN bs : cs[j] = bs[j]
      /\ \A j \in DOMAIN cs : j = Len(bs) + 1 \/ j \in DOMAIN bs
  <2>1. x \in Blocks /\ bs \in Seq(Blocks)
    BY <1>1, <1>3
  <2> HIDE DEF x, bs
  <2> QED BY ONLY <2>1, Appended
<1>7. CASE s.kind = "text"
  <2>1. LastOf(cs, "text") = Len(bs) + 1
    <3> HIDE DEF x, bs
    <3> QED BY <1>1, <1>3, <1>7, LastBlock
  <2>2. Len(bs) + 1 # 0
    <3>1. Len(bs) \in Nat
      BY <1>3
    <3> QED BY <3>1
  <2> HIDE DEF cs, bs, ns, x
  <2>3. SaidAdded(cs, b, s.kind) = cs
    BY <1>7, <2>1, <2>2 DEF SaidAdded
  <2>4. y.msgs = InTurn(ns, cs)
    BY <1>4, <1>7, <2>3
  <2> DEFINE ks == InTurn(ns, cs)
  <2>5. /\ ks \in Seq(Messages) /\ Len(ks) = Len(ns) /\ DOMAIN ks = DOMAIN ns /\ ks[i] = Turn(TRUE, cs)
        /\ \A j \in DOMAIN ns : j # i => ks[j] = ns[j]
    <3>1. findStreamingTurn(ns) # 0
      BY <1>3
    <3> HIDE DEF i
    <3> QED BY <1>3, <3>1, InTurnIs
  <2> HIDE DEF ks, i, y
  <2>6. \A j \in 1..Len(ks) : ks[j] = ns[j]
    <3>1. DOMAIN ns = 1..Len(ns)
      BY <1>3
    <3> QED BY <1>3, <2>5, <3>1
  <2>7. ks = ns
    BY <1>3, <2>5, <2>6, SeqEqual
  <2> QED BY <2>4, <2>7 DEF ks, ns, y, x
<1>8. CASE s.kind = "tool"
  <2> DEFINE k == TurnOfTool(ns, b)
  <2>1. \A j \in DOMAIN bs : bs[j].id # b
    BY <1>8, OtherBlocks
  <2>2. \A j \in DOMAIN base : ~Has(base[j], b)
    BY <1>8 DEF Has, Settled, AllStated, Stated
  <2> HIDE DEF x, bs, cs, ns, i, b, y
  <2>3. Has(ns[i], b)
    <3>1. x.id = b
      BY <1>1, <1>8
    <3>2. \E j \in DOMAIN cs : cs[j].id = b
      BY <1>6, <3>1
    <3> QED BY <1>3, <1>5, <3>2 DEF Has
  <2>4. \A j \in DOMAIN ns : Has(ns[j], b) => j = i
    BY <1>3, <2>2
  <2>5. /\ k \in 0..Len(ns) /\ (k # 0 => Has(ns[k], b))
        /\ \A j \in DOMAIN ns : Has(ns[j], b) => k # 0 /\ j <= k
    BY <1>3, LastWithTool
  <2>6. k = i
    <3>1. DOMAIN ns = 1..Len(ns) /\ Len(ns) \in Nat
      BY <1>3
    <3>2. k # 0
      BY <1>3, <2>3, <2>5
    <3> HIDE DEF k
    <3>3. k \in DOMAIN ns /\ Has(ns[k], b)
      BY <2>5, <3>1, <3>2
    <3> QED BY <2>4, <3>3
  <2>7. k # 0 /\ k \in DOMAIN ns
    <3>1. k # 0
      BY <1>3, <2>3, <2>5
    <3> HIDE DEF k
    <3> QED BY <1>3, <2>6, <3>1
  <2>8. Patched(ns, b) = [ns EXCEPT ![k] = Turn(ns[k].streaming, WholeIn(ns[k].blocks, b))]
    BY <1>1, <1>3, <2>7, PatchedIs
  <2> HIDE DEF k
  <2>9. Patched(ns, b) = [ns EXCEPT ![i] = Turn(TRUE, WholeIn(cs, b))]
    BY <1>3, <1>5, <2>6, <2>8
  <2>10. WholeIn(cs, b) = cs
    <3> DEFINE ws == WholeIn(cs, b)
    <3>1. ws \in Seq(Blocks) /\ Len(ws) = Len(cs) /\ DOMAIN ws = DOMAIN cs
      BY <1>1, <1>3, WholeInType
    <3>2. \A j \in DOMAIN cs : ws[j] = IF cs[j].id = b THEN [cs[j] EXCEPT !.pieces = Whole(b)] ELSE cs[j]
      BY DEF WholeIn
    <3> HIDE DEF ws
    <3>3. [x EXCEPT !.pieces = Whole(b)] = x
      <4> DEFINE p == Whole(b)
      <4> HIDE DEF p
      <4>1. x \in Blocks /\ x.pieces = p
        BY <1>1 DEF p
      <4>2. [x EXCEPT !.pieces = p] = x
        BY <4>1 DEF Blocks
      <4> QED BY <4>2 DEF p
    <3>4. \A j \in 1..Len(ws) : ws[j] = cs[j]
      <4> SUFFICES ASSUME NEW j \in 1..Len(ws) PROVE ws[j] = cs[j]
        OBVIOUS
      <4>1. j \in DOMAIN cs
        BY <1>3, <3>1
      <4>2. CASE j \in DOMAIN bs
        BY <1>6, <2>1, <3>2, <4>1, <4>2
      <4>3. CASE j = Len(bs) + 1
        BY <1>6, <3>2, <3>3, <4>1, <4>3
      <4> QED BY <1>6, <4>1, <4>2, <4>3
    <3>5. ws = cs
      BY <1>3, <3>1, <3>4, SeqEqual
    <3> QED BY <3>5 DEF ws
  <2>11. Patched(ns, b) = [ns EXCEPT ![i] = ns[i]]
    BY <1>3, <2>9, <2>10
  <2>12. [ns EXCEPT ![i] = ns[i]] = ns
    BY <1>3
  <2>13. y.msgs = ns
    BY <1>4, <1>8, <2>7, <2>11, <2>12 DEF k
  <2> QED BY <2>13 DEF y, ns, x, b
<1> QED BY <1>7, <1>8

\* The block is settled with the line that says it.
LEMMA LiveSaid ==
  ASSUME PromptsType, NEW v \in Views, log \in Seq(Lines), Unique, Numbers(log),
         NEW G, G \subseteq DOMAIN log, NEW n \in DOMAIN log, \A m \in G : m < n,
         NEW base \in Seq(Messages), Settled(log, base, G), findStreamingTurn(base) # 0,
         NEW s \in States, NEW t \in States, Follows(base, s, v), log[n].type = "said", HeardLine(s, log[n], t)
  PROVE  LiveOn(log, t, Reduced(v, log[n]), G \cup {n})
<1> DEFINE line == log[n]
           b == s.b
           x == Unfinished(s)
           ns == WithBlock(base, x)
           H == G \cup {n}
           y == Reduced(v, line)
           i == findStreamingTurn(base)
<1>1. s.at = "block" /\ s.n = Pieces /\ line.n = b /\ line.kind = s.kind /\ t.at = "said"
  BY DEF HeardLine, States
<1>2. v.msgs = ns /\ s.kind \in {"text", "tool"} /\ (s.kind = "tool" => b # 0)
  BY <1>1 DEF Follows
<1>3. line \in Lines /\ n \in Nat /\ n \notin G
  <2>1. log[n] \in Lines /\ n \in Nat
    OBVIOUS
  <2> QED BY <2>1
<1>4. ~SaidIn(log, G, b)
  BY <1>1, <1>3 DEF SaidIn, Unique
<1>5. y = onMessageAssistant(v, b, s.kind)
  BY <1>1 DEF Reduced
<1>6. y.msgs = ns
  BY <1>1, <1>2, <1>4, <1>5, SaidStreamed
<1>7. x \in Blocks /\ x.id \in {0, b} /\ x.pieces = Whole(b) /\ \A l \in DOMAIN x.pieces : x.pieces[l][1] = b
  <2>1. b \in Nat
    BY Zenon, StateIs
  <2>2. FirstOf(b, Pieces) = Whole(b)
    BY <2>1, Constants, FirstIs
  <2> QED BY <1>1, <2>2, UnfinishedIs
<1>8. OpenLast(base)
  BY DEF Settled
<1>9. /\ ns \in Seq(Messages) /\ DOMAIN ns = DOMAIN base /\ i \in DOMAIN base
      /\ findStreamingTurn(ns) = i /\ StreamingBlocks(base) \in Seq(Blocks)
      /\ base[i] = Turn(TRUE, StreamingBlocks(base))
      /\ ns[i] = Turn(TRUE, Append(StreamingBlocks(base), x))
      /\ (\A j \in DOMAIN base : j # i => ns[j] = base[j])
      /\ OpenLast(ns) /\ Flat(ns) = Append(Flat(base), x.pieces)
  <2> HIDE DEF x
  <2> QED BY <1>7, <1>8, WithBlockIs
<1>10. ToldOf(log, H) = Append(ToldOf(log, G), Whole(b))
  <2>1. Says(line) = Whole(b)
    BY <1>1 DEF Says
  <2> QED BY <2>1, ToldMore DEF Said
<1>11. Flat(ns) = ToldOf(log, H)
  BY <1>7, <1>9, <1>10 DEF Settled
<1>12. SaidIn(log, H, b)
  BY <1>1 DEF SaidIn
<1>13. Stated(log, H, x)
  <2> HIDE DEF x, b, H
  <2> QED BY <1>7, <1>12 DEF Stated
<1> HIDE DEF x, b, H, ns, i, y
<1>14. \A j \in DOMAIN ns : AllStated(log, H, ns[j])
  <2> SUFFICES ASSUME NEW j \in DOMAIN ns PROVE AllStated(log, H, ns[j])
    OBVIOUS
  <2>1. AllStated(log, H, base[j])
    BY <1>9, AllStatedMore DEF Settled, H
  <2>2. CASE j # i
    BY <1>9, <2>1, <2>2
  <2>3. CASE j = i
    <3> DEFINE bs == StreamingBlocks(base)
               cs == Append(bs, x)
    <3>1. /\ \A l \in DOMAIN bs : cs[l] = bs[l]
          /\ cs[Len(bs) + 1] = x /\ \A l \in DOMAIN cs : l = Len(bs) + 1 \/ l \in DOMAIN bs
      <4> HIDE DEF bs
      <4> QED BY <1>7, <1>9, Appended DEF bs
    <3> HIDE DEF bs, cs
    <3>2. ns[j] = Turn(TRUE, cs) /\ base[j] = Turn(TRUE, bs)
      BY <1>9, <2>3 DEF bs, cs
    <3>3. Turn(TRUE, cs).blocks = cs /\ Turn(TRUE, bs).blocks = bs /\ Turn(TRUE, bs).type = "turn"
      BY DEF Turn
    <3>4. \A l \in DOMAIN bs : Stated(log, H, bs[l])
      BY <2>1, <3>2, <3>3 DEF AllStated
    <3>5. \A l \in DOMAIN cs : Stated(log, H, cs[l])
      BY <1>13, <3>1, <3>4
    <3> QED BY <3>2, <3>3, <3>5 DEF AllStated
  <2> QED BY <2>2, <2>3
<1>15. Settled(log, ns, H)
  BY <1>9, <1>11, <1>14 DEF Settled
<1>16. Follows(ns, t, y)
  BY <1>1, <1>6, <1>9 DEF Follows, i
<1> QED BY <1>9, <1>15, <1>16 DEF LiveOn, H, y

\* A message of the user.
LEMMA LiveUser ==
  ASSUME NEW L \in Seq(Lines), NEW G, NEW v \in Views, NEW s \in States, LiveOn(L, s, v, G),
         NEW m \in Messages, m.type = "user", NEW y, y.msgs = Append(v.msgs, m), y.tool = v.tool
  PROVE  LiveOn(L, s, y, G)
<1>1. PICK base \in Seq(Messages) : Settled(L, base, G) /\ Follows(base, s, v)
  BY DEF LiveOn
<1> DEFINE ls == Append(base, m)
<1>2. Settled(L, ls, G) /\ ls \in Seq(Messages)
  BY <1>1, SettledUser
<1>3. findStreamingTurn(ls) = findStreamingTurn(base)
  <2>1. ~Open(m)
    BY DEF Open
  <2> QED BY <2>1, OpenTurnMore
<1>4. ASSUME findStreamingTurn(base) = 0 PROVE Follows(ls, s, y)
  BY <1>1, <1>3, <1>4 DEF Follows
<1>5. ASSUME findStreamingTurn(base) # 0 PROVE Follows(ls, s, y)
  <2>1. CASE s.at \in {"message", "said"} /\ v.msgs = base
    BY <1>3, <1>5, <2>1 DEF Follows
  <2>2. CASE ~(s.at \in {"message", "said"} /\ v.msgs = base)
    <3> DEFINE x == Unfinished(s)
    <3>1. /\ s.at = "block" /\ s.kind \in {"text", "tool"} /\ v.msgs = WithBlock(base, x)
          /\ (s.kind = "tool" => s.b # 0 /\ v.tool = s.b)
      BY <1>1, <1>5, <2>2 DEF Follows
    <3>2. x \in Blocks /\ OpenLast(base) /\ OpenLast(ls)
      BY <1>1, <1>2, UnfinishedIs DEF Settled
    <3>3. WithBlock(ls, x) = Append(WithBlock(base, x), m)
      <4> HIDE DEF x
      <4> QED BY <1>1, <1>5, <3>2, WithBlockUser
    <3>4. Follows(ls, s, y)
      BY <1>3, <1>5, <3>1, <3>3 DEF Follows
    <3> QED BY <3>4
  <2> QED BY <2>1, <2>2
<1>6. Follows(ls, s, y)
  BY <1>4, <1>5
<1> QED BY <1>2, <1>6 DEF LiveOn

\* All lines.
LEMMA LiveLine ==
  ASSUME PromptsType, NEW v \in Views, log \in Seq(Lines), Unique, Numbers(log),
         \A m \in DOMAIN log : LineKnown(log[m]),
         NEW G, G \subseteq DOMAIN log, NEW n \in DOMAIN log, \A m \in G : m < n,
         NEW s \in States, NEW t \in States, LiveOn(log, s, v, G), HeardLine(s, log[n], t)
  PROVE  LiveOn(log, t, Reduced(v, log[n]), G \cup {n})
<1>1. PICK base \in Seq(Messages) : Settled(log, base, G) /\ Follows(base, s, v)
  BY DEF LiveOn
<1> DEFINE line == log[n]
           y == Reduced(v, line)
<1>2. line \in Lines /\ LineKnown(line)
  <2>1. log[n] \in Lines
    OBVIOUS
  <2> QED BY <2>1
<1>3. CASE line.type = "in"
  <2> DEFINE p == line.n
             m == UserMessage(prompts[p].text, 0)
  <2>1. prompts[p].text \in Texts /\ 0 \in 0..MaxInputs
    <3>1. p \in DOMAIN prompts
      BY <1>2, <1>3 DEF LineKnown
    <3> QED BY <3>1, PromptIs, Constants
  <2>2. y = onMessageUser(v, prompts[p].text, 0)
    BY <1>3 DEF Reduced
  <2>3. y.msgs = Append(v.msgs, m) /\ y.tool = v.tool
    <3> DEFINE q == prompts[p].text
    <3>1. q \in Texts
      BY <2>1
    <3> HIDE DEF q
    <3>2. onMessageUser(v, q, 0).msgs = Append(v.msgs, UserMessage(q, 0)) /\ onMessageUser(v, q, 0).tool = v.tool
      BY <2>1, <3>1, UserIs
    <3> QED BY <2>2, <3>2 DEF q
  <2>4. m \in Messages /\ m.type = "user"
    BY <2>1, MessageKinds DEF UserMessage
  <2>5. t = s
    BY <1>3 DEF HeardLine
  <2>6. Settled(log, base, G \cup {n})
    BY <1>1, <1>3, SettledUnsaid DEF Said
  <2>7. LiveOn(log, s, v, G \cup {n})
    BY <1>1, <2>6 DEF LiveOn
  <2> HIDE DEF m, y
  <2>8. LiveOn(log, s, y, G \cup {n})
    BY <2>3, <2>4, <2>7, LiveUser
  <2> QED BY <2>5, <2>8 DEF y
<1>4. CASE line.type = "said" /\ findStreamingTurn(base) # 0
  BY <1>1, <1>4, LiveSaid
<1>5. CASE findStreamingTurn(base) = 0
  <2>1. v.msgs = base
    BY <1>1, <1>5 DEF Follows
  <2>2. Settled(log, y.msgs, G \cup {n}) /\ findStreamingTurn(y.msgs) = 0
    BY <1>1, <1>5, <2>1, LineSettled
  <2>3. y.msgs \in Seq(Messages)
    BY <1>2, ReducedReduces DEF Reduces, Views
  <2>4. Follows(y.msgs, t, y)
    BY <2>2 DEF Follows
  <2> QED BY <2>2, <2>3, <2>4 DEF LiveOn
<1>6. CASE line.type \notin {"in", "said"} /\ findStreamingTurn(base) # 0
  <2>1. s.at \in {"message", "said", "block"}
    BY <1>1, <1>6 DEF Follows
  <2> QED BY <1>6, <2>1 DEF HeardLine
<1> QED BY <1>3, <1>4, <1>5, <1>6

-----------------------------------------------------------------------------
(* What is on its way to a window leads to where the process is *)

\* How an event leads from one state of the process to the next.
Heard(L, s, e, t) ==
  \/ e.type \in {"start", "block", "chunk", "stop", "end"} /\ Streams(s, e, t)
  \/ e.type = "line" /\ HeardLine(s, L[e.n], t)
  \/ e.type \in {"history", "joined"} /\ t = s

\* The states of the process that go with a queue.
Along(L, q, f) == \A i \in 1..Len(q) : Heard(L, f[i - 1], q[i], f[i])

\* The events of a queue lead from s to p.
Leads(L, q, s, p) ==
  \E f \in [0..Len(q) -> States] : f[0] = s /\ f[Len(q)] = p /\ Along(L, q, f)

\* A queue with an event more, without the first, with a longer log, without events.
LEMMA LeadsAppend ==
  ASSUME NEW L, NEW q \in Seq(Events), NEW e \in Events, NEW s, NEW p, NEW t \in States,
         Leads(L, q, s, p), Heard(L, p, e, t)
  PROVE  Leads(L, Append(q, e), s, t)
<1>1. PICK f \in [0..Len(q) -> States] : f[0] = s /\ f[Len(q)] = p /\ Along(L, q, f)
  BY DEF Leads
<1> DEFINE N == Len(q) + 1
           r == Append(q, e)
           g == [i \in 0..N |-> IF i = N THEN t ELSE f[i]]
<1>2. /\ r \in Seq(Events) /\ Len(r) = N /\ N \in Nat /\ Len(q) \in Nat /\ DOMAIN q = 1..Len(q)
      /\ r[N] = e /\ \A i \in 1..Len(q) : r[i] = q[i]
  <2>1. DOMAIN q = 1..Len(q)
    OBVIOUS
  <2> QED BY <2>1, Appended
<1>3. g \in [0..N -> States] /\ g[0] = s /\ g[N] = t /\ \A i \in 0..Len(q) : g[i] = f[i]
  <2>1. \A i \in 0..N : i # N => i \in 0..Len(q)
    BY <1>2
  <2>2. 0 \in 0..N /\ 0 # N /\ N \in 0..N /\ \A i \in 0..Len(q) : i \in 0..N /\ i # N
    BY <1>2
  <2> HIDE DEF N
  <2> QED BY <1>1, <2>1, <2>2
<1> HIDE DEF g, r, N
<1>4. ASSUME NEW i \in 1..N PROVE Heard(L, g[i - 1], r[i], g[i])
  <2>1. CASE i = N
    <3>1. i - 1 = Len(q) /\ i - 1 \in 0..Len(q)
      BY <1>2, <2>1 DEF N
    <3> QED BY <1>1, <1>2, <1>3, <2>1, <3>1
  <2>2. CASE i # N
    <3>1. i \in 1..Len(q) /\ i - 1 \in 0..Len(q) /\ i \in 0..Len(q)
      BY <1>2, <2>2 DEF N
    <3>2. Heard(L, f[i - 1], q[i], f[i])
      BY <1>1, <3>1 DEF Along
    <3> QED BY <1>2, <1>3, <3>1, <3>2
  <2> QED BY <2>1, <2>2
<1>5. Leads(L, r, s, t)
  BY <1>2, <1>3, <1>4 DEF Leads, Along
<1> QED BY <1>5 DEF r

LEMMA LeadsTail ==
  ASSUME NEW L, NEW q \in Seq(Events), q # <<>>, NEW s, NEW p, Leads(L, q, s, p)
  PROVE  \E t \in States : Heard(L, s, q[1], t) /\ Leads(L, Tail(q), t, p)
<1>1. PICK f \in [0..Len(q) -> States] : f[0] = s /\ f[Len(q)] = p /\ Along(L, q, f)
  BY DEF Leads
<1> DEFINE N == Len(q) - 1
           r == Tail(q)
           g == [i \in 0..N |-> f[i + 1]]
<1>2. /\ r \in Seq(Events) /\ Len(r) = N /\ N \in Nat /\ Len(q) \in Nat /\ 1 \in 1..Len(q)
      /\ \A i \in 1..N : r[i] = q[i + 1]
  OBVIOUS
<1>3. f[1] \in States /\ Heard(L, s, q[1], f[1])
  <2>1. 1 \in 0..Len(q) /\ 1 - 1 = 0
    BY <1>2
  <2> QED BY <1>1, <1>2, <2>1 DEF Along
<1>4. g \in [0..N -> States] /\ g[0] = f[1] /\ g[N] = p /\ \A i \in 0..N : g[i] = f[i + 1]
  <2>1. \A i \in 0..N : i + 1 \in 0..Len(q)
    BY <1>2
  <2>2. 0 \in 0..N /\ N \in 0..N /\ N + 1 = Len(q) /\ 0 + 1 = 1
    BY <1>2
  <2> HIDE DEF N
  <2>3. \A i \in 0..N : g[i] = f[i + 1] /\ f[i + 1] \in States
    BY <1>1, <2>1
  <2> QED BY <1>1, <2>2, <2>3
<1> HIDE DEF g, r
<1>5. ASSUME NEW i \in 1..N PROVE Heard(L, g[i - 1], r[i], g[i])
  <2>1. i + 1 \in 1..Len(q) /\ (i + 1) - 1 = i /\ i - 1 \in 0..N /\ (i - 1) + 1 = i /\ i \in 0..N
    BY <1>2
  <2>2. Heard(L, f[(i + 1) - 1], q[i + 1], f[i + 1])
    BY <1>1, <2>1 DEF Along
  <2> HIDE DEF N
  <2> QED BY <1>2, <1>4, <2>1, <2>2
<1> HIDE DEF N
<1>6. Leads(L, r, f[1], p)
  BY <1>2, <1>4, <1>5 DEF Leads, Along
<1> QED BY <1>3, <1>6 DEF r

LEMMA LeadsGrows ==
  ASSUME NEW L, NEW M, NEW D, \A n \in D : M[n] = L[n], NEW q \in Seq(Events),
         \A i \in DOMAIN q : LinesOf(q[i]) \subseteq D, NEW s, NEW p, Leads(L, q, s, p)
  PROVE  Leads(M, q, s, p)
<1>1. PICK f \in [0..Len(q) -> States] : f[0] = s /\ f[Len(q)] = p /\ Along(L, q, f)
  BY DEF Leads
<1>2. DOMAIN q = 1..Len(q)
  OBVIOUS
<1>3. ASSUME NEW i \in 1..Len(q) PROVE Heard(M, f[i - 1], q[i], f[i])
  <2>1. Heard(L, f[i - 1], q[i], f[i])
    BY <1>1 DEF Along
  <2>2. q[i].type = "line" => M[q[i].n] = L[q[i].n]
    <3>1. q[i].type = "line" => q[i].n \in LinesOf(q[i])
      BY DEF LinesOf
    <3> QED BY <1>2, <3>1
  <2> QED BY <2>1, <2>2 DEF Heard
<1>4. Along(M, q, f)
  BY <1>3 DEF Along
<1> QED BY <1>1, <1>4 DEF Leads

LEMMA LeadsStill ==
  ASSUME NEW L, NEW q \in Seq(Events), \A i \in DOMAIN q : q[i].type \in {"history", "joined"}, NEW s \in States
  PROVE  Leads(L, q, s, s)
<1> DEFINE f == [i \in 0..Len(q) |-> s]
<1>1. f \in [0..Len(q) -> States] /\ f[0] = s /\ f[Len(q)] = s
  OBVIOUS
<1>2. ASSUME NEW i \in 1..Len(q) PROVE f[i - 1] = s /\ f[i] = s /\ i \in DOMAIN q
  OBVIOUS
<1> HIDE DEF f
<1>3. Along(L, q, f)
  BY <1>2 DEF Along, Heard
<1> QED BY <1>1, <1>3 DEF Leads

\* The process leaves a message only with an event that says so.
LEMMA LeadsMessage ==
  ASSUME NEW L, NEW q \in Seq(Events), NEW s, NEW p, Leads(L, q, s, p),
         s.at \in {"message", "block", "said"}, \A i \in DOMAIN q : q[i].type # "end"
  PROVE  p.at \in {"message", "block", "said"}
<1>1. PICK f \in [0..Len(q) -> States] : f[0] = s /\ f[Len(q)] = p /\ Along(L, q, f)
  BY DEF Leads
<1> DEFINE S == {i \in 0..Len(q) : f[i].at \in {"message", "block", "said"}}
<1>2. 0 \in S /\ Len(q) \in Nat /\ DOMAIN q = 1..Len(q)
  BY <1>1
<1>3. ASSUME NEW x \in States, NEW y \in States, NEW e, e.type # "end", Heard(L, x, e, y),
             x.at \in {"message", "block", "said"}
      PROVE  y.at \in {"message", "block", "said"}
  <2>1. CASE Streams(x, e, y)
    <3>1. CASE e.type = "start" /\ x.at = "between" /\ y = [x EXCEPT !.at = "message", !.kind = ""]
      BY <3>1 DEF States
    <3>2. CASE y = [at |-> "block", b |-> e.b, kind |-> e.kind, n |-> 0]
      BY <3>2
    <3>3. CASE x.at = "block" /\ y = [x EXCEPT !.n = x.n + 1]
      BY <3>3 DEF States
    <3>4. CASE y = [x EXCEPT !.at = "message"]
      BY <3>4 DEF States
    <3> QED BY <1>3, <2>1, <3>1, <3>2, <3>3, <3>4 DEF Streams
  <2>2. CASE HeardLine(x, L[e.n], y)
    BY <1>3, <2>2 DEF HeardLine, States
  <2> QED BY <1>3, <2>1, <2>2 DEF Heard
<1>4. ASSUME NEW n \in 0..Len(q), n < Len(q), n \in S PROVE n + 1 \in S
  <2>1. n + 1 \in 1..Len(q) /\ (n + 1) - 1 = n /\ n + 1 \in 0..Len(q)
    BY <1>4
  <2>2. Heard(L, f[n], q[n + 1], f[n + 1])
    BY <1>1, <2>1 DEF Along
  <2>3. f[n] \in States /\ f[n + 1] \in States /\ q[n + 1].type # "end"
    BY <1>1, <1>2, <2>1
  <2> QED BY <1>3, <1>4, <2>1, <2>2, <2>3
<1> HIDE DEF S
<1>5. 0..Len(q) \subseteq S
  BY <1>2, <1>4, BoundedInduction
<1>6. Len(q) \in S
  BY <1>2, <1>5
<1> QED BY <1>1, <1>6 DEF S

\* The turn that is streamed is open in what the window shows.
LEMMA FollowsOpen ==
  ASSUME NEW base \in Seq(Messages), NEW s \in States, NEW v, Follows(base, s, v), OpenLast(base)
  PROVE  /\ findStreamingTurn(v.msgs) # 0 <=> findStreamingTurn(base) # 0
         /\ findStreamingTurn(v.msgs) = 0 => v.msgs = base
         /\ findStreamingTurn(v.msgs) # 0 => s.at \in {"message", "block", "said"}
<1>1. CASE v.msgs = base
  BY <1>1 DEF Follows
<1>2. CASE v.msgs # base
  <2>1. findStreamingTurn(base) # 0 /\ s.at = "block" /\ v.msgs = WithBlock(base, Unfinished(s))
    BY <1>2 DEF Follows
  <2>2. Unfinished(s) \in Blocks
    BY UnfinishedIs
  <2> DEFINE x == Unfinished(s)
  <2>3. findStreamingTurn(WithBlock(base, x)) = findStreamingTurn(base)
    <3> HIDE DEF x
    <3>1. x \in Blocks
      BY <2>2 DEF x
    <3> QED BY <2>1, <3>1, WithBlockIs
  <2> QED BY <2>1, <2>3
<1> QED BY <1>1, <1>2

-----------------------------------------------------------------------------
(* Streamed or replayed, what a window shows is what it was told *)

\* What was said in the lines replayed so far, or that are to be, is behind the process.
Behind(L, q, G, s) ==
  \A n : Old(q, G, n) /\ L[n].type = "said" => L[n].n <= s.b /\ (s.at = "block" => L[n].n # s.b)

\* A window that listens, with its queue q and the process at p.
LiveTo(L, q, p, v, G) ==
  /\ (\E i \in DOMAIN q : q[i].type = "history") => findStreamingTurn(v.msgs) = 0
  /\ \E s \in States : Behind(L, q, G, s) /\ Leads(L, q, s, p) /\ LiveOn(L, s, v, G)

\* A window that does not listen shows what it was replayed.
Quiet(L, v, G) == Settled(L, v.msgs, G) /\ findStreamingTurn(v.msgs) = 0

\* A window listens once it is in the channel and no join of it is going on.
Listening(u) == u \in members /\ call[u].phase = "none"

LiveInv(u) ==
  Sound(u) /\ ~past[u].cut =>
    IF Listening(u) THEN LiveTo(log, inbox[u], speech, win[u], past[u].given)
    ELSE Quiet(log, win[u], past[u].given)

\* Later lines do not matter.
LEMMA LiveOnGrows ==
  ASSUME NEW L \in Seq(Lines), NEW line \in Lines, NEW G, G \subseteq DOMAIN L, NEW s, NEW v, LiveOn(L, s, v, G)
  PROVE  LiveOn(Append(L, line), s, v, G)
BY SettledGrows DEF LiveOn

LEMMA OldKnown ==
  ASSUME NEW q, NEW G, NEW D, G \subseteq D, \A i \in DOMAIN q : LinesOf(q[i]) \subseteq D, NEW n, Old(q, G, n)
  PROVE  n \in D
BY DEF Old

LEMMA LiveToGrows ==
  ASSUME NEW L \in Seq(Lines), NEW line \in Lines, NEW q \in Seq(Events), NEW G, G \subseteq DOMAIN L,
         \A i \in DOMAIN q : LinesOf(q[i]) \subseteq DOMAIN L, NEW p, NEW v, LiveTo(L, q, p, v, G)
  PROVE  LiveTo(Append(L, line), q, p, v, G)
<1> DEFINE M == Append(L, line)
<1>1. \A n \in DOMAIN L : M[n] = L[n]
  BY Appended
<1>2. PICK s \in States : Behind(L, q, G, s) /\ Leads(L, q, s, p) /\ LiveOn(L, s, v, G)
  BY DEF LiveTo
<1>3. LiveOn(M, s, v, G)
  BY <1>2, LiveOnGrows
<1> HIDE DEF M
<1>4. Leads(M, q, s, p)
  BY <1>1, <1>2, LeadsGrows
<1>5. Behind(M, q, G, s)
  BY <1>1, <1>2, OldKnown DEF Behind
<1>6. LiveTo(M, q, p, v, G)
  BY <1>2, <1>3, <1>4, <1>5 DEF LiveTo
<1> QED BY <1>6 DEF M

\* An event more is on its way.
LEMMA LiveToHears ==
  ASSUME NEW L, NEW q \in Seq(Events), NEW e \in Events, e.type # "history", NEW p, NEW t \in States,
         Heard(L, p, e, t), NEW v, NEW G, LiveTo(L, q, p, v, G)
  PROVE  LiveTo(L, Append(q, e), t, v, G)
<1>1. PICK s \in States : Behind(L, q, G, s) /\ Leads(L, q, s, p) /\ LiveOn(L, s, v, G)
  BY DEF LiveTo
<1> DEFINE r == Append(q, e)
<1>2. Leads(L, r, s, t)
  BY <1>1, LeadsAppend
<1>3. \A n : Old(r, G, n) <=> Old(q, G, n)
  BY OrderedAppend
<1>4. \A i \in DOMAIN r : r[i].type = "history" => i \in DOMAIN q /\ r[i] = q[i]
  <2>1. \A i \in DOMAIN r : i = Len(q) + 1 \/ i \in DOMAIN q
    BY Appended
  <2>2. r[Len(q) + 1] = e /\ \A i \in DOMAIN q : r[i] = q[i]
    BY Appended
  <2> HIDE DEF r
  <2> QED BY <2>1, <2>2
<1> HIDE DEF r
<1>5. Behind(L, r, G, s)
  BY <1>1, <1>3 DEF Behind
<1>6. LiveTo(L, r, t, v, G)
  BY <1>1, <1>2, <1>4, <1>5 DEF LiveTo
<1> QED BY <1>6 DEF r

\* A window that nothing is sent to.
LEMMA LiveStays ==
  ASSUME TypeOK, NEW u \in Windows, RefsOf(u), LiveInv(u), Same(u),
         log' = log \/ \E line \in Lines : log' = Append(log, line),
         speech' = speech \/ u \notin members
  PROVE  LiveInv(u)'
<1>1. /\ inbox'[u] = inbox[u] /\ call'[u] = call[u] /\ win'[u] = win[u] /\ past'[u] = past[u]
      /\ (u \in members' <=> u \in members)
  BY DEF Same
<1>2. (Sound(u)' <=> Sound(u)) /\ (Listening(u)' <=> Listening(u))
  BY <1>1 DEF Sound, Gapped, Listening
<1>3. SUFFICES ASSUME Sound(u), ~past[u].cut
               PROVE  IF Listening(u) THEN LiveTo(log', inbox[u], speech', win[u], past[u].given)
                      ELSE Quiet(log', win[u], past[u].given)
  BY <1>1, <1>2 DEF LiveInv
<1>4. /\ log \in Seq(Lines) /\ inbox[u] \in Seq(Events) /\ past[u].given \subseteq DOMAIN log
      /\ \A i \in DOMAIN inbox[u] : LinesOf(inbox[u][i]) \subseteq DOMAIN log
  BY TypeParts, ViewIs DEF LogType, RefsOf
<1>5. CASE Listening(u)
  <2>1. LiveTo(log, inbox[u], speech, win[u], past[u].given)
    BY <1>3, <1>5 DEF LiveInv
  <2>2. speech' = speech
    BY <1>5 DEF Listening
  <2>3. LiveTo(log', inbox[u], speech, win[u], past[u].given)
    BY <1>4, <2>1, LiveToGrows
  <2> QED BY <1>5, <2>2, <2>3
<1>6. CASE ~Listening(u)
  <2>1. Quiet(log, win[u], past[u].given)
    BY <1>3, <1>6 DEF LiveInv
  <2>2. Quiet(log', win[u], past[u].given)
    BY <1>4, <2>1, SettledGrows DEF Quiet
  <2> QED BY <1>6, <2>2
<1> QED BY <1>5, <1>6

\* Only if it lost nothing does a window make up for what it hears.
LEMMA SoundHears ==
  ASSUME TypeOK, NEW u \in Windows, NEW e \in Events, Hears(u, e), Sound(u)'
  PROVE  Sound(u) /\ ~past[u].lossy
<1>1. inbox[u] \in Seq(Events) /\ past[u].lossy \in BOOLEAN
  BY ViewIs, HistoryIs
<1>2. ~past[u].lossy /\ past'[u] = past[u]
  BY <1>1 DEF Hears, Sound
<1>3. Gapped(u) => Gapped(u)'
  <2>1. inbox'[u] = Append(inbox[u], e)
    BY DEF Hears
  <2> DEFINE q == inbox[u]
             r == inbox'[u]
  <2>2. q \in Seq(Events) /\ r = Append(q, e)
    BY <1>1, <2>1
  <2> HIDE DEF q, r
  <2>3. q # <<>> => r # <<>> /\ Head(r) = Head(q)
    BY <2>2
  <2> QED BY <2>3 DEF q, r, Gapped
<1> QED BY <1>2, <1>3 DEF Sound

LEMMA LiveHears ==
  ASSUME TypeOK, NEW u \in Windows, RefsOf(u), WinInv(u), LiveInv(u), NEW e \in Events, e.type # "history",
         Hears(u, e), log' = log \/ \E line \in Lines : log' = Append(log, line),
         speech' \in States, Heard(log', speech, e, speech')
  PROVE  LiveInv(u)'
<1>1. SUFFICES ASSUME Sound(u)', ~past'[u].cut
               PROVE  IF Listening(u)' THEN LiveTo(log', inbox'[u], speech', win'[u], past'[u].given)
                      ELSE Quiet(log', win'[u], past'[u].given)
  BY DEF LiveInv
<1>2. Sound(u) /\ ~past[u].lossy
  BY <1>1, SoundHears
<1>3. /\ u \in members /\ u \in members' /\ inbox'[u] = Append(inbox[u], e) /\ win'[u] = win[u]
      /\ call'[u] = call[u] /\ past'[u].given = past[u].given /\ past'[u].cut = past[u].cut
  BY DEF Hears, SameHistory
<1>4. Listening(u) /\ Listening(u)'
  BY <1>2, <1>3 DEF WinInv, Orderly, Prepared, Listening
<1>5. LiveTo(log, inbox[u], speech, win[u], past[u].given)
  BY <1>1, <1>2, <1>3, <1>4 DEF LiveInv
<1>6. /\ log \in Seq(Lines) /\ inbox[u] \in Seq(Events) /\ past[u].given \subseteq DOMAIN log
      /\ \A i \in DOMAIN inbox[u] : LinesOf(inbox[u][i]) \subseteq DOMAIN log
  BY TypeParts, ViewIs DEF LogType, RefsOf
<1>7. LiveTo(log', inbox[u], speech, win[u], past[u].given)
  BY <1>5, <1>6, LiveToGrows
<1>8. LiveTo(log', Append(inbox[u], e), speech', win[u], past[u].given)
  BY <1>6, <1>7, LiveToHears
<1> QED BY <1>3, <1>4, <1>8

\* The steps of a join.
LEMMA LiveJoin ==
  ASSUME TypeOK, NEW u \in Windows, RoundsOf(u), LiveInv(u), Join(u) \/ AskEcho(u) \/ Read(u)
  PROVE  LiveInv(u)'
<1>1. inbox' = inbox /\ past' = past /\ log' = log /\ members' = members
  BY DEF Join, AskEcho, Read
<1>2. win'[u].msgs = win[u].msgs /\ call[u] \in Calls /\ DOMAIN call = Windows
  <2>1. win[u] \in Views /\ DOMAIN win = Windows /\ call[u] \in Calls /\ DOMAIN call = Windows
    BY ViewIs
  <2> QED BY <2>1 DEF Join, AskEcho, Read, Views
<1>3. ~Listening(u) /\ ~Listening(u)'
  <2>1. CASE Join(u)
    BY <1>1, <2>1 DEF Join, RoundsOf, Listening
  <2>2. CASE AskEcho(u) \/ Read(u)
    <3>1. call[u].phase # "none" /\ call'[u].phase # "none"
      BY <1>2, <2>2 DEF AskEcho, Read, Calls
    <3> QED BY <3>1 DEF Listening
  <2> QED BY <2>1, <2>2
<1>4. Sound(u)' <=> Sound(u)
  BY <1>1 DEF Sound, Gapped
<1> QED BY <1>1, <1>2, <1>3, <1>4 DEF LiveInv, Quiet

LEMMA LiveDeliver ==
  ASSUME TypeOK, TypeOK', RefsInv, RoundsInv, LogInv, NEW u \in Windows, RefsOf(u)', WinInv(u),
         LiveInv(u), Deliver(u)
  PROVE  LiveInv(u)'
<1>1. /\ call[u].phase = "rows" /\ (Continues(u) \/ Registers(u)) /\ win' = win /\ log' = log /\ speech' = speech
      /\ past[u] \in Histories /\ DOMAIN past = Windows /\ DOMAIN call = Windows /\ call[u] \in Calls
      /\ log \in Seq(Lines) /\ speech \in States
  BY DeliverIs, ViewIs, TypeParts DEF LogType
<1>2. past'[u].given = past[u].given /\ past'[u].cut = past[u].cut /\ past'[u].disturbed = past[u].disturbed
  BY <1>1 DEF Continues, Registers, Histories
<1>3. ~Gapped(u)
  BY <1>1 DEF RoundsInv, RoundsOf
<1>4. SUFFICES ASSUME Sound(u)', ~past'[u].cut
               PROVE  IF Listening(u)' THEN LiveTo(log, inbox'[u], speech, win[u], past[u].given)
                      ELSE Quiet(log, win[u], past[u].given)
  BY <1>1, <1>2 DEF LiveInv
<1>5. Quiet(log, win[u], past[u].given)
  <2>1. Sound(u) /\ ~past[u].cut
    BY <1>2, <1>3, <1>4 DEF Sound
  <2> QED BY <1>1, <2>1 DEF LiveInv, Listening
<1>6. CASE Listening(u)'
  <2>1. Registers(u)
    <3>1. ASSUME Continues(u) PROVE call'[u].phase = "read"
      BY <1>1, <3>1 DEF Continues, Calls
    <3> QED BY <1>1, <1>6, <3>1 DEF Listening
  <2>2. u \in members' /\ inbox'[u] \in Seq(Events) /\ DOMAIN inbox = Windows
    <3>1. inbox' \in [Windows -> Seq(Events)]
      BY DEF TypeOK
    <3> QED BY <2>1, <3>1, ViewIs DEF Registers
  <2>3. \A i \in DOMAIN inbox'[u] : inbox'[u][i].type \in {"history", "joined"}
    <3> DEFINE b == Batch(call[u])
               q == inbox[u]
    <3>1. /\ q \in Seq(Events) /\ b \in Events /\ b.type = "history" /\ Joined \in Events /\ Joined.type = "joined"
      BY <1>1, ViewIs, BatchType
    <3>2. \A i \in DOMAIN q : q[i].type = "history"
      <4>1. Sound(u)
        BY <1>2, <1>3, <1>4 DEF Sound
      <4>2. WinInv(u)
        OBVIOUS
      <4> QED BY <1>1, <4>1, <4>2 DEF WinInv, Orderly, Shaped
    <3>3. \/ inbox'[u] = Append(Append(q, b), Joined) \/ inbox'[u] = Append(q, Joined)
      BY <2>1, <2>2 DEF Registers
    <3> HIDE DEF b, q
    <3>4. ASSUME NEW r \in Seq(Events), NEW e \in Events, e.type \in {"history", "joined"},
                 \A i \in DOMAIN r : r[i].type \in {"history", "joined"}
          PROVE  /\ Append(r, e) \in Seq(Events)
                 /\ \A i \in DOMAIN Append(r, e) : Append(r, e)[i].type \in {"history", "joined"}
      <4> DEFINE x == Append(r, e)
      <4>1. x \in Seq(Events) /\ \A i \in DOMAIN x : x[i] = e \/ (i \in DOMAIN r /\ x[i] = r[i])
        BY <3>4, Appended
      <4> HIDE DEF x
      <4>2. \A i \in DOMAIN x : x[i].type \in {"history", "joined"}
        BY <3>4, <4>1
      <4> QED BY <4>1, <4>2 DEF x
    <3>5. /\ Append(q, b) \in Seq(Events)
          /\ \A i \in DOMAIN Append(q, b) : Append(q, b)[i].type \in {"history", "joined"}
      BY <3>1, <3>2, <3>4
    <3> QED BY <3>1, <3>2, <3>3, <3>4, <3>5
  <2>4. Leads(log, inbox'[u], speech, speech)
    BY <1>1, <2>2, <2>3, LeadsStill
  <2>5. Behind(log, inbox'[u], past[u].given, speech)
    <3>1. \A n : Old(inbox'[u], past[u].given, n) => n \in DOMAIN log
      <4>1. past[u].given \subseteq DOMAIN log /\ \A i \in DOMAIN inbox'[u] : LinesOf(inbox'[u][i]) \subseteq DOMAIN log
        BY <1>1, <1>2 DEF RefsOf
      <4> QED BY <4>1, OldKnown
    <3> QED BY <3>1 DEF Behind, LogInv, SaidBefore
  <2>6. LiveOn(log, speech, win[u], past[u].given)
    <3>1. win[u].msgs \in Seq(Messages)
      BY ViewIs
    <3> QED BY <1>5, <3>1 DEF Quiet, LiveOn, Follows
  <2>7. findStreamingTurn(win[u].msgs) = 0
    BY <1>5 DEF Quiet
  <2> QED BY <1>1, <1>6, <2>4, <2>5, <2>6, <2>7 DEF LiveTo
<1> QED BY <1>5, <1>6

\* The process goes forward, and a block begins with a new number.
LEMMA HeardForward ==
  ASSUME NEW L, NEW s \in States, NEW e, NEW t \in States, Heard(L, s, e, t)
  PROVE  /\ s.b <= t.b
         /\ t.at = "block" => (s.at = "block" /\ t.b = s.b) \/ t.b = s.b + 1
         /\ e.type = "line" /\ L[e.n].type = "said" => L[e.n].n = t.b /\ t.at = "said"
<1>1. s.b \in Nat /\ t.b \in Nat
  BY Zenon, StateIs
<1>2. CASE Streams(s, e, t)
  <2>1. CASE e.type = "block"
    BY <1>1, <1>2, <2>1 DEF Streams, Heard
  <2>2. CASE e.type # "block"
    <3>1. t.b = s.b /\ (t.at = "block" => s.at = "block")
      BY <1>2, <2>2 DEF Streams, States
    <3>2. e.type # "line"
      BY <1>2 DEF Streams
    <3> QED BY <1>1, <3>1, <3>2
  <2> QED BY <2>1, <2>2
<1>3. CASE e.type = "line" /\ HeardLine(s, L[e.n], t)
  <2>1. t.b = s.b /\ (t.at = "block" => s.at = "block")
    BY <1>3 DEF HeardLine, States
  <2>2. L[e.n].type = "said" => L[e.n].n = s.b /\ t.at = "said"
    BY <1>3 DEF HeardLine, States
  <2> QED BY <1>1, <2>1, <2>2
<1>4. CASE e.type \in {"history", "joined"} /\ t = s
  BY <1>1, <1>4
<1> QED BY <1>2, <1>3, <1>4 DEF Heard

\* What was said stays behind the process.
LEMMA BehindTail ==
  ASSUME NEW L \in Seq(Lines), NEW q \in Seq(Events), q # <<>>, NEW G, G \subseteq DOMAIN L,
         \A i \in DOMAIN q : LinesOf(q[i]) \subseteq DOMAIN L,
         NEW s \in States, NEW t \in States, Behind(L, q, G, s), Heard(L, s, q[1], t),
         NEW H, H \subseteq G \cup LinesOf(q[1])
  PROVE  Behind(L, Tail(q), H, t)
<1> DEFINE e == q[1]
           r == Tail(q)
<1>1. 1 \in DOMAIN q /\ e = Head(q)
  OBVIOUS
<1>2. \A n : Old(q, G, n) <=> Old(r, G, n) \/ (e.type = "history" /\ n \in LinesOf(e))
  BY <1>1, OrderedTail
<1>3. \A n : Old(r, H, n) => Old(r, G, n) \/ n \in LinesOf(e)
  BY DEF Old
<1>4. \A n \in LinesOf(e) : e.type = "history" \/ (e.type = "line" /\ n = e.n)
  BY DEF LinesOf
<1> HIDE DEF e, r
<1> SUFFICES ASSUME NEW n, Old(r, H, n), L[n].type = "said"
             PROVE  L[n].n <= t.b /\ (t.at = "block" => L[n].n # t.b)
  BY DEF Behind, r
<1>5. /\ s.b <= t.b
      /\ t.at = "block" => (s.at = "block" /\ t.b = s.b) \/ t.b = s.b + 1
      /\ e.type = "line" /\ L[e.n].type = "said" => L[e.n].n = t.b /\ t.at = "said"
  BY HeardForward DEF e
<1>6. s.b \in Nat /\ t.b \in Nat
  BY Zenon, StateIs
<1>7. CASE Old(q, G, n)
  <2>1. n \in DOMAIN L
    BY <1>7, OldKnown
  <2>2. L[n] \in Lines
    BY <2>1
  <2>3. L[n].n \in Nat
    BY <2>2, LineIs
  <2>4. L[n].n <= s.b /\ (s.at = "block" => L[n].n # s.b)
    BY <1>7 DEF Behind
  <2> QED BY <1>5, <1>6, <2>3, <2>4
<1>8. CASE ~Old(q, G, n)
  <2>1. e.type = "line" /\ n = e.n
    BY <1>2, <1>3, <1>4, <1>8
  <2> QED BY <1>5, <1>6, <2>1
<1> QED BY <1>7, <1>8

\* Without an open turn, a window shows what is settled.
LEMMA LiveOnSettled ==
  ASSUME NEW L, NEW s \in States, NEW v, NEW G, LiveOn(L, s, v, G), findStreamingTurn(v.msgs) = 0
  PROVE  Settled(L, v.msgs, G)
<1>1. PICK base \in Seq(Messages) : Settled(L, base, G) /\ Follows(base, s, v)
  BY DEF LiveOn
<1> QED BY <1>1, FollowsOpen DEF Settled

LEMMA SettledLiveOn ==
  ASSUME NEW L, NEW s, NEW v, v.msgs \in Seq(Messages), NEW G, Settled(L, v.msgs, G), findStreamingTurn(v.msgs) = 0
  PROVE  LiveOn(L, s, v, G)
BY DEF LiveOn, Follows

\* What a window has when it takes an event.
LEMMA LiveTaken ==
  ASSUME MeetInv, Numbers(log), NEW u \in Windows, NEW e, Received(u, e),
         \/ ReceiveStream(u, e) \/ ReceiveLine(u, e) \/ ReceiveHistory(u, e) \/ ReceiveJoined(u, e),
         NEW s \in States, NEW t \in States, Behind(log, inbox[u], past[u].given, s), Heard(log, s, e, t),
         LiveOn(log, s, win[u], past[u].given), Ordered(inbox[u], past[u].given),
         e.type = "history" => findStreamingTurn(win[u].msgs) = 0, ~past'[u].cut
  PROVE  /\ past'[u].given \subseteq past[u].given \cup LinesOf(e)
         /\ LiveOn(log, t, win'[u], past'[u].given)
         /\ e.type = "history" => Quiet(log, win'[u], past'[u].given)
<1>1. TypeOK /\ RefsInv /\ RoundsInv /\ WinInv(u) /\ RefsOf(u) /\ RoundsOf(u) /\ Unique
  BY DEF MeetInv, TypeInv, RefsInv, RoundsInv, WinsInv, LogInv
<1>2. log' = log
  BY DEF Received
<1>3. /\ win[u] \in Views /\ past[u] \in Histories /\ DOMAIN win = Windows /\ DOMAIN past = Windows
      /\ e \in Events /\ e = inbox[u][1] /\ 1 \in DOMAIN inbox[u] /\ win \in [Windows -> Views] /\ PromptsType
      /\ log \in Seq(Lines) /\ (\A n \in DOMAIN log : LineKnown(log[n]))
      /\ past[u].given \subseteq DOMAIN log /\ LinesOf(e) \subseteq DOMAIN log
  BY <1>1, ViewIs, TakenEvent, TypeParts, BoundsGivePrompts DEF WindowType, LogType, RefsInv, RefsOf
<1> DEFINE v == win[u]
           G == past[u].given
<1>4. \A n \in LinesOf(e) : \A m \in G : m < n
  BY <1>3 DEF Ordered
<1>5. CASE ReceiveStream(u, e)
  <2>1. e \in StreamEvents /\ e.type \in {"start", "block", "chunk", "stop", "end"}
    BY <1>3, <1>5, EventKinds DEF ReceiveStream
  <2>2. win'[u] = Streamed(v, e) /\ past'[u].given = G /\ past'[u].cut = (past[u].cut \/ Cuts(win[u], e))
    BY <1>3, <1>5 DEF ReceiveStream, Histories
  <2>3. ~CutsAfter(v, e)
    BY <2>2 DEF Cuts, CutsAfter
  <2>4. Streams(s, e, t)
    BY <2>1 DEF Heard
  <2>5. Unsaid(log, s, G)
    BY DEF Unsaid, SaidIn, Behind, Old
  <2>6. LiveOn(log, t, Streamed(v, e), G)
    <3> HIDE DEF v, G
    <3>1. v \in Views /\ LiveOn(log, s, v, G)
      BY <1>3 DEF v, G
    <3> QED BY <1>3, <2>1, <2>3, <2>4, <2>5, <3>1, LiveStreamed
  <2> QED BY <2>1, <2>2, <2>6
<1>6. CASE ReceiveJoined(u, e)
  <2>1. e.type = "joined" /\ t = s
    BY <1>6 DEF ReceiveJoined, Heard
  <2>2. win'[u].msgs = v.msgs /\ win'[u].tool = v.tool
    BY <1>3, <1>6 DEF ReceiveJoined, Views
  <2>3. past'[u].given = G
    BY <1>3, <1>6 DEF ReceiveJoined, Histories
  <2>4. LiveOn(log, s, win'[u], G)
    BY <2>2 DEF LiveOn, Follows
  <2> QED BY <2>1, <2>3, <2>4
<1>7. CASE ReceiveLine(u, e)
  <2> DEFINE n == e.n
  <2>1. e.type = "line" /\ LinesOf(e) = {n} /\ n \in DOMAIN log /\ \A m \in G : m < n
    BY <1>3, <1>4, <1>7 DEF ReceiveLine, LinesOf
  <2>2. HeardLine(s, log[n], t)
    BY <2>1 DEF Heard
  <2>3. /\ win' = [win EXCEPT ![u] = Reduced(v, log[n])]
        /\ past' = [past EXCEPT ![u].given = @ \cup {n}, ![u].taken = @ \/ Takes(u, log[n])]
    BY <1>7 DEF ReceiveLine
  <2>4. win'[u] = Reduced(v, log[n])
    BY <1>3, <2>3
  <2>5. past'[u].given = G \cup {n}
    BY <1>3, <2>3 DEF Histories
  <2>6. LiveOn(log, t, Reduced(v, log[n]), G \cup {n})
    <3> HIDE DEF v, G, n
    <3>1. v \in Views /\ G \subseteq DOMAIN log /\ LiveOn(log, s, v, G)
      BY <1>3 DEF v, G
    <3> QED BY <1>1, <1>3, <2>1, <2>2, <3>1, LiveLine
  <2> QED BY <2>1, <2>4, <2>5, <2>6
<1>8. CASE ReceiveHistory(u, e)
  <2> DEFINE R == Applied(win[u], e)
             y == Replayed(win[u], R)
  <2>1. /\ e.type = "history" /\ t = s
        /\ win' = [win EXCEPT ![u] = [y EXCEPT !.replay = ReplayOf(win[u], e)]]
        /\ past' = [past EXCEPT ![u].given = @ \cup R]
    BY <1>3, <1>8, ReceiveHistoryIs DEF Heard
  <2>2. y \in Views
    BY <1>3, ReplayedReduces DEF Reduces
  <2>3. win'[u].msgs = y.msgs /\ past'[u].given = G \cup R
    <3> HIDE DEF y, R
    <3> QED BY <1>3, <2>1, <2>2 DEF Views, Histories
  <2>4. R \subseteq LinesOf(e) /\ R \subseteq DOMAIN log
    BY <1>3, <2>1 DEF Applied, LinesOf
  <2>5. findStreamingTurn(v.msgs) = 0 /\ Settled(log, v.msgs, G)
    BY <2>1, LiveOnSettled
  <2>6. Settled(log, y.msgs, G \cup R) /\ findStreamingTurn(y.msgs) = 0
    <3>1. \A m \in G, n \in R : m < n
      BY <1>4, <2>4
    <3>2. v \in Views /\ G \subseteq DOMAIN log /\ y = Replayed(v, R)
      BY <1>3
    <3> HIDE DEF v, G, R, y
    <3> QED BY <1>1, <1>3, <2>4, <2>5, <3>1, <3>2, ReplayedSettled
  <2>7. y.msgs \in Seq(Messages)
    <3> HIDE DEF y
    <3> QED BY <2>2 DEF Views
  <2> HIDE DEF v, G, R, y
  <2>8. LiveOn(log, t, win'[u], past'[u].given)
    BY <2>3, <2>6, <2>7, SettledLiveOn
  <2>9. Quiet(log, win'[u], past'[u].given)
    BY <2>3, <2>6 DEF Quiet
  <2>10. past'[u].given \subseteq past[u].given \cup LinesOf(e)
    BY <2>3, <2>4 DEF G
  <2> QED BY <2>8, <2>9, <2>10
<1> QED BY <1>5, <1>6, <1>7, <1>8

\* Each step of the window.
LEMMA LiveReceive ==
  ASSUME MeetInv, TypeOK', Numbers(log), NEW u \in Windows, LiveInv(u), NEW e, Received(u, e),
         \/ ReceiveStream(u, e) \/ ReceiveLine(u, e) \/ ReceiveHistory(u, e) \/ ReceiveJoined(u, e)
  PROVE  LiveInv(u)'
<1> DEFINE q == inbox[u]
           G == past[u].given
           v == win[u]
<1>1. TypeOK /\ RefsInv /\ RoundsInv /\ WinInv(u) /\ RefsOf(u) /\ RoundsOf(u)
  BY DEF MeetInv, TypeInv, RefsInv, RoundsInv, WinsInv
<1>2. log' = log /\ speech' = speech /\ members' = members /\ call'[u] = call[u]
  BY <1>1, ReceiptIs DEF Received
<1>3. /\ past[u] \in Histories /\ DOMAIN past = Windows /\ e \in Events /\ e = q[1] /\ 1 \in DOMAIN q /\ q # <<>>
      /\ q \in Seq(Events) /\ inbox'[u] = Tail(q) /\ log \in Seq(Lines) /\ speech \in States
      /\ G \subseteq DOMAIN log /\ \A i \in DOMAIN q : LinesOf(q[i]) \subseteq DOMAIN log
  BY <1>1, ViewIs, TakenEvent, TypeParts DEF LogType, RefsOf, Received
<1>4. SUFFICES ASSUME Sound(u)', ~past'[u].cut
               PROVE  IF Listening(u) THEN LiveTo(log, Tail(q), speech, win'[u], past'[u].given)
                      ELSE Quiet(log, win'[u], past'[u].given)
  BY <1>2, <1>3 DEF LiveInv, Listening
<1>5. Sound(u) /\ Orderly(u)
  BY <1>1, <1>4, ReceiptIs, WinReceived
<1>6. ~past[u].cut
  <2>1. CASE ReceiveStream(u, e)
    BY <1>3, <1>4, <2>1 DEF ReceiveStream, Histories
  <2>2. CASE ReceiveLine(u, e)
    BY <1>3, <1>4, <2>2 DEF ReceiveLine, Histories
  <2>3. CASE ReceiveHistory(u, e)
    BY <1>3, <1>4, <2>3 DEF ReceiveHistory, Histories
  <2>4. CASE ReceiveJoined(u, e)
    BY <1>3, <1>4, <2>4 DEF ReceiveJoined, Histories
  <2> QED BY <2>1, <2>2, <2>3, <2>4
<1>7. Ordered(q, G)
  BY <1>5 DEF Orderly, Placed
<1>8. CASE Listening(u)
  <2>1. LiveTo(log, q, speech, v, G)
    BY <1>5, <1>6, <1>8 DEF LiveInv
  <2>2. PICK s \in States : Behind(log, q, G, s) /\ Leads(log, q, s, speech) /\ LiveOn(log, s, v, G)
    BY <2>1 DEF LiveTo
  <2>3. PICK t \in States : Heard(log, s, e, t) /\ Leads(log, Tail(q), t, speech)
    BY <1>3, <2>2, LeadsTail
  <2>4. e.type = "history" => findStreamingTurn(v.msgs) = 0
    BY <1>3, <2>1 DEF LiveTo
  <2>5. /\ past'[u].given \subseteq G \cup LinesOf(e) /\ LiveOn(log, t, win'[u], past'[u].given)
        /\ e.type = "history" => Quiet(log, win'[u], past'[u].given)
    BY <1>4, <1>7, <2>2, <2>3, <2>4, LiveTaken
  <2>6. Behind(log, Tail(q), past'[u].given, t)
    <3> DEFINE H == past'[u].given
    <3> HIDE DEF q, G, H
    <3> QED BY <1>3, <2>2, <2>3, <2>5, BehindTail DEF H
  <2>7. (\E i \in DOMAIN Tail(q) : Tail(q)[i].type = "history") => findStreamingTurn(win'[u].msgs) = 0
    <3>1. ASSUME NEW i \in DOMAIN Tail(q), Tail(q)[i].type = "history" PROVE e.type = "history"
      <4>1. i + 1 \in DOMAIN q /\ Tail(q)[i] = q[i + 1] /\ 1 < i + 1
        BY <1>3
      <4> QED BY <1>3, <1>5, <3>1, <4>1 DEF Orderly, Shaped
    <3> QED BY <2>5, <3>1 DEF Quiet
  <2> QED BY <1>8, <2>3, <2>5, <2>6, <2>7 DEF LiveTo
<1>9. CASE ~Listening(u)
  <2>1. Quiet(log, v, G)
    BY <1>5, <1>6, <1>9 DEF LiveInv
  <2>2. \A i \in DOMAIN q : q[i].type = "history"
    <3>1. CASE u \notin members
      BY <1>5, <3>1 DEF Orderly, Prepared
    <3>2. CASE call[u].phase # "none"
      BY <1>5, <3>2 DEF Orderly, Shaped
    <3> QED BY <1>9, <3>1, <3>2 DEF Listening
  <2>3. e.type = "history"
    BY <1>3, <2>2
  <2>4. Heard(log, speech, e, speech)
    BY <2>3 DEF Heard
  <2>5. Behind(log, q, G, speech)
    <3>1. \A n : Old(q, G, n) => n \in DOMAIN log
      <4> HIDE DEF q, G
      <4> QED BY <1>3, OldKnown
    <3> QED BY <3>1 DEF Behind, MeetInv, LogInv, SaidBefore
  <2>6. LiveOn(log, speech, v, G)
    <3>1. v.msgs \in Seq(Messages)
      BY <1>1, ViewIs
    <3> QED BY <2>1, <3>1, SettledLiveOn DEF Quiet
  <2>7. Quiet(log, win'[u], past'[u].given)
    BY <1>3, <1>4, <1>7, <2>1, <2>3, <2>4, <2>5, <2>6, LiveTaken DEF Quiet
  <2> QED BY <1>9, <2>7
<1> QED BY <1>8, <1>9

LEMMA LiveRefresh ==
  ASSUME MeetInv, TypeOK', NEW u \in Windows, NEW e, Received(u, e), ReceiveRefresh(u, e)
  PROVE  LiveInv(u)'
<1>1. win'[u].msgs = <<>> /\ past'[u].given = {} /\ call'[u].phase = "echo"
  BY WinRefresh DEF MeetInv, TypeInv, RefsInv, RoundsInv, WinsInv
<1>2. log' = log /\ log \in Seq(Lines)
  BY TypeParts DEF Received, MeetInv, TypeInv, LogType
<1>3. Settled(log', <<>>, {}) /\ findStreamingTurn(<<>>) = 0
  BY <1>2, SettledNothing
<1>4. Quiet(log', win'[u], past'[u].given)
  BY <1>1, <1>3 DEF Quiet
<1>5. ~(Listening(u)')
  BY <1>1 DEF Listening
<1> QED BY <1>4, <1>5 DEF LiveInv

LEMMA LiveTyped ==
  ASSUME MeetInv, TypeOK', NEW u \in Windows, LiveInv(u), NEW t \in Texts, Type(u, t)
  PROVE  LiveInv(u)'
<1> DEFINE m == UserMessage(t, 0)
<1>1. TypeOK /\ WinInv(u) /\ RefsOf(u) /\ RoundsOf(u)
  BY DEF MeetInv, TypeInv, RefsInv, RoundsInv, WinsInv
<1>2. /\ win' = [win EXCEPT ![u].msgs = Append(@, m)]
      /\ past' = [past EXCEPT ![u].typed = @ \cup {Len(prompts) + 1}, ![u].disturbed = past[u].lossy]
      /\ inbox' = inbox /\ log' = log /\ speech' = speech /\ members' = members /\ call' = call /\ win[u].ready
  BY DEF Type
<1>3. /\ win[u] \in Views /\ DOMAIN win = Windows /\ past[u] \in Histories /\ DOMAIN past = Windows
      /\ log \in Seq(Lines)
  BY <1>1, ViewIs, TypeParts DEF LogType
<1>4. m \in Messages /\ m.type = "user"
  <2>1. 0 \in 0..MaxInputs
    BY Constants
  <2> QED BY <2>1, MessageKinds, UserMessages
<1> HIDE DEF m
<1>5. /\ win'[u].msgs = Append(win[u].msgs, m) /\ win'[u].tool = win[u].tool
      /\ past'[u].given = past[u].given /\ past'[u].cut = past[u].cut
  BY <1>2, <1>3 DEF Views, Histories
<1>6. SUFFICES ASSUME Sound(u)', ~past[u].cut
               PROVE  IF Listening(u) THEN LiveTo(log, inbox[u], speech, win'[u], past[u].given)
                      ELSE Quiet(log, win'[u], past[u].given)
  BY <1>2, <1>5 DEF LiveInv, Listening
<1>7. Sound(u) /\ ~past[u].lossy /\ ~Active(inbox[u], call[u])
  BY <1>1, <1>6, WinType
<1>8. Listening(u)
  BY <1>1, <1>2, <1>7 DEF WinInv, Orderly, Prepared, Active, Listening
<1>9. PICK s \in States : /\ Behind(log, inbox[u], past[u].given, s) /\ Leads(log, inbox[u], s, speech)
                          /\ LiveOn(log, s, win[u], past[u].given)
  BY <1>6, <1>7, <1>8 DEF LiveInv, LiveTo
<1>10. LiveOn(log, s, win'[u], past[u].given)
  BY <1>3, <1>4, <1>5, <1>9, LiveUser
<1> QED BY <1>7, <1>8, <1>9, <1>10 DEF LiveTo, Active

LEMMA LiveOwn ==
  ASSUME MeetInv, MeetInv', Numbers(log), NEW u \in Windows, LiveInv(u), Own(u)
  PROVE  LiveInv(u)'
<1>1. /\ TypeOK /\ TypeOK' /\ RefsInv /\ RoundsInv /\ LogInv /\ WinInv(u) /\ RefsOf(u)' /\ RoundsOf(u)
  BY DEF MeetInv, TypeInv, RefsInv, RoundsInv, WinsInv
<1>2. CASE Join(u) \/ AskEcho(u) \/ Read(u)
  BY <1>1, <1>2, LiveJoin
<1>3. CASE Deliver(u)
  BY <1>1, <1>3, LiveDeliver
<1>4. CASE Receive(u)
  <2> DEFINE e == Head(inbox[u])
  <2>1. /\ Received(u, e)
        /\ \/ ReceiveStream(u, e) \/ ReceiveLine(u, e) \/ ReceiveHistory(u, e)
           \/ ReceiveJoined(u, e) \/ ReceiveRefresh(u, e)
    BY <1>4, ReceiveIs
  <2> HIDE DEF e
  <2> QED BY <1>1, <2>1, LiveReceive, LiveRefresh
<1>5. CASE Gap(u)
  BY <1>1, <1>5, WinGap DEF LiveInv
<1>6. ASSUME NEW t \in Texts, Type(u, t) PROVE LiveInv(u)'
  BY <1>1, <1>6, LiveTyped
<1> QED BY <1>2, <1>3, <1>4, <1>5, <1>6 DEF Own

\* Every step keeps what a window shows.
LEMMA LiveInvNext ==
  ASSUME MeetInv, MeetInv', Numbers(log), NEW u \in Windows, LiveInv(u), [Next]_vars
  PROVE  LiveInv(u)'
<1>1. TypeOK /\ TypeOK' /\ RefsOf(u) /\ WinInv(u) /\ speech \in States
  BY TypeParts DEF MeetInv, TypeInv, RefsInv, WinsInv
<1>2. CASE Same(u) /\ log' = log /\ speech' = speech
  BY <1>1, <1>2, LiveStays
<1>3. ASSUME NEW e \in StreamEvents, SpeakStream(e), SpokenTo(u, members, e) PROVE LiveInv(u)'
  <2>1. e \in Events /\ e.type \in {"start", "block", "chunk", "stop", "end"}
    BY <1>1, LinesOfSent, StreamEventIs
  <2>2. log' = log /\ speech' \in States /\ Heard(log', speech, e, speech')
    BY <1>3, <2>1 DEF SpeakStream, Heard
  <2>3. CASE u \in members
    BY <1>1, <1>3, <2>1, <2>2, <2>3, LiveHears DEF SpokenTo
  <2>4. CASE u \notin members
    BY <1>1, <1>3, <2>2, <2>4, LiveStays DEF SpokenTo
  <2> QED BY <2>3, <2>4
<1>4. ASSUME NEW line \in Lines, log' = Append(log, line), prompts' = prompts, NEW ws,
             SpokenTo(u, ws, TheLine(Len(log) + 1)), speech' \in States, HeardLine(speech, line, speech'),
             u \in ws \/ speech' = speech \/ u \notin members
      PROVE  LiveInv(u)'
  <2> DEFINE e == TheLine(Len(log) + 1)
  <2>1. e \in Events /\ log'[e.n] = line /\ e.type = "line"
    BY <1>1, <1>4, LinesOfSent, LogGrows DEF TheLine
  <2> HIDE DEF e
  <2>2. SpokenTo(u, ws, e)
    BY <1>4 DEF e
  <2>3. Heard(log', speech, e, speech')
    BY <1>4, <2>1 DEF Heard
  <2>4. CASE u \in ws
    BY <1>1, <1>4, <2>1, <2>2, <2>3, <2>4, LiveHears DEF SpokenTo
  <2>5. CASE u \notin ws
    BY <1>1, <1>4, <2>2, <2>5, LiveStays DEF SpokenTo
  <2> QED BY <2>4, <2>5
<1>5. ASSUME NEW line \in Lines, SpeakLine(line), SpokenTo(u, members, TheLine(Len(log) + 1))
      PROVE  LiveInv(u)'
  BY <1>4, <1>5 DEF SpeakLine
<1>6. ASSUME NEW w \in Windows, HandleSend(w), SpokenTo(u, Others(w), TheLine(Len(log) + 1))
      PROVE  LiveInv(u)'
  <2> DEFINE line == Line("in", Head(up[w]), "")
  <2>1. line \in Lines /\ log' = Append(log, line) /\ prompts' = prompts /\ speech' = speech /\ line.type = "in"
    BY <1>1, <1>6, HandleSendIs
  <2> HIDE DEF line
  <2>2. HeardLine(speech, line, speech')
    BY <2>1 DEF HeardLine
  <2> QED BY <1>1, <1>4, <1>6, <2>1, <2>2
<1>7. CASE Own(u)
  BY <1>7, LiveOwn
<1> QED BY <1>1, <1>2, <1>3, <1>5, <1>6, <1>7, Steps

\* The process says no block before it began one.
LEMMA NumbersNext ==
  ASSUME TypeOK, RefsInv, LogInv, Numbers(log), [Next]_vars
  PROVE  Numbers(log')
<1>1. ASSUME NEW line \in Lines, log' = Append(log, line), prompts' = prompts, line.type = "said" => line.n # 0
      PROVE  Numbers(log')
  BY <1>1, LogGrows DEF Numbers, Grows
<1>2. CASE log' = log
  BY <1>2
<1>3. ASSUME NEW line \in Lines, SpeakLine(line) PROVE Numbers(log')
  <2>1. line.type = "said" => line.n # 0
    BY <1>3 DEF SpeakLine, HeardLine, LogInv, SaidBefore
  <2> QED BY <1>1, <1>3, <2>1 DEF SpeakLine
<1>4. ASSUME NEW w \in Windows, HandleSend(w) PROVE Numbers(log')
  <2>1. /\ Line("in", Head(up[w]), "") \in Lines /\ Line("in", Head(up[w]), "").type = "in"
        /\ log' = Append(log, Line("in", Head(up[w]), "")) /\ prompts' = prompts
    BY <1>4, HandleSendIs
  <2> QED BY <1>1, <2>1
<1>5. CASE Speak
  BY <1>2, <1>3, <1>5, SpeakIs DEF SpeakStream
<1>6. CASE ~Speak
  BY <1>2, <1>4, <1>6 DEF Next, vars, Store, Join, AskEcho, Read, Deliver, Receive, Gap, Type
<1> QED BY <1>5, <1>6

ReplayInv == MeetInv /\ Numbers(log) /\ \A w \in Windows : LiveInv(w)

LEMMA ReplayInvInit == Init => ReplayInv
<1> SUFFICES ASSUME Init PROVE ReplayInv
  OBVIOUS
<1>1. MeetInv
  BY TypeInvInit, LogInvInit, WinsInit DEF MeetInv
<1>2. log = <<>> /\ Numbers(<<>>) /\ log \in Seq(Lines)
  <2>1. <<>> \in Seq(Lines) /\ DOMAIN <<>> = {}
    OBVIOUS
  <2> QED BY <2>1 DEF Init, Numbers
<1>3. ASSUME NEW w \in Windows PROVE LiveInv(w)
  <2>1. win[w].msgs = <<>> /\ past[w].given = {} /\ w \notin members
    BY DEF Init
  <2> QED BY <1>2, <2>1, SettledNothing DEF LiveInv, Listening, Quiet
<1> QED BY <1>1, <1>2, <1>3 DEF ReplayInv

\* And what the windows show.
LEMMA ReplayInvariant == Spec => []ReplayInv
<1>1. ASSUME ReplayInv, [Next]_vars PROVE ReplayInv'
  <2>1. MeetInv'
    BY <1>1, MeetInvNext DEF ReplayInv
  <2>2. Numbers(log')
    BY <1>1, NumbersNext DEF ReplayInv, MeetInv, TypeInv
  <2> QED BY <1>1, <2>1, <2>2, LiveInvNext DEF ReplayInv
<1> QED BY <1>1, ReplayInvInit, PTL DEF Spec

\* The invariant implies the property.
LEMMA ReplaysLive ==
  ASSUME ReplayInv
  PROVE  LiveMatchesReplay
<1> SUFFICES ASSUME NEW w \in Windows, ~past[w].lossy, ~past[w].cut
             PROVE  \/ findStreamingTurn(win[w].msgs) # 0 /\ InMessage(w)
                    \/ findStreamingTurn(win[w].msgs) = 0 /\ Flat(win[w].msgs) = Told(past[w].given)
  BY DEF LiveMatchesReplay, Flat, ShownIn
<1>1. Sound(w)
  BY DEF ReplayInv, MeetInv, WinsInv, WinInv, Sound
<1>2. CASE Listening(w)
  <2>1. PICK s \in States : Leads(log, inbox[w], s, speech) /\ LiveOn(log, s, win[w], past[w].given)
    BY <1>1, <1>2 DEF ReplayInv, LiveInv, LiveTo
  <2>2. PICK base \in Seq(Messages) : Settled(log, base, past[w].given) /\ Follows(base, s, win[w])
    BY <2>1 DEF LiveOn
  <2>3. /\ findStreamingTurn(win[w].msgs) = 0 => win[w].msgs = base
        /\ findStreamingTurn(win[w].msgs) # 0 => s.at \in {"message", "block", "said"}
    BY <2>2, FollowsOpen DEF Settled
  <2>4. CASE findStreamingTurn(win[w].msgs) = 0
    BY <2>2, <2>3, <2>4, ToldIs DEF Settled
  <2>5. CASE findStreamingTurn(win[w].msgs) # 0
    <3>1. inbox[w] \in Seq(Events)
      BY ViewIs DEF ReplayInv, MeetInv, TypeInv
    <3>2. InMessage(w)
      BY <2>1, <2>3, <2>5, <3>1, LeadsMessage DEF InMessage
    <3> QED BY <2>5, <3>2
  <2> QED BY <2>4, <2>5
<1>3. CASE ~Listening(w)
  BY <1>1, <1>3, ToldIs DEF ReplayInv, LiveInv, Quiet, Settled
<1> QED BY <1>2, <1>3

\* Streamed or replayed, a window shows each line it was given once, whole and in the order
\* of the log, and leaves no turn streaming when the message is over.
THEOREM LiveIsReplay == Spec => []LiveMatchesReplay
<1> QED BY ReplaysLive, ReplayInvariant, PTL
=============================================================================
