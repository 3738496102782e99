-------------------------- MODULE SelectionProofs --------------------------
(***************************************************************************)
(* Lemmas about numbers, sets and sequences that other proofs rest on.     *)
(* Induction over numbers is taken from the least number that would be an  *)
(* exception; with it a function that calls itself with the number before  *)
(* is what its definition says.                                            *)
(***************************************************************************)
EXTENDS Selection, FiniteSetsExt, SequenceTheorems, FiniteSetTheorems,
        WellFoundedInduction, TLAPS

LEMMA LeastNatural ==
  ASSUME NEW T, T \subseteq Nat, T # {}
  PROVE  \E m \in T : \A k \in T : m <= k
<1> DEFINE Less == OpToRel(<, Nat)
<1>1. IsWellFoundedOn(Less, Nat)
  BY NatLessThanWellFounded
<1>2. \A a, b \in Nat : <<a, b>> \in Less <=> a < b
  BY DEF OpToRel
<1> HIDE DEF Less
<1>3. PICK m \in T : \A k \in T : ~ (<<k, m>> \in Less)
  BY <1>1, WFMin
<1>4. m \in Nat /\ \A k \in T : k \in Nat /\ ~ (k < m)
  BY <1>2, <1>3
<1> QED
  BY <1>4

LEMMA MinIsLeast ==
  ASSUME NEW T, T \subseteq Nat, T # {}
  PROVE  Min(T) \in T /\ \A k \in T : Min(T) <= k
<1>1. PICK m \in T : \A k \in T : m <= k
  BY LeastNatural
<1> QED
  BY <1>1 DEF Min


-----------------------------------------------------------------------------
(* Step by step                                                            *)

Stepwise(f, n, V, base, step) ==
  /\ f \in [0 .. n -> V]
  /\ f[0] = base /\ \A k \in 1 .. n : f[k] = step[k][f[k - 1]]

LEMMA StepByStep ==
  ASSUME NEW n \in Nat, NEW V, NEW base \in V, NEW step \in [1 .. n -> [V -> V]]
  PROVE  \E f : Stepwise(f, n, V, base, step)
<1> DEFINE Good(i) == \E f : Stepwise(f, i, V, base, step)
           Bad == {i \in 0 .. n : ~ Good(i)}
<1>1. Good(0)
  <2> DEFINE f == [k \in 0 .. 0 |-> base]
  <2>1. f \in [0 .. 0 -> V] /\ f[0] = base /\ 1 .. 0 = {}
    OBVIOUS
  <2> QED
    BY <2>1 DEF Stepwise
<1>2. ASSUME NEW i \in 0 .. n - 1, Good(i)
      PROVE  Good(i + 1)
  <2>1. PICK f \in [0 .. i -> V] : f[0] = base /\ \A k \in 1 .. i : f[k] = step[k][f[k - 1]]
    BY <1>2 DEF Stepwise
  <2>2. f[i] \in V /\ step[i + 1][f[i]] \in V
    OBVIOUS
  <2> DEFINE g == [k \in 0 .. i + 1 |-> IF k = i + 1 THEN step[i + 1][f[i]] ELSE f[k]]
  <2>3. g \in [0 .. i + 1 -> V]
    BY <2>2
  <2>4. g[i + 1] = step[i + 1][f[i]] /\ \A k \in 0 .. i : g[k] = f[k]
    OBVIOUS
  <2> HIDE DEF g
  <2>5. ASSUME NEW k \in 1 .. i + 1
        PROVE  g[k] = step[k][g[k - 1]]
    <3>1. CASE k = i + 1
      BY <2>4, <3>1
    <3>2. CASE k # i + 1
      BY <2>1, <2>4, <3>2
    <3> QED
      BY <3>1, <3>2
  <2>6. g[0] = base
    BY <2>1, <2>4
  <2> QED
    BY <2>3, <2>5, <2>6 DEF Stepwise
<1> HIDE DEF Good
<1>3. Bad = {}
  <2> SUFFICES ASSUME Bad # {} PROVE FALSE
    OBVIOUS
  <2>1. PICK i \in Bad : \A j \in Bad : i <= j
    <3>1. Bad \subseteq Nat
      OBVIOUS
    <3> HIDE DEF Bad
    <3> QED
      BY <3>1, LeastNatural
  <2>2. i # 0
    BY <1>1, <2>1
  <2>3. i - 1 \in 0 .. n - 1 /\ i - 1 \notin Bad
    BY <2>1, <2>2
  <2> QED
    BY <1>2, <2>1, <2>3
<1>4. Good(n)
  BY <1>3
<1> QED
  BY <1>4 DEF Good

LEMMA KeptRows ==
  ASSUME NEW S, NEW s \in Seq(S), NEW T
  PROVE  /\ KeptUpTo(s, T) \in [0 .. Len(s) -> Seq(S)]
         /\ KeptUpTo(s, T)[0] = <<>>
         /\ \A n \in 1 .. Len(s) :
              KeptUpTo(s, T)[n] = IF s[n] \in T THEN Append(KeptUpTo(s, T)[n - 1], s[n])
                                  ELSE KeptUpTo(s, T)[n - 1]
<1> DEFINE step == [n \in 1 .. Len(s) |-> [kept \in Seq(S) |->
                      IF s[n] \in T THEN Append(kept, s[n]) ELSE kept]]
           Rows(f) == [n \in 0 .. Len(s) |->
                         IF n = 0 THEN <<>>
                         ELSE IF s[n] \in T THEN Append(f[n - 1], s[n]) ELSE f[n - 1]]
<1>1. Len(s) \in Nat /\ \A n \in 1 .. Len(s) : s[n] \in S
  BY ElementOfSeq, LenProperties
<1>2. step \in [1 .. Len(s) -> [Seq(S) -> Seq(S)]]
  <2>1. ASSUME NEW n \in 1 .. Len(s), NEW kept \in Seq(S)
        PROVE  (IF s[n] \in T THEN Append(kept, s[n]) ELSE kept) \in Seq(S)
    BY <1>1, AppendProperties
  <2> QED
    BY <2>1
<1>3. PICK f \in [0 .. Len(s) -> Seq(S)] :
        f[0] = <<>> /\ \A k \in 1 .. Len(s) : f[k] = step[k][f[k - 1]]
  <2>1. <<>> \in Seq(S)
    BY EmptySeq
  <2> HIDE DEF step
  <2> DEFINE V == Seq(S)  base == <<>>  n == Len(s)
  <2>2. n \in Nat /\ base \in V /\ step \in [1 .. n -> [V -> V]]
    BY <1>1, <1>2, <2>1
  <2> HIDE DEF V, base, n
  <2>3. PICK f : Stepwise(f, n, V, base, step)
    BY <2>2, StepByStep
  <2> QED
    BY <2>3 DEF V, base, n, Stepwise
<1>4. \A k \in 1 .. Len(s) : f[k] = IF s[k] \in T THEN Append(f[k - 1], s[k]) ELSE f[k - 1]
  <2> TAKE k \in 1 .. Len(s)
  <2>1. f[k - 1] \in Seq(S)
    BY <1>1, <1>3
  <2> QED
    BY <1>3, <2>1
<1> HIDE DEF step
<1>5. f = Rows(f)
  <2>1. f = [n \in 0 .. Len(s) |-> f[n]]
    BY <1>3
  <2>2. ASSUME NEW n \in 0 .. Len(s)
        PROVE  f[n] = IF n = 0 THEN <<>>
                      ELSE IF s[n] \in T THEN Append(f[n - 1], s[n]) ELSE f[n - 1]
    <3>1. n = 0 \/ n \in 1 .. Len(s)
      BY <1>1
    <3> QED
      BY <1>3, <1>4, <3>1
  <2> QED
    BY <2>1, <2>2, Zenon
<1> DEFINE M == KeptUpTo(s, T)
<1>6. M = CHOOSE m : m = Rows(m)
  BY DEF KeptUpTo
<1>7. M = Rows(M)
  <2> HIDE DEF M, Rows
  <2> QED
    BY <1>5, <1>6
<1> HIDE DEF M
<1>8. /\ M[0] = <<>>
      /\ \A n \in 1 .. Len(s) : M[n] = IF s[n] \in T THEN Append(M[n - 1], s[n]) ELSE M[n - 1]
      /\ M = [n \in 0 .. Len(s) |-> M[n]]
  <2>1. 0 \in 0 .. Len(s) /\ \A n \in 1 .. Len(s) : n \in 0 .. Len(s) /\ n # 0
    BY <1>1
  <2>2. \A n \in 0 .. Len(s) :
          M[n] = IF n = 0 THEN <<>>
                 ELSE IF s[n] \in T THEN Append(M[n - 1], s[n]) ELSE M[n - 1]
    BY <1>7, Zenon
  <2>3. M = [n \in 0 .. Len(s) |-> M[n]]
    BY <1>7
  <2> QED
    BY <2>1, <2>2, <2>3
<1>9. \A n \in 0 .. Len(s) : M[n] \in Seq(S)
  <2> DEFINE Bad == {n \in 0 .. Len(s) : M[n] \notin Seq(S)}
  <2> SUFFICES ASSUME Bad # {} PROVE FALSE
    OBVIOUS
  <2>1. PICK i \in Bad : \A j \in Bad : i <= j
    <3>1. Bad \subseteq Nat
      OBVIOUS
    <3> HIDE DEF Bad
    <3> QED
      BY <3>1, LeastNatural
  <2>2. i # 0
    BY <1>8, <2>1, EmptySeq
  <2>3. i - 1 \in 0 .. Len(s) /\ i - 1 \notin Bad /\ i \in 1 .. Len(s)
    BY <1>1, <2>1, <2>2
  <2>4. M[i - 1] \in Seq(S)
    BY <2>3
  <2>5. M[i] \in Seq(S)
    <3>1. M[i] = IF s[i] \in T THEN Append(M[i - 1], s[i]) ELSE M[i - 1]
      BY <1>8, <2>3
    <3>2. Append(M[i - 1], s[i]) \in Seq(S)
      BY <1>1, <2>3, <2>4, AppendProperties
    <3> QED
      BY <2>4, <3>1, <3>2
  <2> QED
    BY <2>1, <2>5
<1>10. M \in [0 .. Len(s) -> Seq(S)]
  BY <1>8, <1>9
<1> QED
  BY <1>8, <1>10 DEF M

LEMMA KeptIsSeq ==
  ASSUME NEW S, NEW s \in Seq(S), NEW T
  PROVE  Kept(s, T) \in Seq(S)
<1>1. Len(s) \in 0 .. Len(s)
  BY LenProperties
<1> QED
  BY <1>1, KeptRows DEF Kept

-----------------------------------------------------------------------------
(* Which members are kept                                                  *)

(* How many members of the first n are in T, and which. *)
PlacesIn(s, T, n) == {i \in 1 .. n : s[i] \in T}

LEMMA PlacesAreFinite ==
  ASSUME NEW s, NEW T, NEW n \in Nat
  PROVE  IsFiniteSet(PlacesIn(s, T, n)) /\ Cardinality(PlacesIn(s, T, n)) \in Nat
<1>1. IsFiniteSet(1 .. n)
  BY FS_Interval
<1>2. IsFiniteSet(PlacesIn(s, T, n))
  BY <1>1, FS_Subset DEF PlacesIn
<1> QED
  BY <1>2, FS_CardinalityType

LEMMA OnePlaceMore ==
  ASSUME NEW s, NEW T, NEW n \in Nat
  PROVE  Cardinality(PlacesIn(s, T, n + 1))
           = Cardinality(PlacesIn(s, T, n)) + (IF s[n + 1] \in T THEN 1 ELSE 0)
<1>1. n + 1 \notin PlacesIn(s, T, n)
  BY DEF PlacesIn
<1>2. PlacesIn(s, T, n + 1) = PlacesIn(s, T, n) \cup (IF s[n + 1] \in T THEN {n + 1} ELSE {})
  BY DEF PlacesIn
<1>3. CASE s[n + 1] \in T
  <2>1. PlacesIn(s, T, n + 1) = PlacesIn(s, T, n) \cup {n + 1}
    BY <1>2, <1>3
  <2>2. Cardinality(PlacesIn(s, T, n + 1)) = Cardinality(PlacesIn(s, T, n)) + 1
    BY <1>1, <2>1, PlacesAreFinite, FS_AddElement
  <2> QED
    BY <1>3, <2>2
<1>4. CASE s[n + 1] \notin T
  <2>1. PlacesIn(s, T, n + 1) = PlacesIn(s, T, n)
    BY <1>2, <1>4
  <2> QED
    BY <1>4, <2>1, PlacesAreFinite
<1> QED
  BY <1>3, <1>4

(* A place that is kept comes as many places behind the first kept one as  *)
(* there are kept ones before it.                                          *)
KeptRight(s, T, n) ==
  /\ Len(KeptUpTo(s, T)[n]) = Cardinality(PlacesIn(s, T, n))
  /\ \A i \in PlacesIn(s, T, n) :
       LET at == Cardinality(PlacesIn(s, T, i - 1)) + 1
       IN  at \in 1 .. Len(KeptUpTo(s, T)[n]) /\ KeptUpTo(s, T)[n][at] = s[i]

LEMMA KeptIsRight ==
  ASSUME NEW S, NEW s \in Seq(S), NEW T
  PROVE  KeptRight(s, T, Len(s))
<1> DEFINE K == KeptUpTo(s, T)
           P(n) == PlacesIn(s, T, n)
           Bad == {n \in 0 .. Len(s) : ~ KeptRight(s, T, n)}
<1>1. Len(s) \in Nat /\ \A n \in 1 .. Len(s) : s[n] \in S
  BY ElementOfSeq, LenProperties
<1>2. /\ K \in [0 .. Len(s) -> Seq(S)] /\ K[0] = <<>>
      /\ \A n \in 1 .. Len(s) : K[n] = IF s[n] \in T THEN Append(K[n - 1], s[n]) ELSE K[n - 1]
  BY KeptRows
<1>3. KeptRight(s, T, 0)
  <2>1. PlacesIn(s, T, 0) = {}
    BY DEF PlacesIn
  <2>2. Len(K[0]) = 0
    BY <1>2, EmptySeq
  <2> QED
    BY <2>1, <2>2, FS_EmptySet DEF KeptRight
<1> HIDE DEF K
<1>4. ASSUME NEW n \in 0 .. Len(s) - 1, KeptRight(s, T, n)
      PROVE  KeptRight(s, T, n + 1)
  <2>1. n \in Nat /\ n + 1 \in 1 .. Len(s) /\ (n + 1) - 1 = n /\ n \in 0 .. Len(s) /\ s[n + 1] \in S
    BY <1>1
  <2>2. K[n] \in Seq(S) /\ K[n + 1] = IF s[n + 1] \in T THEN Append(K[n], s[n + 1]) ELSE K[n]
    BY <1>2, <2>1
  <2>3. /\ Len(K[n]) = Cardinality(P(n))
        /\ \A i \in P(n) : LET at == Cardinality(P(i - 1)) + 1
                           IN  at \in 1 .. Len(K[n]) /\ K[n][at] = s[i]
    BY <1>4 DEF KeptRight, K
  <2>4. Len(K[n]) \in Nat
    BY <2>2, LenProperties
  <2>5. CASE s[n + 1] \in T
    <3>1. /\ Len(K[n + 1]) = Len(K[n]) + 1 /\ K[n + 1][Len(K[n]) + 1] = s[n + 1]
          /\ \A j \in 1 .. Len(K[n]) : K[n + 1][j] = K[n][j]
      BY <2>1, <2>2, <2>5, AppendProperties
    <3>2. Cardinality(P(n + 1)) = Cardinality(P(n)) + 1
      BY <2>1, <2>5, OnePlaceMore
    <3>3. ASSUME NEW i \in P(n + 1)
          PROVE  LET at == Cardinality(P(i - 1)) + 1
                 IN  at \in 1 .. Len(K[n + 1]) /\ K[n + 1][at] = s[i]
      <4>1. CASE i = n + 1
        BY <2>1, <2>3, <2>4, <3>1, <4>1
      <4>2. CASE i # n + 1
        <5>1. i \in P(n)
          BY <2>1, <3>3, <4>2 DEF PlacesIn
        <5> DEFINE at == Cardinality(P(i - 1)) + 1
        <5>2. at \in 1 .. Len(K[n]) /\ K[n][at] = s[i]
          BY <2>3, <5>1
        <5> HIDE DEF at
        <5>3. at \in 1 .. Len(K[n + 1]) /\ K[n + 1][at] = s[i]
          BY <2>4, <3>1, <5>2
        <5> QED
          BY <5>3 DEF at
      <4> QED
        BY <4>1, <4>2
    <3> QED
      BY <2>3, <3>1, <3>2, <3>3 DEF KeptRight, K
  <2>6. CASE s[n + 1] \notin T
    <3>1. K[n + 1] = K[n]
      BY <2>2, <2>6
    <3>2. P(n + 1) = P(n)
      BY <2>1, <2>6 DEF PlacesIn
    <3> QED
      BY <2>3, <3>1, <3>2 DEF KeptRight, K
  <2> QED
    BY <2>5, <2>6
<1>5. Bad = {}
  <2> SUFFICES ASSUME Bad # {} PROVE FALSE
    OBVIOUS
  <2>1. PICK n \in Bad : \A m \in Bad : n <= m
    <3>1. Bad \subseteq Nat
      OBVIOUS
    <3> HIDE DEF Bad
    <3> QED
      BY <3>1, LeastNatural
  <2>2. n # 0
    BY <1>3, <2>1
  <2>3. n - 1 \in 0 .. Len(s) - 1 /\ n - 1 \notin Bad /\ (n - 1) + 1 = n
    BY <1>1, <2>1, <2>2
  <2>4. KeptRight(s, T, n - 1)
    BY <1>1, <2>3
  <2>5. KeptRight(s, T, n)
    BY <1>4, <2>3, <2>4
  <2> QED
    BY <2>1, <2>5
<1> QED
  BY <1>1, <1>5

LEMMA AppendAny ==
  ASSUME NEW S, NEW s \in Seq(S), NEW e
  PROVE  /\ \E T : Append(s, e) \in Seq(T)
         /\ Len(s) \in Nat /\ Len(Append(s, e)) = Len(s) + 1
         /\ DOMAIN s = 1 .. Len(s) /\ DOMAIN Append(s, e) = 1 .. Len(s) + 1
         /\ \A i \in 1 .. Len(s) : Append(s, e)[i] = s[i]
         /\ Append(s, e)[Len(s) + 1] = e
<1>1. s \in Seq(S \cup {e})
  BY SeqMonotonic
<1>2. /\ Append(s, e) \in Seq(S \cup {e}) /\ Len(Append(s, e)) = Len(s) + 1
      /\ \A i \in 1 .. Len(s) : Append(s, e)[i] = s[i]
      /\ Append(s, e)[Len(s) + 1] = e
  BY <1>1, AppendProperties
<1>3. Len(s) \in Nat /\ DOMAIN s = 1 .. Len(s)
  BY LenProperties
<1>4. DOMAIN Append(s, e) = 1 .. Len(Append(s, e))
  BY <1>2, LenProperties
<1> QED
  BY <1>2, <1>3, <1>4

-----------------------------------------------------------------------------
(* Sorting                                                                 *)

LEMMA MaxIsGreatest ==
  ASSUME NEW n \in Nat, NEW S, S \subseteq 1 .. n, S # {}
  PROVE  Max(S) \in S /\ \A j \in S : j <= Max(S)
<1> DEFINE T == {n - i : i \in S}
<1>1. T \subseteq Nat /\ T # {}
  <2>1. \A i \in 1 .. n : n - i \in Nat
    OBVIOUS
  <2> QED
    BY <2>1
<1>2. PICK m \in T : \A k \in T : m <= k
  <2> HIDE DEF T
  <2> QED
    BY <1>1, LeastNatural
<1>3. PICK x \in S : m = n - x
  BY <1>2
<1>4. \A y \in S : x >= y
  <2> TAKE y \in S
  <2>1. n - y \in T
    OBVIOUS
  <2>2. x \in 1 .. n /\ y \in 1 .. n
    OBVIOUS
  <2>3. n - x <= n - y
    BY <1>2, <1>3, <2>1
  <2> QED
    BY <2>2, <2>3
<1>5. Max(S) \in S /\ \A y \in S : Max(S) >= y
  BY <1>3, <1>4 DEF Max
<1> QED
  BY <1>5

(* A finite set of numbers, in their order. *)
Enumerates(s, S) ==
  /\ s \in [1 .. Cardinality(S) -> S] /\ Ascending(s)
  /\ \A x \in S : \E k \in 1 .. Cardinality(S) : s[k] = x

LEMMA AscendingEnumerates ==
  ASSUME NEW n \in Nat, NEW S, S \subseteq Nat, IsFiniteSet(S), Cardinality(S) = n,
         \A T : /\ T \subseteq Nat /\ IsFiniteSet(T) /\ Cardinality(T) \in Nat
                /\ Cardinality(T) < n
                => \E s : Enumerates(s, T)
  PROVE  \E s : Enumerates(s, S)
<1>1. CASE n = 0
  <2>1. S = {}
    BY <1>1, FS_EmptySet
  <2> DEFINE s == [k \in 1 .. 0 |-> 0]
  <2>2. s \in [1 .. 0 -> {}] /\ Ascending(s)
    BY DEF Ascending
  <2> QED
    BY <1>1, <2>1, <2>2 DEF Enumerates
<1>2. CASE n # 0
  <2>1. S # {}
    BY <1>2, FS_EmptySet
  <2>2. PICK m \in S : \A x \in S : m <= x
    BY <2>1, LeastNatural
  <2> DEFINE T == S \ {m}
  <2>3. /\ T \subseteq Nat /\ IsFiniteSet(T) /\ Cardinality(T) = n - 1
        /\ n - 1 \in Nat /\ n - 1 < n
    BY <1>2, FS_RemoveElement
  <2>4. PICK t : Enumerates(t, T)
    BY <2>3
  <2>5. /\ t \in [1 .. n - 1 -> T] /\ Ascending(t)
        /\ \A x \in T : \E k \in 1 .. n - 1 : t[k] = x
    BY <2>3, <2>4 DEF Enumerates
  <2>6. \A x \in T : m < x /\ x \in S /\ x \in Nat
    BY <2>2
  <2>13. \A x \in S : x = m \/ x \in T
    OBVIOUS
  <2> HIDE DEF T
  <2> DEFINE s == [k \in 1 .. n |-> IF k = 1 THEN m ELSE t[k - 1]]
  <2>7. \A k \in 1 .. n : k = 1 \/ k - 1 \in 1 .. n - 1
    OBVIOUS
  <2>8. \A k \in 1 .. n : s[k] = IF k = 1 THEN m ELSE t[k - 1]
    OBVIOUS
  <2>9. s \in [1 .. n -> S]
    BY <2>2, <2>5, <2>6, <2>7
  <2>10. DOMAIN s = 1 .. n
    OBVIOUS
  <2> HIDE DEF s
  <2>11. ASSUME NEW j \in 1 .. n, NEW k \in 1 .. n, j < k
         PROVE  s[j] < s[k]
    <3>1. k # 1 /\ k - 1 \in 1 .. n - 1 /\ s[k] = t[k - 1]
      BY <2>7, <2>8, <2>11
    <3>2. CASE j = 1
      BY <2>5, <2>6, <2>8, <3>1, <3>2
    <3>3. CASE j # 1
      <4>1. j - 1 \in 1 .. n - 1 /\ j - 1 < k - 1 /\ s[j] = t[j - 1]
        BY <2>7, <2>8, <2>11, <3>3
      <4> QED
        BY <2>5, <3>1, <4>1 DEF Ascending
    <3> QED
      BY <3>2, <3>3
  <2>12. \A x \in S : \E k \in 1 .. n : s[k] = x
    <3> TAKE x \in S
    <3>1. CASE x = m
      <4>1. 1 \in 1 .. n
        BY <1>2
      <4> QED
        BY <2>8, <3>1, <4>1
    <3>2. CASE x \in T
      <4>1. PICK k \in 1 .. n - 1 : t[k] = x
        BY <2>5, <3>2
      <4>2. k + 1 \in 1 .. n /\ k + 1 # 1 /\ (k + 1) - 1 = k
        OBVIOUS
      <4> QED
        BY <2>8, <4>1, <4>2
    <3> QED
      BY <2>13, <3>1, <3>2
  <2> QED
    BY <2>9, <2>10, <2>11, <2>12 DEF Enumerates, Ascending
<1> QED
  BY <1>1, <1>2

LEMMA Enumerable ==
  ASSUME NEW S, S \subseteq Nat, IsFiniteSet(S)
  PROVE  \E s : Enumerates(s, S)
<1> DEFINE Odd(T) == T \subseteq Nat /\ IsFiniteSet(T) /\ ~ \E s : Enumerates(s, T)
           Bad == {n \in Nat : \E T : Odd(T) /\ Cardinality(T) = n}
<1> SUFFICES ASSUME Odd(S) PROVE FALSE
  OBVIOUS
<1>1. Cardinality(S) \in Bad
  BY FS_CardinalityType
<1>2. PICK n \in Bad : \A k \in Bad : n <= k
  <2>1. Bad \subseteq Nat /\ Bad # {}
    BY <1>1
  <2> HIDE DEF Bad
  <2> QED
    BY <2>1, LeastNatural
<1>3. PICK T : Odd(T) /\ Cardinality(T) = n
  BY <1>2
<1>4. n \in Nat
  BY <1>2
<1>5. \A U : /\ U \subseteq Nat /\ IsFiniteSet(U) /\ Cardinality(U) \in Nat
             /\ Cardinality(U) < n
             => \E s : Enumerates(s, U)
  <2> SUFFICES ASSUME NEW U, U \subseteq Nat, IsFiniteSet(U), Cardinality(U) \in Nat,
                      Cardinality(U) < n, ~ \E s : Enumerates(s, U)
               PROVE  FALSE
    OBVIOUS
  <2>1. Cardinality(U) \in Bad
    OBVIOUS
  <2>2. n <= Cardinality(U)
    BY <1>2, <2>1
  <2> QED
    BY <1>4, <2>2
<1> QED
  BY <1>3, <1>4, <1>5, AscendingEnumerates

(* An ascending sequence of all members: it repeats none. *)
LEMMA AscendingIsWhole ==
  ASSUME NEW S, S \subseteq Nat, IsFiniteSet(S),
         NEW s \in [1 .. Cardinality(S) -> S], Ascending(s)
  PROVE  \A x \in S : \E k \in 1 .. Cardinality(S) : s[k] = x
<1> DEFINE n == Cardinality(S)
<1>1. n \in Nat
  BY FS_CardinalityType
<1>2. IsFiniteSet(1 .. n) /\ Cardinality(1 .. n) = n
  BY <1>1, FS_Interval
<1>3. s \in Injection(1 .. n, S)
  <2>1. \A j, k \in 1 .. n : j # k => s[j] # s[k]
    <3> TAKE j, k \in 1 .. n
    <3>1. (j < k => s[j] < s[k]) /\ (k < j => s[k] < s[j]) /\ s[j] \in Nat /\ s[k] \in Nat
      BY DEF Ascending
    <3>2. j # k => j < k \/ k < j
      BY <1>1
    <3> QED
      BY <3>1, <3>2
  <2> HIDE DEF n
  <2>2. IsInjective(s)
    BY <2>1 DEF IsInjective, n
  <2> QED
    BY <2>2 DEF Injection, n
<1>4. s \in Surjection(1 .. n, S)
  BY <1>1, <1>2, <1>3, FS_Injection
<1> QED
  BY <1>4 DEF Surjection

LEMMA SortedIs ==
  ASSUME NEW S, S \subseteq Nat, IsFiniteSet(S)
  PROVE  /\ Sorted(S) \in Seq(S) /\ Ascending(Sorted(S))
         /\ DOMAIN Sorted(S) = 1 .. Cardinality(S)
         /\ \A x : x \in S <=> \E k \in DOMAIN Sorted(S) : Sorted(S)[k] = x
<1>1. PICK t : Enumerates(t, S)
  BY Enumerable
<1>2. t \in [1 .. Cardinality(S) -> S] /\ Ascending(t)
  BY <1>1 DEF Enumerates
<1> DEFINE s == Sorted(S)
<1>3. s \in [1 .. Cardinality(S) -> S] /\ Ascending(s)
  BY <1>2 DEF Sorted
<1> HIDE DEF s
<1>4. \A x \in S : \E k \in 1 .. Cardinality(S) : s[k] = x
  BY <1>3, AscendingIsWhole
<1>5. s \in Seq(S)
  <2>1. Cardinality(S) \in Nat
    BY FS_CardinalityType
  <2> QED
    BY <1>3, <2>1, IsASeq
<1> QED
  BY <1>3, <1>4, <1>5 DEF s


-----------------------------------------------------------------------------
(* More about what is kept                                                 *)

(* What is kept of the first n members is in T and among them. *)
LEMMA KeptAreChosen ==
  ASSUME NEW S, NEW s \in Seq(S), NEW T
  PROVE  \A j \in 1 .. Len(Kept(s, T)) :
           Kept(s, T)[j] \in T /\ \E i \in 1 .. Len(s) : Kept(s, T)[j] = s[i]
<1> DEFINE K == KeptUpTo(s, T)
           Fine(n) == \A j \in 1 .. Len(K[n]) :
                        K[n][j] \in T /\ \E i \in 1 .. Len(s) : K[n][j] = s[i]
           Bad == {n \in 0 .. Len(s) : ~ Fine(n)}
<1>1. Len(s) \in Nat /\ \A n \in 1 .. Len(s) : s[n] \in S
  BY ElementOfSeq, LenProperties
<1>2. /\ K \in [0 .. Len(s) -> Seq(S)] /\ K[0] = <<>>
      /\ \A n \in 1 .. Len(s) : K[n] = IF s[n] \in T THEN Append(K[n - 1], s[n]) ELSE K[n - 1]
  BY KeptRows
<1> HIDE DEF K
<1>3. Fine(0)
  <2>1. Len(K[0]) = 0
    BY <1>2, EmptySeq
  <2> QED
    BY <2>1
<1>4. ASSUME NEW n \in 1 .. Len(s), Fine(n - 1)
      PROVE  Fine(n)
  <2>1. n - 1 \in 0 .. Len(s) /\ K[n - 1] \in Seq(S) /\ s[n] \in S
    BY <1>1, <1>2
  <2>2. CASE s[n] \in T
    <3>0. K[n] = Append(K[n - 1], s[n])
      BY <1>2, <2>2
    <3>1. /\ Len(K[n]) = Len(K[n - 1]) + 1 /\ K[n][Len(K[n - 1]) + 1] = s[n]
          /\ \A j \in 1 .. Len(K[n - 1]) : K[n][j] = K[n - 1][j]
          /\ Len(K[n - 1]) \in Nat
      BY <2>1, <3>0, AppendProperties, LenProperties
    <3>2. \A j \in 1 .. Len(K[n]) : j = Len(K[n - 1]) + 1 \/ j \in 1 .. Len(K[n - 1])
      BY <3>1
    <3> QED
      BY <1>4, <2>2, <3>1, <3>2
  <2>3. CASE s[n] \notin T
    <3>1. K[n] = K[n - 1]
      BY <1>2, <2>3
    <3> QED
      BY <1>4, <3>1
  <2> QED
    BY <2>2, <2>3
<1>5. Bad = {}
  <2> SUFFICES ASSUME Bad # {} PROVE FALSE
    OBVIOUS
  <2>1. PICK m \in Bad : \A k \in Bad : m <= k
    <3>1. Bad \subseteq Nat
      OBVIOUS
    <3> HIDE DEF Bad
    <3> QED
      BY <3>1, LeastNatural
  <2>2. m # 0
    BY <1>3, <2>1
  <2>3. m \in 1 .. Len(s) /\ m - 1 \in 0 .. Len(s) /\ m - 1 \notin Bad
    BY <1>1, <2>1, <2>2
  <2> QED
    BY <1>4, <2>1, <2>3
<1>6. Fine(Len(s))
  BY <1>1, <1>5
<1> QED
  BY <1>6 DEF Kept, K

(* A sequence that agrees with another about its first n members, in what  *)
(* they are or at least in which of them are chosen, keeps the same.       *)
LEMMA KeptUpToSame ==
  ASSUME NEW S, NEW s \in Seq(S), NEW t \in Seq(S), NEW T, NEW U,
         NEW n \in Nat, n <= Len(s), n <= Len(t),
         \A i \in 1 .. n : s[i] = t[i] /\ (s[i] \in T <=> s[i] \in U)
  PROVE  KeptUpTo(s, T)[n] = KeptUpTo(t, U)[n]
<1> DEFINE K == KeptUpTo(s, T)
           L == KeptUpTo(t, U)
           Bad == {m \in 0 .. n : K[m] # L[m]}
<1>1. Len(s) \in Nat /\ Len(t) \in Nat
  BY LenProperties
<1>2. /\ K[0] = <<>>
      /\ \A m \in 1 .. Len(s) : K[m] = IF s[m] \in T THEN Append(K[m - 1], s[m]) ELSE K[m - 1]
  BY KeptRows
<1>3. /\ L[0] = <<>>
      /\ \A m \in 1 .. Len(t) : L[m] = IF t[m] \in U THEN Append(L[m - 1], t[m]) ELSE L[m - 1]
  BY KeptRows
<1> HIDE DEF K, L
<1>5. Bad = {}
  <2> SUFFICES ASSUME Bad # {} PROVE FALSE
    OBVIOUS
  <2>1. PICK m \in Bad : \A k \in Bad : m <= k
    <3>1. Bad \subseteq Nat
      OBVIOUS
    <3> HIDE DEF Bad
    <3> QED
      BY <3>1, LeastNatural
  <2>2. m # 0
    BY <1>2, <1>3, <2>1
  <2>3. m \in 1 .. n /\ m \in 1 .. Len(s) /\ m \in 1 .. Len(t) /\ m - 1 \in 0 .. n /\ m - 1 \notin Bad
    BY <1>1, <2>1, <2>2
  <2>4. K[m - 1] = L[m - 1]
    BY <2>3
  <2>5. K[m] = L[m]
    BY <1>2, <1>3, <2>3, <2>4
  <2> QED
    BY <2>1, <2>5
<1>6. n \in 0 .. n
  OBVIOUS
<1>7. K[n] = L[n]
  BY <1>5, <1>6
<1> QED
  BY <1>7 DEF K, L

LEMMA KeptSame ==
  ASSUME NEW S, NEW s \in Seq(S), NEW T, NEW U,
         \A i \in 1 .. Len(s) : s[i] \in T <=> s[i] \in U
  PROVE  Kept(s, T) = Kept(s, U)
<1> DEFINE n == Len(s)
<1>1. n \in Nat /\ n <= Len(s)
  BY LenProperties
<1>2. \A i \in 1 .. n : s[i] = s[i] /\ (s[i] \in T <=> s[i] \in U)
  OBVIOUS
<1> HIDE DEF n
<1>3. KeptUpTo(s, T)[n] = KeptUpTo(s, U)[n]
  BY <1>1, <1>2, KeptUpToSame
<1> QED
  BY <1>3 DEF Kept, n

LEMMA KeptAppend ==
  ASSUME NEW S, NEW s \in Seq(S), NEW e \in S, NEW T
  PROVE  Kept(Append(s, e), T)
           = IF e \in T THEN Append(Kept(s, T), e) ELSE Kept(s, T)
<1> DEFINE t == Append(s, e)
<1>1. /\ Len(s) \in Nat /\ t \in Seq(S) /\ Len(t) = Len(s) + 1 /\ t[Len(s) + 1] = e
      /\ \A i \in 1 .. Len(s) : s[i] = t[i]
  BY AppendProperties, LenProperties
<1> HIDE DEF t
<1>2. KeptUpTo(t, T)[Len(s)] = Kept(s, T)
  <2> DEFINE n == Len(s)
             U == T
  <2>1. n \in Nat /\ n <= Len(s) /\ n <= Len(t)
    BY <1>1
  <2>2. \A i \in 1 .. n : s[i] = t[i] /\ (s[i] \in T <=> s[i] \in U)
    BY <1>1
  <2>4. t \in Seq(S)
    BY <1>1
  <2> HIDE DEF n, U
  <2>3. KeptUpTo(s, T)[n] = KeptUpTo(t, U)[n]
    BY <2>1, <2>2, <2>4, KeptUpToSame
  <2> QED
    BY <2>3 DEF Kept, n, U
<1>3. /\ Len(s) + 1 \in 1 .. Len(t) /\ (Len(s) + 1) - 1 = Len(s)
  BY <1>1
<1>4. KeptUpTo(t, T)[Len(s) + 1] = IF t[Len(s) + 1] \in T THEN Append(KeptUpTo(t, T)[Len(s)], t[Len(s) + 1])
                         ELSE KeptUpTo(t, T)[Len(s)]
  BY <1>1, <1>3, KeptRows
<1> QED
  BY <1>1, <1>2, <1>4 DEF Kept, t

-----------------------------------------------------------------------------
(* Sequences of anything                                                   *)

(* Induction up to a number, for a set. *)
LEMMA ClimbTo ==
  ASSUME NEW n \in Nat, NEW S, 0 \in S, \A k \in 1 .. n : k - 1 \in S => k \in S
  PROVE  \A k \in 0 .. n : k \in S
<1> DEFINE Bad == {k \in 0 .. n : k \notin S}
<1> SUFFICES ASSUME Bad # {} PROVE FALSE
  OBVIOUS
<1>1. PICK m \in Bad : \A k \in Bad : m <= k
  <2>1. Bad \subseteq Nat
    OBVIOUS
  <2> HIDE DEF Bad
  <2> QED
    BY <2>1, LeastNatural
<1>2. m \in 1 .. n /\ m - 1 \in 0 .. n /\ m - 1 \notin Bad
  BY <1>1
<1> QED
  BY <1>1, <1>2

(* A sequence of whatever it holds. *)
IsSeq(s) == \E S : s \in Seq(S)

LEMMA SeqIs ==
  ASSUME NEW s, IsSeq(s)
  PROVE  /\ Len(s) \in Nat /\ DOMAIN s = 1 .. Len(s)
         /\ s = <<>> <=> Len(s) = 0
<1>1. PICK S : s \in Seq(S)
  BY DEF IsSeq
<1> QED
  BY <1>1, LenProperties, EmptySeq

LEMMA IsSeqAppend ==
  ASSUME NEW s, IsSeq(s), NEW e
  PROVE  /\ IsSeq(Append(s, e))
         /\ Len(s) \in Nat /\ Len(Append(s, e)) = Len(s) + 1
         /\ DOMAIN s = 1 .. Len(s) /\ DOMAIN Append(s, e) = 1 .. Len(s) + 1
         /\ \A i \in 1 .. Len(s) : Append(s, e)[i] = s[i]
         /\ Append(s, e)[Len(s) + 1] = e
BY AppendAny DEF IsSeq

LEMMA IsSeqConcat ==
  ASSUME NEW s, IsSeq(s), NEW t, IsSeq(t)
  PROVE  /\ IsSeq(s \o t) /\ Len(s) \in Nat /\ Len(t) \in Nat
         /\ Len(s \o t) = Len(s) + Len(t)
         /\ DOMAIN (s \o t) = 1 .. Len(s) + Len(t)
         /\ \A i \in 1 .. Len(s) : (s \o t)[i] = s[i]
         /\ \A i \in 1 .. Len(t) : (s \o t)[Len(s) + i] = t[i]
<1>1. PICK S, T : s \in Seq(S) /\ t \in Seq(T)
  BY DEF IsSeq
<1>2. s \in Seq(S \cup T) /\ t \in Seq(S \cup T)
  BY <1>1, SeqMonotonic
<1>3. /\ s \o t \in Seq(S \cup T) /\ Len(s \o t) = Len(s) + Len(t)
      /\ \A i \in 1 .. Len(s) + Len(t) :
           (s \o t)[i] = IF i <= Len(s) THEN s[i] ELSE t[i - Len(s)]
  BY <1>2, ConcatProperties
<1>4. Len(s) \in Nat /\ Len(t) \in Nat
  BY <1>1, LenProperties
<1>5. DOMAIN (s \o t) = 1 .. Len(s) + Len(t)
  BY <1>3, LenProperties
<1>6. \A i \in 1 .. Len(s) : i \in 1 .. Len(s) + Len(t) /\ i <= Len(s)
  BY <1>4
<1>7. \A i \in 1 .. Len(t) : /\ Len(s) + i \in 1 .. Len(s) + Len(t)
                             /\ ~ (Len(s) + i <= Len(s)) /\ (Len(s) + i) - Len(s) = i
  BY <1>4
<1>8. /\ \A i \in 1 .. Len(s) : (s \o t)[i] = s[i]
      /\ \A i \in 1 .. Len(t) : (s \o t)[Len(s) + i] = t[i]
  BY <1>3, <1>6, <1>7
<1> QED
  BY <1>3, <1>4, <1>5, <1>8 DEF IsSeq

LEMMA IsSeqPart ==
  ASSUME NEW s, IsSeq(s), NEW n \in Nat, n <= Len(s)
  PROVE  /\ IsSeq(SubSeq(s, 1, n)) /\ Len(SubSeq(s, 1, n)) = n
         /\ \A i \in 1 .. n : SubSeq(s, 1, n)[i] = s[i]
<1>1. PICK S : s \in Seq(S)
  BY DEF IsSeq
<1>2. Len(s) \in Nat /\ \A i \in 1 .. n : s[i] \in S
  BY <1>1, LenProperties, ElementOfSeq
<1>3. /\ SubSeq(s, 1, n) \in Seq(S) /\ Len(SubSeq(s, 1, n)) = n
      /\ \A i \in 1 .. n : SubSeq(s, 1, n)[i] = s[1 + i - 1]
  <2>1. /\ Len(SubSeq(s, 1, n)) = IF 1 <= n THEN n - 1 + 1 ELSE 0
        /\ SubSeq(s, 1, n) \in Seq(S)
        /\ \A i \in 1 .. n - 1 + 1 : SubSeq(s, 1, n)[i] = s[1 + i - 1]
    BY <1>1, <1>2, SubSeqProperties
  <2> QED
    BY <2>1
<1>4. \A i \in 1 .. n : 1 + i - 1 = i
  OBVIOUS
<1> QED
  BY <1>3, <1>4 DEF IsSeq

LEMMA SameSeq ==
  ASSUME NEW s, IsSeq(s), NEW t, IsSeq(t), Len(s) = Len(t),
         \A i \in 1 .. Len(s) : s[i] = t[i]
  PROVE  s = t
<1>1. PICK S, T : s \in Seq(S) /\ t \in Seq(T)
  BY DEF IsSeq
<1>2. s \in Seq(S \cup T) /\ t \in Seq(S \cup T)
  BY <1>1, SeqMonotonic
<1> QED
  BY <1>2, SeqEqual

LEMMA MapIsSeq ==
  ASSUME NEW n \in Nat, NEW f, DOMAIN f = 1 .. n, f = [i \in 1 .. n |-> f[i]]
  PROVE  IsSeq(f) /\ Len(f) = n
<1> DEFINE S == {f[i] : i \in 1 .. n}
<1>1. f \in [1 .. n -> S]
  <2>1. \A i \in 1 .. n : f[i] \in S
    OBVIOUS
  <2> HIDE DEF S
  <2> QED
    BY <2>1
<1>2. f \in Seq(S) /\ Len(f) = n
  BY <1>1, IsASeq, LenProperties
<1> QED
  BY <1>2 DEF IsSeq

=============================================================================
