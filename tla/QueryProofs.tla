---------------------------- MODULE QueryProofs ----------------------------
(***************************************************************************)
(* Proofs about the queries, for any patterns, inventories, lists, blocks, *)
(* references and sections: each query keeps an invariant of its own, and  *)
(* a request steps one of them at a time.                                  *)
(***************************************************************************)
EXTENDS QueryTools, SelectionProofs

-----------------------------------------------------------------------------
(* glob_match: what a pattern means, row by row                            *)

(* What Matches is made of, row by row from the end of the pattern.        *)
IsMatches(p, t, i, m) ==
  \A k \in i .. Len(p) :
    m[k] = IF k = Len(p) THEN {Len(t)} ELSE MatchesBehind(p, t, k, m[k + 1])

LEMMA MatchesExists ==
  ASSUME NEW p, NEW t, Len(p) \in Nat
  PROVE  \A i \in 0 .. Len(p) : \E m : m = [k \in i .. Len(p) |-> m[k]] /\ IsMatches(p, t, i, m)
<1> DEFINE n == Len(p)
           Good(i) == \E m : m = [k \in i .. n |-> m[k]] /\ IsMatches(p, t, i, m)
           Bad == {d \in 0 .. n : ~ Good(n - d)}
<1>1. Good(n)
  <2> DEFINE m == [k \in n .. n |-> {Len(t)}]
  <2>1. m = [k \in n .. n |-> m[k]] /\ IsMatches(p, t, n, m)
    BY DEF IsMatches
  <2> QED
    BY <2>1
<1>2. ASSUME NEW i \in 0 .. n - 1, Good(i + 1)
      PROVE  Good(i)
  <2>1. PICK m : m = [k \in i + 1 .. n |-> m[k]] /\ IsMatches(p, t, i + 1, m)
    BY <1>2
  <2> DEFINE w == [k \in i .. n |-> IF k = i THEN MatchesBehind(p, t, i, m[i + 1]) ELSE m[k]]
  <2>2. w = [k \in i .. n |-> w[k]]
    OBVIOUS
  <2>3. \A k \in i + 1 .. n : w[k] = m[k]
    OBVIOUS
  <2>4. w[i] = MatchesBehind(p, t, i, w[i + 1])
    BY <2>3
  <2> HIDE DEF w
  <2>5. ASSUME NEW k \in i .. n
        PROVE  w[k] = IF k = n THEN {Len(t)} ELSE MatchesBehind(p, t, k, w[k + 1])
    <3>1. CASE k = i
      BY <2>4, <3>1
    <3>2. CASE k # i
      <4>1. k \in i + 1 .. n /\ (k # n => k + 1 \in i + 1 .. n)
        BY <3>2
      <4> QED
        BY <2>1, <2>3, <4>1 DEF IsMatches
    <3> QED
      BY <3>1, <3>2
  <2> QED
    BY <2>2, <2>5 DEF IsMatches
<1>3. Bad = {}
  <2> SUFFICES ASSUME Bad # {} PROVE FALSE
    OBVIOUS
  <2>1. Bad \subseteq Nat
    OBVIOUS
  <2> HIDE DEF Good
  <2>2. \E d \in Bad : \A e \in Bad : d <= e
    <3> HIDE DEF Bad
    <3> QED
      BY <2>1, LeastNatural
  <2>3. PICK d \in Bad : \A e \in Bad : d <= e
    BY <2>2
  <2>4. d # 0 /\ d \in 0 .. n
    BY <1>1, <2>3
  <2>5. d - 1 \in 0 .. n /\ d - 1 \notin Bad
    BY <2>3, <2>4
  <2>6. n - d \in 0 .. n - 1 /\ (n - d) + 1 = n - (d - 1)
    BY <2>4
  <2> QED
    BY <1>2, <2>3, <2>5, <2>6
<1> HIDE DEF Good
<1>4. \A i \in 0 .. n : n - i \in 0 .. n /\ n - (n - i) = i
  OBVIOUS
<1>5. \A i \in 0 .. n : Good(i)
  BY <1>3, <1>4
<1> QED
  BY <1>5 DEF Good

LEMMA MatchesRows ==
  ASSUME NEW p, NEW t, Len(p) \in Nat
  PROVE  /\ Matches(p, t)[Len(p)] = {Len(t)}
         /\ \A i \in 0 .. Len(p) - 1 :
              Matches(p, t)[i] = MatchesBehind(p, t, i, Matches(p, t)[i + 1])
<1> DEFINE Rows(m) == [i \in 0 .. Len(p) |->
                         IF i = Len(p) THEN {Len(t)} ELSE MatchesBehind(p, t, i, m[i + 1])]
<1>1. \E m : m = Rows(m)
  <2>1. 0 \in 0 .. Len(p)
    OBVIOUS
  <2>2. PICK m : m = [k \in 0 .. Len(p) |-> m[k]] /\ IsMatches(p, t, 0, m)
    BY <2>1, MatchesExists
  <2>3. m = Rows(m)
    BY <2>2 DEF IsMatches
  <2> QED
    BY <2>3
<1>2. Matches(p, t) = CHOOSE m : m = Rows(m)
  BY DEF Matches
<1>3. Matches(p, t) = Rows(Matches(p, t))
  <2> HIDE DEF Rows
  <2> QED
    BY <1>1, <1>2
<1> DEFINE M == Matches(p, t)
<1>4. \A i \in 0 .. Len(p) :
        M[i] = IF i = Len(p) THEN {Len(t)} ELSE MatchesBehind(p, t, i, M[i + 1])
  <2> HIDE DEF M
  <2> QED
    BY <1>3 DEF M
<1>5. Len(p) \in 0 .. Len(p) /\ \A i \in 0 .. Len(p) - 1 : i \in 0 .. Len(p) /\ i # Len(p)
  OBVIOUS
<1> HIDE DEF M
<1>6. /\ M[Len(p)] = {Len(t)}
      /\ \A i \in 0 .. Len(p) - 1 : M[i] = MatchesBehind(p, t, i, M[i + 1])
  BY <1>4, <1>5
<1> QED
  BY <1>6 DEF M

LEMMA MatchesInText ==
  ASSUME NEW p, NEW t, Len(p) \in Nat, Len(t) \in Nat, NEW i \in 0 .. Len(p)
  PROVE  Matches(p, t)[i] \subseteq 0 .. Len(t)
<1>1. CASE i = Len(p)
  <2>1. Matches(p, t)[i] = {Len(t)}
    BY <1>1, MatchesRows
  <2> QED
    BY <2>1
<1>2. CASE i # Len(p)
  <2>1. i \in 0 .. Len(p) - 1
    BY <1>2
  <2>2. Matches(p, t)[i] = MatchesBehind(p, t, i, Matches(p, t)[i + 1])
    BY <2>1, MatchesRows
  <2> QED
    BY <2>2 DEF MatchesBehind
<1> QED
  BY <1>1, <1>2

LEMMA BehindChar ==
  ASSUME NEW p, NEW t, Len(p) \in Nat, Len(t) \in Nat,
         NEW i \in 0 .. Len(p) - 1, p[i + 1] # Star, NEW j \in 0 .. Len(t)
  PROVE  j \in Matches(p, t)[i] <=> /\ j < Len(t) /\ p[i + 1] \in {AnyOne, t[j + 1]}
                                    /\ j + 1 \in Matches(p, t)[i + 1]
<1>1. Matches(p, t)[i] = MatchesBehind(p, t, i, Matches(p, t)[i + 1])
  BY MatchesRows
<1> QED
  BY <1>1 DEF MatchesBehind

LEMMA BehindStar ==
  ASSUME NEW p, NEW t, Len(p) \in Nat, Len(t) \in Nat,
         NEW i \in 0 .. Len(p) - 1, p[i + 1] = Star, NEW j \in 0 .. Len(t)
  PROVE  j \in Matches(p, t)[i] <=> \E k \in Matches(p, t)[i + 1] : j <= k
<1>1. Matches(p, t)[i] = MatchesBehind(p, t, i, Matches(p, t)[i + 1])
  BY MatchesRows
<1> QED
  BY <1>1 DEF MatchesBehind

(* Without a star a piece of the pattern takes as much text as it is long. *)
LEMMA PieceTakesItsLength ==
  ASSUME NEW p, NEW t, Len(p) \in Nat, Len(t) \in Nat,
         NEW a \in 0 .. Len(p), NEW b \in a .. Len(p),
         \A k \in a .. b - 1 : p[k + 1] # Star,
         NEW j \in Matches(p, t)[a]
  PROVE  j + (b - a) \in Matches(p, t)[b]
<1> DEFINE Bad == {d \in 0 .. b - a : j + d \notin Matches(p, t)[a + d]}
<1> SUFFICES Bad = {}
  <2>1. b - a \in 0 .. b - a /\ a + (b - a) = b
    OBVIOUS
  <2> QED
    BY <2>1
<1> SUFFICES ASSUME Bad # {} PROVE FALSE
  OBVIOUS
<1>1. PICK d \in Bad : \A e \in Bad : d <= e
  <2>1. Bad \subseteq Nat
    OBVIOUS
  <2> HIDE DEF Bad
  <2> QED
    BY <2>1, LeastNatural
<1>2. j \in 0 .. Len(t)
  BY MatchesInText
<1>3. d # 0
  BY <1>1, <1>2
<1> DEFINE e == d - 1
<1>4. e \in 0 .. b - a - 1 /\ e \notin Bad /\ e + 1 = d
  BY <1>1, <1>3
<1> HIDE DEF e
<1>5. j + e \in Matches(p, t)[a + e] /\ a + e \in 0 .. Len(p) - 1 /\ a + e \in 0 .. Len(p) /\ a + e \in a .. b - 1
  BY <1>4
<1>6. j + e \in 0 .. Len(t)
  <2>1. Matches(p, t)[a + e] \subseteq 0 .. Len(t)
    BY <1>5, MatchesInText
  <2> QED
    BY <1>5, <2>1
<1>7. p[(a + e) + 1] # Star
  BY <1>5
<1>8. (j + e) + 1 \in Matches(p, t)[(a + e) + 1]
  BY <1>5, <1>6, <1>7, BehindChar
<1>9. (j + e) + 1 = j + d /\ (a + e) + 1 = a + d
  <2>1. j \in Int /\ a \in Int /\ e \in Int
    BY <1>2, <1>4
  <2>2. (j + e) + 1 = j + (e + 1) /\ (a + e) + 1 = a + (e + 1)
    BY <2>1
  <2> QED
    BY <1>4, <2>2
<1> QED
  BY <1>1, <1>8, <1>9

(* At the end of the text only stars match. *)
LEMMA OnlyStarsAtEnd ==
  ASSUME NEW p, NEW t, Len(p) \in Nat, Len(t) \in Nat, NEW i \in 0 .. Len(p)
  PROVE  Len(t) \in Matches(p, t)[i] <=> \A k \in i + 1 .. Len(p) : p[k] = Star
<1> DEFINE n == Len(p)
           Right(x) == Len(t) \in Matches(p, t)[x] <=> \A k \in x + 1 .. n : p[k] = Star
           Bad == {d \in 0 .. n : ~ Right(n - d)}
<1>1. Right(n)
  <2>1. Matches(p, t)[n] = {Len(t)}
    BY MatchesRows
  <2> QED
    BY <2>1
<1>2. ASSUME NEW x \in 0 .. n - 1, Right(x + 1)
      PROVE  Right(x)
  <2>1. CASE p[x + 1] = Star
    <3>1. Len(t) \in Matches(p, t)[x] <=> \E k \in Matches(p, t)[x + 1] : Len(t) <= k
      BY <2>1, BehindStar
    <3>2. Matches(p, t)[x + 1] \subseteq 0 .. Len(t)
      BY MatchesInText
    <3>3. Len(t) \in Matches(p, t)[x] <=> Len(t) \in Matches(p, t)[x + 1]
      BY <3>1, <3>2
    <3>4. (\A k \in x + 1 .. n : p[k] = Star) <=> (\A k \in (x + 1) + 1 .. n : p[k] = Star)
      BY <2>1
    <3> QED
      BY <1>2, <3>3, <3>4
  <2>2. CASE p[x + 1] # Star
    <3>1. Len(t) \notin Matches(p, t)[x]
      BY <2>2, BehindChar
    <3>2. x + 1 \in x + 1 .. n
      OBVIOUS
    <3> QED
      BY <2>2, <3>1, <3>2
  <2> QED
    BY <2>1, <2>2
<1>3. Bad = {}
  <2> SUFFICES ASSUME Bad # {} PROVE FALSE
    OBVIOUS
  <2> HIDE DEF Right
  <2>1. PICK d \in Bad : \A e \in Bad : d <= e
    <3>1. Bad \subseteq Nat
      OBVIOUS
    <3> HIDE DEF Bad
    <3> QED
      BY <3>1, LeastNatural
  <2>2. d # 0 /\ d \in 0 .. n
    BY <1>1, <2>1
  <2>3. d - 1 \in 0 .. n /\ d - 1 \notin Bad
    BY <2>1, <2>2
  <2>4. n - d \in 0 .. n - 1 /\ (n - d) + 1 = n - (d - 1)
    BY <2>2
  <2> QED
    BY <1>2, <2>1, <2>3, <2>4
<1> HIDE DEF Right
<1>4. n - i \in 0 .. n /\ n - (n - i) = i
  OBVIOUS
<1>5. Right(i)
  BY <1>3, <1>4
<1> QED
  BY <1>5 DEF Right

-----------------------------------------------------------------------------
(* glob_match: the loop                                                    *)

(***************************************************************************)
(* The invariant of the matching loop.  Since the last star was met, as    *)
(* much of the pattern is behind as of the text, and none of it is a star: *)
(* so whatever place of the text an older star could have gone on from,    *)
(* the last star can reach as well.                                        *)
(***************************************************************************)
SinceStar ==
  star # NoStar =>
    /\ star \in Nat /\ pi - (star + 1) = ti - starT
    /\ NamesAreStarFree => \A k \in star + 1 .. pi - 1 : pattern[k + 1] # Star

GlobInv ==
  /\ GlobTypeOK
  /\ Len(pattern) \in Nat /\ Len(text) \in Nat
  /\ DOMAIN text = 1 .. Len(text)
  /\ verdict \in BOOLEAN
  /\ gmPc = "idle" => pi = 0 /\ ti = 0 /\ star = NoStar /\ starT = 0
  /\ gmPc = "match" => ~ Occurs(pattern, text)
  /\ SinceStar
  /\ BacktrackIsEnough /\ StarFreeNamesAreRight

(* Where the loop stands is a place from which the pattern matches. *)
Here == ti \in Matches(pattern, text)[pi]

(* The last star, or an older one it stands for, matches if more is taken. *)
Later == star # NoStar /\ \E k \in Matches(pattern, text)[star + 1] : k > starT

LEMMA GlobInitInv == GlobInit => GlobInv
<1> SUFFICES ASSUME GlobInit PROVE GlobInv
  OBVIOUS
<1>1. /\ gmPc = "idle" /\ pattern = <<>> /\ text = <<>> /\ pi = 0 /\ ti = 0
      /\ star = NoStar /\ starT = 0 /\ verdict = FALSE
  BY DEF GlobInit
<1>2. Len(pattern) = 0 /\ Len(text) = 0 /\ DOMAIN text = {} /\ 1 .. 0 = {}
  BY <1>1
<1>3. GlobTypeOK
  BY <1>1, <1>2 DEF GlobTypeOK
<1>4. SinceStar
  BY <1>1 DEF SinceStar
<1>5. BacktrackIsEnough /\ StarFreeNamesAreRight
  BY <1>1 DEF BacktrackIsEnough, StarFreeNamesAreRight
<1>6. Len(text) \in Nat /\ Len(pattern) \in Nat /\ DOMAIN text = 1 .. Len(text)
  BY <1>1, <1>2
<1>7. verdict \in BOOLEAN /\ gmPc # "match"
  BY <1>1
<1> QED
  BY <1>1, <1>3, <1>4, <1>5, <1>6, <1>7 DEF GlobInv

LEMMA GlobStartInv ==
  ASSUME GlobInv, GlobStart
  PROVE  GlobInv'
<1>1. /\ gmPc = "idle" /\ pattern' \in Patterns /\ text' \in Names
      /\ verdict' = Occurs(pattern', text') /\ UNCHANGED <<pi, ti, star, starT>>
      /\ gmPc' = IF verdict' THEN "done" ELSE "match"
  BY DEF GlobStart
<1>2. pi' = 0 /\ ti' = 0 /\ star' = NoStar /\ starT' = 0
  BY <1>1 DEF GlobInv
<1>3. /\ Len(pattern') \in Nat /\ Len(text') \in Nat /\ DOMAIN text' = 1 .. Len(text')
  <2>1. /\ pattern' \in Seq(ToSet(pattern')) /\ text' \in Seq(ToSet(text'))
    BY <1>1, GlobAssumption
  <2> HIDE DEF ToSet
  <2> QED
    BY <2>1, LenProperties
<1>4. verdict' \in BOOLEAN
  BY <1>1 DEF Occurs
<1>5. GlobTypeOK' /\ SinceStar'
  BY <1>1, <1>2, <1>3 DEF GlobTypeOK, SinceStar
<1>6. gmPc' = "match" => ~ Occurs(pattern', text')
  BY <1>1
<1>7. BacktrackIsEnough'
  BY <1>2 DEF BacktrackIsEnough
<1>8. StarFreeNamesAreRight'
  BY <1>1, <1>4 DEF StarFreeNamesAreRight, Means
<1>9. gmPc' # "idle"
  BY <1>1
<1> QED
  BY <1>3, <1>4, <1>5, <1>6, <1>7, <1>8, <1>9 DEF GlobInv

(* What the four kinds of step in the loop have in common. *)
LEMMA InLoop ==
  ASSUME GlobInv, gmPc = "match", ti < Len(text), NamesAreStarFree
  PROVE  /\ pi \in 0 .. Len(pattern) /\ ti \in 0 .. Len(text)
         /\ text[ti + 1] # Star
         /\ 0 \in Matches(pattern, text)[0] <=> Here \/ Later
         /\ AtChar => /\ pattern[pi + 1] # Star /\ ~ AtStar
                      /\ Here <=> ti + 1 \in Matches(pattern, text)[pi + 1]
         /\ AtStar => (Here <=> \E k \in Matches(pattern, text)[pi + 1] : ti <= k)
         /\ ~ AtChar /\ ~ AtStar => ~ Here
<1>1. /\ pi \in 0 .. Len(pattern) /\ ti \in 0 .. Len(text)
      /\ Len(pattern) \in Nat /\ Len(text) \in Nat
  BY DEF GlobInv, GlobTypeOK
<1>2. text[ti + 1] # Star
  BY <1>1 DEF GlobInv, NamesAreStarFree
<1>3. 0 \in Matches(pattern, text)[0] <=> Here \/ Later
  BY DEF GlobInv, BacktrackIsEnough, Here, Later
<1>4. pi < Len(pattern) => pi \in 0 .. Len(pattern) - 1
  BY <1>1
<1>5. ASSUME AtChar
      PROVE  /\ pattern[pi + 1] # Star /\ ~ AtStar
             /\ Here <=> ti + 1 \in Matches(pattern, text)[pi + 1]
  <2>1. pattern[pi + 1] # Star /\ pattern[pi + 1] \in {AnyOne, text[ti + 1]}
    BY <1>2, <1>5, GlobAssumption DEF AtChar
  <2>2. ti \in Matches(pattern, text)[pi] <=>
          /\ ti < Len(text) /\ pattern[pi + 1] \in {AnyOne, text[ti + 1]}
          /\ ti + 1 \in Matches(pattern, text)[pi + 1]
    BY <1>1, <1>4, <1>5, <2>1, BehindChar DEF AtChar
  <2> QED
    BY <2>1, <2>2 DEF AtStar, Here
<1>6. ASSUME AtStar
      PROVE  Here <=> \E k \in Matches(pattern, text)[pi + 1] : ti <= k
  BY <1>1, <1>4, <1>6, BehindStar DEF AtStar, Here
<1>7. ASSUME ~ AtChar, ~ AtStar
      PROVE  ~ Here
  <2>1. CASE pi < Len(pattern)
    <3>1. ti \in Matches(pattern, text)[pi] <=>
          /\ ti < Len(text) /\ pattern[pi + 1] \in {AnyOne, text[ti + 1]}
          /\ ti + 1 \in Matches(pattern, text)[pi + 1]
      BY <1>1, <1>4, <1>7, <2>1, BehindChar DEF AtStar
    <3> QED
      BY <1>7, <2>1, <3>1 DEF AtChar, Here
  <2>2. CASE pi = Len(pattern)
    <3>1. Matches(pattern, text)[pi] = {Len(text)}
      BY <1>1, <2>2, MatchesRows
    <3> QED
      BY <1>1, <3>1 DEF Here
  <2> QED
    BY <1>1, <2>1, <2>2
<1> QED
  BY <1>1, <1>2, <1>3, <1>5, <1>6, <1>7

(* An older star that could go on lets the pattern match from here too. *)
LEMMA LaterReachesHere ==
  ASSUME GlobInv, gmPc = "match", NamesAreStarFree, Later
  PROVE  \E k \in Matches(pattern, text)[pi] : k > ti
<1>1. /\ star \in Nat /\ pi - (star + 1) = ti - starT
      /\ \A k \in star + 1 .. pi - 1 : pattern[k + 1] # Star
      /\ star < pi /\ pi \in 0 .. Len(pattern) /\ ti \in 0 .. Len(text) /\ starT \in 0 .. ti
      /\ Len(pattern) \in Nat /\ Len(text) \in Nat
  BY DEF GlobInv, GlobTypeOK, SinceStar, Later
<1>2. PICK k \in Matches(pattern, text)[star + 1] : k > starT
  BY DEF Later
<1>3. star + 1 \in 0 .. Len(pattern) /\ pi \in star + 1 .. Len(pattern)
  BY <1>1
<1>4. Matches(pattern, text)[star + 1] \subseteq 0 .. Len(text)
  BY <1>1, <1>3, MatchesInText
<1>5. k + (pi - (star + 1)) \in Matches(pattern, text)[pi]
  BY <1>1, <1>3, PieceTakesItsLength
<1>6. k + (pi - (star + 1)) > ti
  BY <1>1, <1>2, <1>4
<1> QED
  BY <1>5, <1>6

(* What every step of the loop leaves alone, and so keeps. *)
LEMMA InLoopKeeps ==
  ASSUME GlobInv, UNCHANGED <<gmPc, pattern, text, verdict>>, gmPc = "match",
         GlobTypeOK', SinceStar', BacktrackIsEnough'
  PROVE  GlobInv'
<1>1. StarFreeNamesAreRight'
  BY DEF StarFreeNamesAreRight
<1>2. ~ Occurs(pattern', text')
  BY DEF GlobInv
<1> QED
  BY <1>1, <1>2 DEF GlobInv

LEMMA MatchCharInv ==
  ASSUME GlobInv, MatchChar
  PROVE  GlobInv'
<1>1. /\ UNCHANGED <<gmPc, pattern, text, star, starT, verdict>> /\ gmPc = "match"
      /\ pi' = pi + 1 /\ ti' = ti + 1 /\ AtChar /\ ti < Len(text) /\ pi < Len(pattern)
  BY DEF MatchChar, AtChar
<1>2. /\ GlobTypeOK /\ SinceStar /\ BacktrackIsEnough
      /\ Len(pattern) \in Nat /\ Len(text) \in Nat
  BY DEF GlobInv
<1>3. GlobTypeOK'
  <2>1. /\ pi \in Nat /\ ti \in Nat /\ starT \in Nat /\ starT <= ti
        /\ gmPc \in {"idle", "match", "done"}
        /\ star # NoStar => star < pi /\ pattern[star + 1] = Star
    BY <1>2 DEF GlobTypeOK
  <2>2. star # NoStar => star \in Nat
    BY <1>2 DEF SinceStar
  <2>3. /\ pi' \in 0 .. Len(pattern) /\ ti' \in 0 .. Len(text) /\ starT' \in 0 .. ti'
        /\ star # NoStar => star < pi'
    BY <1>1, <1>2, <2>1, <2>2
  <2> QED
    BY <1>1, <2>1, <2>3 DEF GlobTypeOK
<1>4. SinceStar'
  <2> SUFFICES ASSUME star # NoStar
               PROVE  /\ star' \in Nat /\ pi' - (star' + 1) = ti' - starT'
                      /\ NamesAreStarFree' =>
                           \A k \in star' + 1 .. pi' - 1 : pattern'[k + 1] # Star
    BY <1>1 DEF SinceStar
  <2>1. star \in Nat /\ pi \in Nat /\ ti \in Nat /\ starT \in Nat
        /\ pi - (star + 1) = ti - starT
    BY <1>2 DEF SinceStar, GlobTypeOK
  <2>2. ASSUME NamesAreStarFree', NEW k \in star + 1 .. pi
        PROVE  pattern[k + 1] # Star
    <3>0. NamesAreStarFree
      BY <1>1, <2>2 DEF NamesAreStarFree
    <3>1. pattern[pi + 1] # Star
      BY <1>1, <3>0, InLoop
    <3>2. k = pi \/ k \in star + 1 .. pi - 1
      BY <2>1
    <3> QED
      BY <1>2, <3>0, <3>1, <3>2 DEF SinceStar
  <2> QED
    BY <1>1, <2>1, <2>2
<1>5. BacktrackIsEnough'
  <2> SUFFICES ASSUME NamesAreStarFree
               PROVE  0 \in Matches(pattern, text)[0] <=>
                        \/ ti + 1 \in Matches(pattern, text)[pi + 1]
                        \/ star # NoStar /\ \E k \in Matches(pattern, text)[star + 1] : k > starT
    BY <1>1 DEF BacktrackIsEnough, NamesAreStarFree
  <2>1. /\ 0 \in Matches(pattern, text)[0] <=> Here \/ Later
        /\ Here <=> ti + 1 \in Matches(pattern, text)[pi + 1]
    BY <1>1, InLoop
  <2> QED
    BY <2>1 DEF Later
<1> QED
  BY <1>1, <1>3, <1>4, <1>5, InLoopKeeps

LEMMA MeetStarInv ==
  ASSUME GlobInv, MeetStar
  PROVE  GlobInv'
<1>1. /\ UNCHANGED <<gmPc, pattern, text, ti, verdict>> /\ gmPc = "match"
      /\ pi' = pi + 1 /\ star' = pi /\ starT' = ti
      /\ AtStar /\ ti < Len(text) /\ pi < Len(pattern) /\ pattern[pi + 1] = Star
  BY DEF MeetStar, AtStar
<1>2. /\ GlobTypeOK /\ BacktrackIsEnough
      /\ Len(pattern) \in Nat /\ Len(text) \in Nat
  BY DEF GlobInv
<1>3. pi \in Nat /\ pi # NoStar /\ ti \in Nat
  BY <1>2, GlobAssumption DEF GlobTypeOK
<1>4. GlobTypeOK'
  BY <1>1, <1>2, <1>3 DEF GlobTypeOK
<1>5. SinceStar'
  BY <1>1, <1>3 DEF SinceStar
<1>6. BacktrackIsEnough'
  <2> DEFINE Behind == Matches(pattern, text)[pi + 1]
  <2> SUFFICES ASSUME NamesAreStarFree
               PROVE  0 \in Matches(pattern, text)[0] <=>
                        ti \in Behind \/ \E k \in Behind : k > ti
    BY <1>1, <1>3 DEF BacktrackIsEnough, NamesAreStarFree
  <2>1. /\ 0 \in Matches(pattern, text)[0] <=> Here \/ Later
        /\ Here <=> \E k \in Behind : ti <= k
    BY <1>1, InLoop
  <2>2. pi + 1 \in 0 .. Len(pattern) /\ pi \in 0 .. Len(pattern) - 1
        /\ pi \in 0 .. Len(pattern) /\ ti \in 0 .. Len(text)
    BY <1>1, <1>2, <1>3
  <2>3. Behind \subseteq 0 .. Len(text) /\ Matches(pattern, text)[pi] \subseteq 0 .. Len(text)
    BY <1>2, <2>2, MatchesInText
  <2>4. Later => Here
    <3> SUFFICES ASSUME Later PROVE Here
      OBVIOUS
    <3>1. PICK k \in Matches(pattern, text)[pi] : k > ti
      BY <1>1, LaterReachesHere
    <3>2. k \in 0 .. Len(text)
      BY <2>3
    <3>3. PICK l \in Behind : k <= l
      BY <1>1, <1>2, <2>2, <3>1, <3>2, BehindStar
    <3> QED
      BY <1>3, <2>1, <2>3, <3>1, <3>2, <3>3
  <2>5. (\E k \in Behind : ti <= k) <=> ti \in Behind \/ \E k \in Behind : k > ti
    BY <1>3, <2>3
  <2> QED
    BY <2>1, <2>4, <2>5
<1> QED
  BY <1>1, <1>4, <1>5, <1>6, InLoopKeeps

LEMMA BackToStarInv ==
  ASSUME GlobInv, BackToStar
  PROVE  GlobInv'
<1>1. /\ UNCHANGED <<gmPc, pattern, text, star, verdict>> /\ gmPc = "match"
      /\ pi' = star + 1 /\ starT' = starT + 1 /\ ti' = starT + 1
      /\ ~ AtChar /\ ~ AtStar /\ star # NoStar /\ ti < Len(text)
  BY DEF BackToStar
<1>2. /\ GlobTypeOK /\ SinceStar /\ BacktrackIsEnough
      /\ Len(pattern) \in Nat /\ Len(text) \in Nat
  BY DEF GlobInv
<1>3. /\ star \in Nat /\ starT \in 0 .. ti /\ star < pi /\ pi \in 0 .. Len(pattern)
      /\ ti \in 0 .. Len(text) /\ pattern[star + 1] = Star
  BY <1>1, <1>2 DEF GlobTypeOK, SinceStar
<1>4. GlobTypeOK'
  BY <1>1, <1>2, <1>3 DEF GlobTypeOK
<1>5. SinceStar'
  BY <1>1, <1>3 DEF SinceStar
<1>6. BacktrackIsEnough'
  <2> DEFINE Behind == Matches(pattern, text)[star + 1]
  <2> SUFFICES ASSUME NamesAreStarFree
               PROVE  0 \in Matches(pattern, text)[0] <=>
                        starT + 1 \in Behind \/ \E k \in Behind : k > starT + 1
    BY <1>1 DEF BacktrackIsEnough, NamesAreStarFree
  <2>1. 0 \in Matches(pattern, text)[0] <=> \E k \in Behind : k > starT
    BY <1>1, InLoop DEF Later
  <2>2. Behind \subseteq 0 .. Len(text)
    <3>1. star + 1 \in 0 .. Len(pattern)
      BY <1>3
    <3> QED
      BY <1>2, <3>1, MatchesInText
  <2>3. (\E k \in Behind : k > starT) <=> starT + 1 \in Behind \/ \E k \in Behind : k > starT + 1
    BY <1>3, <2>2
  <2> QED
    BY <2>1, <2>3
<1> QED
  BY <1>1, <1>4, <1>5, <1>6, InLoopKeeps

(* The loop's two ends: what they keep but the verdict. *)
LEMMA LoopEndKeeps ==
  ASSUME GlobInv, UNCHANGED <<pattern, text, pi, ti, star, starT>>, gmPc = "match",
         gmPc' = "done", verdict' \in BOOLEAN,
         NamesAreStarFree => (verdict' <=> 0 \in Matches(pattern, text)[0])
  PROVE  GlobInv'
<1>1. GlobTypeOK'
  BY DEF GlobInv, GlobTypeOK
<1>2. SinceStar' /\ BacktrackIsEnough'
  BY DEF GlobInv, SinceStar, BacktrackIsEnough, NamesAreStarFree
<1>3. StarFreeNamesAreRight'
  BY DEF GlobInv, StarFreeNamesAreRight, Means, NamesAreStarFree
<1> QED
  BY <1>1, <1>2, <1>3 DEF GlobInv

LEMMA MismatchInv ==
  ASSUME GlobInv, Mismatch
  PROVE  GlobInv'
<1>1. /\ UNCHANGED <<pattern, text, pi, ti, star, starT>> /\ gmPc = "match"
      /\ gmPc' = "done" /\ verdict' = FALSE
      /\ ~ AtChar /\ ~ AtStar /\ star = NoStar /\ ti < Len(text)
  BY DEF Mismatch
<1>2. NamesAreStarFree => ~ (0 \in Matches(pattern, text)[0])
  BY <1>1, InLoop DEF Later
<1>3. verdict' \in BOOLEAN
  BY <1>1
<1>4. NamesAreStarFree => (verdict' <=> 0 \in Matches(pattern, text)[0])
  BY <1>1, <1>2
<1> QED
  BY <1>1, <1>3, <1>4, LoopEndKeeps

LEMMA TextEndsInv ==
  ASSUME GlobInv, TextEnds
  PROVE  GlobInv'
<1>1. /\ UNCHANGED <<pattern, text, pi, ti, star, starT>> /\ gmPc = "match"
      /\ gmPc' = "done" /\ ti = Len(text)
      /\ verdict' = \A i \in pi + 1 .. Len(pattern) : pattern[i] = Star
  BY DEF TextEnds
<1>2. /\ GlobTypeOK /\ BacktrackIsEnough
      /\ Len(pattern) \in Nat /\ Len(text) \in Nat /\ pi \in 0 .. Len(pattern)
  BY DEF GlobInv, GlobTypeOK
<1>3. ASSUME NamesAreStarFree
      PROVE  verdict' <=> 0 \in Matches(pattern, text)[0]
  <2>1. 0 \in Matches(pattern, text)[0] <=> Here \/ Later
    BY <1>1, <1>2, <1>3 DEF BacktrackIsEnough, Here, Later
  <2>2. Here <=> \A i \in pi + 1 .. Len(pattern) : pattern[i] = Star
    BY <1>1, <1>2, OnlyStarsAtEnd DEF Here
  <2>3. ~ Later
    <3> SUFFICES ASSUME Later PROVE FALSE
      OBVIOUS
    <3>1. PICK k \in Matches(pattern, text)[pi] : k > ti
      BY <1>1, <1>3, LaterReachesHere
    <3>2. Matches(pattern, text)[pi] \subseteq 0 .. Len(text)
      BY <1>2, MatchesInText
    <3> QED
      BY <1>1, <1>2, <3>1, <3>2
  <2> QED
    BY <1>1, <2>1, <2>2, <2>3
<1>4. verdict' \in BOOLEAN
  BY <1>1
<1> QED
  BY <1>1, <1>3, <1>4, LoopEndKeeps

LEMMA GlobStutterInv ==
  ASSUME GlobInv, UNCHANGED gmVars
  PROVE  GlobInv'
<1>1. GlobTypeOK' /\ SinceStar' /\ BacktrackIsEnough' /\ StarFreeNamesAreRight'
  BY DEF GlobInv, gmVars, GlobTypeOK, SinceStar, BacktrackIsEnough,
         StarFreeNamesAreRight, NamesAreStarFree
<1> QED
  BY <1>1 DEF GlobInv, gmVars

LEMMA GlobNextInv ==
  ASSUME GlobInv, [GlobNext]_gmVars
  PROVE  GlobInv'
<1>1. CASE GlobStart
  BY <1>1, GlobStartInv
<1>2. CASE MatchChar
  BY <1>2, MatchCharInv
<1>3. CASE MeetStar
  BY <1>3, MeetStarInv
<1>4. CASE BackToStar
  BY <1>4, BackToStarInv
<1>5. CASE Mismatch
  BY <1>5, MismatchInv
<1>6. CASE TextEnds
  BY <1>6, TextEndsInv
<1>7. CASE UNCHANGED gmVars
  BY <1>7, GlobStutterInv
<1> QED
  BY <1>1, <1>2, <1>3, <1>4, <1>5, <1>6, <1>7 DEF GlobNext, GlobStep

-----------------------------------------------------------------------------
(* AddressMap                                                              *)

LEMMA SaturatingAddBounds ==
  ASSUME NEW a \in Nat, NEW b \in Nat
  PROVE  /\ SaturatingAdd(a, b) \in Addresses
         /\ SaturatingAdd(a, b) = IF a + b <= MaxAddress THEN a + b ELSE MaxAddress
<1>1. /\ Min({a + b, MaxAddress}) \in {a + b, MaxAddress}
      /\ \A k \in {a + b, MaxAddress} : Min({a + b, MaxAddress}) <= k
  BY MinIsLeast, AddressMapAssumption
<1> QED
  BY <1>1, AddressMapAssumption DEF SaturatingAdd, Addresses

(* What map_address answers of an address and a list of sections. *)
LEMMA MapAddressIsRight ==
  ASSUME NEW a \in Addresses \cup {NoOffset}, NEW list \in Seq(Sections),
         NEW m, m = MapAddress(a, list)
  PROVE  /\ m.offset \in Addresses \cup {NoOffset}
         /\ m.section # 0 =>
              LET s == list[m.section]
              IN  /\ a \in s.vaddr .. s.vaddr + s.size - 1
                  /\ s.paddr # NoOffset =>
                       \/ m.offset - s.paddr = a - s.vaddr
                       \/ m.offset = MaxAddress
         /\ (m.section = 0 /\ a # NoOffset) =>
              /\ m.offset = NoOffset
              /\ \A i \in DOMAIN list :
                   a \notin list[i].vaddr
                     .. Min({list[i].vaddr + list[i].size, MaxAddress}) - 1
<1> DEFINE I == {i \in 1 .. Len(list) : InSection(list[i], a)}
           at == IF a = NoOffset THEN 0 ELSE SelectInSeq(list, LAMBDA s : InSection(s, a))
<1>1. /\ m.section = at
      /\ m.offset = IF at = 0 \/ (at # 0 /\ list[at].paddr = NoOffset) THEN NoOffset
                    ELSE SaturatingAdd(list[at].paddr, a - list[at].vaddr)
  BY DEF MapAddress
<1>2. at = IF a # NoOffset /\ I # {} THEN Min(I) ELSE 0
  BY DEF SelectInSeq
<1>3. \A i \in DOMAIN list : list[i] \in Sections /\ i \in 1 .. Len(list) /\ i # 0
  <2>1. DOMAIN list = 1 .. Len(list) /\ \A i \in 1 .. Len(list) : list[i] \in Sections
    BY ElementOfSeq, LenProperties
  <2> QED
    BY <2>1
<1>4. DOMAIN list = 1 .. Len(list) /\ Len(list) \in Nat
  BY LenProperties
<1> HIDE DEF at
<1>5. CASE at # 0
  <2>1. at = Min(I) /\ I # {} /\ a # NoOffset
    BY <1>2, <1>5
  <2>2. at \in I
    <3>1. I \subseteq Nat
      BY <1>4
    <3> HIDE DEF I
    <3> QED
      BY <2>1, <3>1, MinIsLeast
  <2> DEFINE s == list[at]
  <2>3. s \in Sections /\ InSection(s, a) /\ a \in Addresses
    BY <1>3, <1>4, <2>1, <2>2
  <2> HIDE DEF s
  <2>4. /\ s.vaddr \in Nat /\ s.size \in Nat /\ s.paddr \in Addresses \cup {NoOffset}
        /\ a \in Nat /\ a >= s.vaddr /\ s.size > 0
        /\ a < SaturatingAdd(s.vaddr, s.size)
    BY <2>3 DEF Sections, Addresses, InSection
  <2>5. a < s.vaddr + s.size
    <3>1. SaturatingAdd(s.vaddr, s.size)
            = IF s.vaddr + s.size <= MaxAddress THEN s.vaddr + s.size ELSE MaxAddress
      BY <2>4, SaturatingAddBounds
    <3> QED
      BY <2>4, <3>1, AddressMapAssumption
  <2>6. CASE s.paddr = NoOffset
    <3>1. m.offset = NoOffset
      BY <1>1, <1>5, <2>6 DEF s
    <3> QED
      BY <1>1, <1>5, <2>4, <2>5, <2>6, <3>1 DEF s
  <2>7. CASE s.paddr # NoOffset
    <3>1. m.offset = SaturatingAdd(s.paddr, a - s.vaddr)
      BY <1>1, <1>5, <2>7 DEF s
    <3>2. s.paddr \in Nat /\ a - s.vaddr \in Nat
      BY <2>4, <2>7 DEF Addresses
    <3>3. /\ m.offset \in Addresses
          /\ m.offset = s.paddr + (a - s.vaddr) \/ m.offset = MaxAddress
      BY <3>1, <3>2, SaturatingAddBounds
    <3>4. m.offset - s.paddr = a - s.vaddr \/ m.offset = MaxAddress
      BY <2>4, <3>2, <3>3
    <3> QED
      BY <1>1, <1>5, <2>4, <2>5, <3>3, <3>4 DEF s
  <2> QED
    BY <2>6, <2>7
<1>6. CASE at = 0
  <2>1. m.section = 0 /\ m.offset = NoOffset
    BY <1>1, <1>6
  <2>2. ASSUME a # NoOffset, NEW i \in DOMAIN list
        PROVE  a \notin list[i].vaddr .. Min({list[i].vaddr + list[i].size, MaxAddress}) - 1
    <3>1. I = {}
      <4>1. I \subseteq Nat /\ 0 \notin I
        BY <1>4
      <4> HIDE DEF I
      <4> QED
        BY <1>2, <1>6, <2>2, <4>1, MinIsLeast
    <3> DEFINE s == list[i]
    <3>2. s \in Sections /\ ~ InSection(s, a) /\ a \in Addresses
      BY <1>3, <1>4, <2>2, <3>1
    <3> HIDE DEF s
    <3>3. s.vaddr \in Nat /\ s.size \in Nat /\ a \in Nat
      BY <3>2 DEF Sections, Addresses
    <3> DEFINE end == SaturatingAdd(s.vaddr, s.size)
    <3>4. end \in Nat /\ end <= s.vaddr + s.size
      <4>1. end = IF s.vaddr + s.size <= MaxAddress THEN s.vaddr + s.size ELSE MaxAddress
        BY <3>3, SaturatingAddBounds
      <4> QED
        BY <3>3, <4>1, AddressMapAssumption
    <3>5. ~ (s.size > 0 /\ a >= s.vaddr /\ a < end)
      BY <3>2 DEF InSection
    <3>6. end = Min({s.vaddr + s.size, MaxAddress})
      BY DEF SaturatingAdd
    <3> HIDE DEF end
    <3>7. a \notin s.vaddr .. end - 1
      BY <3>3, <3>4, <3>5
    <3> QED
      BY <3>6, <3>7 DEF s
  <2> QED
    BY <2>1, <2>2
<1> QED
  BY <1>5, <1>6

MapDone == MapTypeOK /\ OffsetKeepsDistance

LEMMA MapInitInv == MapInit => MapDone
  BY DEF MapInit, MapDone, MapTypeOK, OffsetKeepsDistance

LEMMA MapNextInv ==
  ASSUME MapDone, [MapNext]_amVars
  PROVE  MapDone'
<1>1. CASE ExtractStart
  BY <1>1 DEF MapDone, MapTypeOK, OffsetKeepsDistance, ExtractStart
<1>2. CASE RequiredCall
  BY <1>2 DEF MapDone, MapTypeOK, OffsetKeepsDistance, RequiredCall
<1>3. CASE NumberAddress
  BY <1>3 DEF MapDone, MapTypeOK, OffsetKeepsDistance, NumberAddress
<1>4. CASE ListSections
  <2>1. /\ mapping' = MapAddress(address, sections') /\ amPc' = "done" /\ address' = address
        /\ sections' \in Seq(Sections) /\ address \in Addresses \cup {NoOffset}
    BY <1>4, AddressMapAssumption, EmptySeq DEF ListSections, MapDone, MapTypeOK
  <2> HIDE DEF OffsetKeepsDistance
  <2>2. MapTypeOK'
    BY <2>1, MapAddressIsRight DEF MapTypeOK
  <2>3. OffsetKeepsDistance'
    BY <2>1, MapAddressIsRight DEF OffsetKeepsDistance
  <2> QED
    BY <2>2, <2>3 DEF MapDone
<1>5. CASE UNCHANGED amVars
  BY <1>5 DEF MapDone, MapTypeOK, OffsetKeepsDistance, amVars
<1> QED
  BY <1>1, <1>2, <1>3, <1>4, <1>5 DEF MapNext

-----------------------------------------------------------------------------
(* Pages                                                                   *)

Row == UNION {ToSet(rs) : rs \in RowLists}

PageRecords ==
  [offset : Nat, rows : Seq(Row), total : Nat, returned : Nat, truncated : BOOLEAN]

(***************************************************************************)
(* The invariant of the pages: each starts where the one before it ended,  *)
(* and the next will start where the last one did.                         *)
(***************************************************************************)
PagesShape ==
  /\ pgPc \in {"idle", "ask", "done", "failed"}
  /\ first \in Nat /\ offset \in Nat /\ pageLimit \in Nat /\ changes \in 0 .. MaxChanges
  /\ rows \in Seq(Row)
  /\ pages \in Seq(PageRecords)
  /\ pgPc = "idle" => pages = <<>> /\ ~ Paginates(mode)
  /\ pgPc # "idle" /\ pages = <<>> => offset = first
  /\ first <= offset
  /\ \A k \in DOMAIN pages :
       /\ pages[k].returned = Len(pages[k].rows)
       /\ pages[k].returned <= pages[k].total
       /\ Paginates(mode) => pages[k].offset + pages[k].returned <= offset

PagesInv == PagesShape /\ PagesTypeOK /\ TruncatedTellsMore /\ PagesCoverRows

(* A page of a list is what lies in it from the offset on, up to the limit. *)
LEMMA PageOfList ==
  ASSUME NEW S, NEW all \in Seq(S), NEW from \in Nat, NEW limit \in Nat,
         NEW p, p = PaginateWithCounts(all, from, limit)
  PROVE  /\ p \in [offset : Nat, rows : Seq(S), total : Nat, returned : Nat, truncated : BOOLEAN]
         /\ p.offset = from /\ p.total = Len(all) /\ p.returned = Len(p.rows)
         /\ p.returned <= p.total
         /\ \A j \in 1 .. Len(p.rows) : from + j \in 1 .. Len(all) /\ p.rows[j] = all[from + j]
         /\ limit # 0 => p.returned <= limit
         /\ p.truncated <=> limit # 0 /\ from + p.returned < p.total
         /\ p.truncated => p.returned = limit
         /\ ~ p.truncated => Len(all) <= from + p.returned
<1> DEFINE n == Len(all)
           upto == IF limit = 0 THEN n ELSE from + limit
           last == Min({upto, n})
           page == SubSeq(all, from + 1, last)
<1>1. n \in Nat /\ \A i \in 1 .. n : all[i] \in S
  BY ElementOfSeq, LenProperties
<1> HIDE DEF n
<1>2. upto \in Nat
  BY <1>1
<1>3. last \in Nat /\ last <= n /\ last <= upto /\ (last = upto \/ last = n)
  <2> HIDE DEF upto
  <2>1. Min({upto, n}) \in {upto, n} /\ \A k \in {upto, n} : Min({upto, n}) <= k
    BY <1>1, <1>2, MinIsLeast
  <2> QED
    BY <1>1, <1>2, <2>1
<1> HIDE DEF last
<1>4. /\ page \in Seq(S)
      /\ Len(page) = IF from + 1 <= last THEN last - from ELSE 0
      /\ \A j \in 1 .. Len(page) : page[j] = all[from + j]
  <2>1. \A i \in from + 1 .. last : all[i] \in S
    BY <1>1, <1>3
  <2>2. from + 1 \in Int /\ last \in Int
    BY <1>3
  <2>3. /\ page \in Seq(S)
        /\ Len(page) = IF from + 1 <= last THEN last - (from + 1) + 1 ELSE 0
        /\ \A i \in 1 .. last - (from + 1) + 1 : page[i] = all[from + 1 + i - 1]
    BY <2>1, <2>2, SubSeqProperties
  <2> HIDE DEF page
  <2>4. Len(page) = IF from + 1 <= last THEN last - from ELSE 0
    BY <1>3, <2>3
  <2>5. \A j \in 1 .. Len(page) : j \in 1 .. last - (from + 1) + 1 /\ from + 1 + j - 1 = from + j
    BY <1>3, <2>4
  <2> QED
    BY <2>3, <2>4, <2>5
<1>5. p = [offset |-> from, rows |-> page, total |-> n, returned |-> Len(page),
           truncated |-> limit # 0 /\ n > from + Len(page)]
  BY DEF PaginateWithCounts, Paginate, page, last, upto, n
<1> HIDE DEF page
<1>6. Len(page) \in Nat /\ Len(page) <= n /\ (limit # 0 => Len(page) <= limit)
  BY <1>1, <1>3, <1>4
<1>7. /\ p.offset = from /\ p.rows = page /\ p.total = n /\ p.returned = Len(page)
      /\ p.truncated = (limit # 0 /\ n > from + Len(page))
  BY <1>5
<1>8. p \in [offset : Nat, rows : Seq(S), total : Nat, returned : Nat, truncated : BOOLEAN]
  BY <1>1, <1>4, <1>5, <1>6
<1>9. p.truncated <=> limit # 0 /\ n > from + Len(page)
  BY <1>7
<1>10. \A j \in 1 .. Len(page) : from + j \in 1 .. n /\ page[j] = all[from + j]
  BY <1>1, <1>3, <1>4
<1>11. limit # 0 /\ n > from + Len(page) => Len(page) = limit
  BY <1>1, <1>3, <1>4
<1>12. ~ (limit # 0 /\ n > from + Len(page)) => n <= from + Len(page)
  BY <1>1, <1>3, <1>4
<1>13. /\ limit # 0 => p.returned <= limit
       /\ p.truncated <=> limit # 0 /\ from + p.returned < p.total
       /\ p.truncated => p.returned = limit
       /\ ~ p.truncated => n <= from + p.returned
  BY <1>1, <1>6, <1>7, <1>9, <1>11, <1>12
<1> QED
  BY <1>6, <1>7, <1>8, <1>10, <1>13 DEF n

LEMMA FilteredIsSeq ==
  ASSUME NEW m, NEW S, NEW all \in Seq(S)
  PROVE  Filtered(m, all) \in Seq(S) /\ Len(Filtered(m, all)) \in Nat
         /\ DOMAIN Filtered(m, all) = 1 .. Len(Filtered(m, all))
<1>1. Filtered(m, all) \in Seq(S)
  BY KeptIsSeq DEF Filtered
<1> QED
  BY <1>1, LenProperties

LEMMA PagesInitInv == PagesInit => PagesInv
<1> SUFFICES ASSUME PagesInit PROVE PagesInv
  OBVIOUS
<1>0. /\ pgPc = "idle" /\ pageLimit = 0 /\ first = 0 /\ offset = 0 /\ changes = 0
  BY DEF PagesInit
<1>1. mode = "none" /\ rows = <<>> /\ pages = <<>>
  BY DEF PagesInit
<1>2. rows \in Seq(Row) /\ pages \in Seq(PageRecords) /\ Len(pages) = 0
  BY <1>1, EmptySeq
<1>3. \A k \in DOMAIN pages : FALSE
  BY <1>2, LenProperties
<1>4. ~ Paginates(mode)
  BY <1>1 DEF Paginates
<1>5. changes \in 0 .. MaxChanges /\ offset \in Nat
  <2>1. MaxChanges \in Nat
    BY PagesAssumption
  <2> QED
    BY <1>0, <2>1
<1>6. PagesTypeOK
  BY <1>0, <1>3, <1>5 DEF PagesTypeOK
<1>7. PagesShape
  <2>1. first \in Nat /\ offset \in Nat /\ pageLimit \in Nat /\ first <= offset
    BY <1>0
  <2>2. pgPc # "idle" /\ pages = <<>> => offset = first
    BY <1>0
  <2> QED
    BY <1>0, <1>1, <1>2, <1>3, <1>4, <1>5, <2>1, <2>2, Zenon DEF PagesShape
<1>8. TruncatedTellsMore /\ PagesCoverRows
  BY <1>3, <1>4 DEF TruncatedTellsMore, PagesCoverRows
<1> QED
  BY <1>6, <1>7, <1>8 DEF PagesInv

LEMMA PagesStartInv ==
  ASSUME PagesInv, PagesStart
  PROVE  PagesInv'
<1>1. /\ pgPc = "idle" /\ pgPc' = "ask" /\ UNCHANGED <<pages, changes>>
      /\ pageLimit' \in PageLimits /\ first' \in Offsets /\ offset' = first'
      /\ rows' \in RowLists
  BY DEF PagesStart
<1>2. PagesShape /\ PagesTypeOK /\ pages = <<>>
  BY <1>1 DEF PagesInv, PagesShape
<1>3. pages \in Seq(PageRecords) /\ Len(pages) = 0
  BY <1>2, EmptySeq DEF PagesShape
<1>4. \A k \in DOMAIN pages : FALSE
  BY <1>3, LenProperties
<1>5. rows' \in Seq(Row)
  <2>1. rows' \in Seq(ToSet(rows')) /\ ToSet(rows') \subseteq Row
    BY <1>1, PagesAssumption DEF Row
  <2> HIDE DEF ToSet
  <2> QED
    BY <2>1, SeqMonotonic
<1>6. pageLimit' \in Nat /\ first' \in Nat /\ offset' \in Nat
  BY <1>1, PagesAssumption
<1>7. PagesTypeOK'
  BY <1>1, <1>2, <1>4, <1>6 DEF PagesTypeOK
<1>8. PagesShape'
  BY <1>1, <1>2, <1>3, <1>4, <1>5, <1>6 DEF PagesShape
<1>9. TruncatedTellsMore'
  BY <1>1, <1>4 DEF TruncatedTellsMore
<1>10. PagesCoverRows'
  <2>1. (IF pgPc' = "done" THEN Len(Filtered(mode, rows)') ELSE offset') = first'
    BY <1>1
  <2>2. \A i \in first' + 1 .. first' : FALSE
    <3>1. \A x \in Nat : \A i \in x + 1 .. x : FALSE
      OBVIOUS
    <3> QED
      BY <1>6, <3>1
  <2> QED
    BY <1>1, <1>4, <2>1, <2>2 DEF PagesCoverRows
<1> QED
  BY <1>7, <1>8, <1>9, <1>10 DEF PagesInv

LEMMA AskPageInv ==
  ASSUME PagesInv, AskPage
  PROVE  PagesInv'
<1> DEFINE all  == Filtered(mode, rows)
           page == IF Paginates(mode)
                   THEN PaginateWithCounts(all, offset, pageLimit)
                   ELSE [offset |-> 0, rows |-> all, total |-> Len(all),
                         returned |-> Len(all), truncated |-> FALSE]
           n    == Len(pages)
<1>1. /\ pgPc = "ask" /\ pages' = Append(pages, page)
      /\ offset' = offset + page.returned
      /\ pgPc' = IF page.truncated THEN "ask" ELSE "done"
      /\ UNCHANGED <<mode, pageLimit, withFilter, first, rows, changes>>
  BY DEF AskPage
<1>2. /\ first \in Nat /\ offset \in Nat /\ pageLimit \in Nat /\ changes \in 0 .. MaxChanges
      /\ rows \in Seq(Row) /\ pages \in Seq(PageRecords) /\ first <= offset
      /\ pages = <<>> => offset = first
  BY <1>1 DEF PagesInv, PagesShape
<1>3. all \in Seq(Row) /\ Len(all) \in Nat /\ DOMAIN all = 1 .. Len(all)
  BY <1>2, FilteredIsSeq
<1> HIDE DEF all
<1>4. ASSUME Paginates(mode)
      PROVE  /\ page.offset = offset
             /\ \A j \in 1 .. Len(page.rows) : offset + j \in 1 .. Len(all)
                                              /\ page.rows[j] = all[offset + j]
             /\ pageLimit # 0 => page.returned <= pageLimit
             /\ page.truncated <=> pageLimit # 0 /\ page.offset + page.returned < page.total
             /\ page.truncated => page.returned = pageLimit
             /\ ~ page.truncated => Len(all) <= offset + page.returned
  <2>1. page = PaginateWithCounts(all, offset, pageLimit)
    BY <1>4
  <2> HIDE DEF page
  <2> QED
    BY <1>2, <1>3, <2>1, PageOfList
<1>5. page \in PageRecords /\ page.returned = Len(page.rows) /\ page.returned <= page.total
  <2>1. CASE Paginates(mode)
    <3>1. page = PaginateWithCounts(all, offset, pageLimit)
      BY <2>1
    <3> HIDE DEF page
    <3> QED
      BY <1>2, <1>3, <3>1, PageOfList DEF PageRecords
  <2>2. CASE ~ Paginates(mode)
    <3>1. page = [offset |-> 0, rows |-> all, total |-> Len(all),
                  returned |-> Len(all), truncated |-> FALSE]
      BY <2>2
    <3> HIDE DEF page
    <3> QED
      BY <1>3, <3>1 DEF PageRecords
  <2> QED
    BY <2>1, <2>2
<1> HIDE DEF page
<1>6. /\ page.offset \in Nat /\ page.returned \in Nat /\ page.rows \in Seq(Row)
      /\ page.truncated \in BOOLEAN /\ Len(page.rows) \in Nat
      /\ DOMAIN page.rows = 1 .. Len(page.rows)
  BY <1>5, LenProperties DEF PageRecords
<1>7. /\ pages' \in Seq(PageRecords) /\ Len(pages') = n + 1 /\ pages'[n + 1] = page
      /\ \A k \in 1 .. n : pages'[k] = pages[k]
      /\ n \in Nat /\ DOMAIN pages = 1 .. n /\ DOMAIN pages' = 1 .. n + 1
      /\ pages' # <<>>
  BY <1>1, <1>2, <1>5, AppendProperties, LenProperties
<1>8. \A k \in 1 .. n : pages[k] \in PageRecords
  BY <1>2, ElementOfSeq
<1>9. \A k \in 1 .. n + 1 : k \in 1 .. n \/ k = n + 1
  BY <1>7
<1> HIDE DEF n
<1>10. PagesTypeOK'
  <2>1. ASSUME NEW k \in 1 .. n + 1
        PROVE  /\ pages'[k].returned = Len(pages'[k].rows)
               /\ pages'[k].returned <= pages'[k].total
               /\ pageLimit # 0 /\ Paginates(mode) => pages'[k].returned <= pageLimit
    <3>1. CASE k \in 1 .. n
      BY <1>7, <3>1 DEF PagesInv, PagesTypeOK
    <3>2. CASE k = n + 1
      BY <1>4, <1>5, <1>7, <3>2
    <3> QED
      BY <1>9, <3>1, <3>2
  <2>2. pgPc' \in {"ask", "done"} /\ offset' \in Nat
    BY <1>1, <1>2, <1>6
  <2> QED
    BY <1>1, <1>2, <1>7, <2>1, <2>2 DEF PagesTypeOK
<1>11. PagesShape'
  <2>1. ASSUME NEW k \in 1 .. n + 1
        PROVE  /\ pages'[k].returned = Len(pages'[k].rows)
               /\ pages'[k].returned <= pages'[k].total
               /\ Paginates(mode) => pages'[k].offset + pages'[k].returned <= offset'
    <3>1. CASE k \in 1 .. n
      <4>1. pages[k].offset \in Nat /\ pages[k].returned \in Nat
        BY <1>8, <3>1 DEF PageRecords
      <4>2. /\ pages[k].returned = Len(pages[k].rows)
            /\ pages[k].returned <= pages[k].total
            /\ Paginates(mode) => pages[k].offset + pages[k].returned <= offset
        BY <1>7, <3>1 DEF PagesInv, PagesShape
      <4>3. offset <= offset'
        BY <1>1, <1>2, <1>6
      <4>4. Paginates(mode) => pages[k].offset + pages[k].returned <= offset'
        <5>1. \A a, b, c \in Nat : a <= b /\ b <= c => a <= c
          OBVIOUS
        <5>2. offset' \in Nat /\ pages[k].offset + pages[k].returned \in Nat
          <6>1. offset \in Nat /\ page.returned \in Nat
            BY <1>2, <1>6
          <6>2. \A a, b \in Nat : a + b \in Nat
            OBVIOUS
          <6>3. offset + page.returned \in Nat /\ pages[k].offset + pages[k].returned \in Nat
            BY <4>1, <6>1, <6>2
          <6> QED
            BY <1>1, <6>3
        <5> QED
          BY <1>2, <4>2, <4>3, <5>1, <5>2
      <4> QED
        BY <1>7, <3>1, <4>2, <4>4
    <3>2. CASE k = n + 1
      BY <1>1, <1>2, <1>4, <1>5, <1>6, <1>7, <3>2
    <3> QED
      BY <1>9, <3>1, <3>2
  <2>2. pgPc' \in {"ask", "done"} /\ offset' \in Nat /\ first <= offset'
    BY <1>1, <1>2, <1>6
  <2> QED
    BY <1>1, <1>2, <1>7, <2>1, <2>2 DEF PagesShape
<1>12. TruncatedTellsMore'
  <2>1. ASSUME NEW k \in 1 .. n + 1, Paginates(mode)
        PROVE  /\ pages'[k].truncated <=>
                    pageLimit # 0 /\ pages'[k].offset + pages'[k].returned < pages'[k].total
               /\ pages'[k].truncated => pages'[k].returned = pageLimit
    <3>1. CASE k \in 1 .. n
      BY <1>7, <2>1, <3>1 DEF PagesInv, TruncatedTellsMore
    <3>2. CASE k = n + 1
      BY <1>4, <1>7, <2>1, <3>2
    <3> QED
      BY <1>9, <3>1, <3>2
  <2> QED
    BY <1>1, <1>7, <2>1 DEF TruncatedTellsMore
<1>13. PagesCoverRows'
  <2> DEFINE end(p) == p.offset + Len(p.rows)
  <2> SUFFICES ASSUME changes = 0, Paginates(mode)
               PROVE  /\ \A k \in 1 .. n + 1 :
                           /\ first <= pages'[k].offset
                           /\ \A j \in DOMAIN pages'[k].rows :
                                /\ pages'[k].offset + j \in DOMAIN all
                                /\ pages'[k].rows[j] = all[pages'[k].offset + j]
                      /\ \A k, l \in 1 .. n + 1 : k < l => end(pages'[k]) <= pages'[l].offset
                      /\ \A i \in first + 1 .. IF pgPc' = "done" THEN Len(all) ELSE offset' :
                           \E k \in 1 .. n + 1 : i \in pages'[k].offset + 1 .. end(pages'[k])
    <3>1. Filtered(mode, rows)' = all
      BY <1>1 DEF Filtered, all
    <3> QED
      BY <1>1, <1>7, <3>1 DEF PagesCoverRows
  <2>1. /\ \A k \in 1 .. n :
             /\ first <= pages[k].offset
             /\ \A j \in DOMAIN pages[k].rows :
                  /\ pages[k].offset + j \in DOMAIN all
                  /\ pages[k].rows[j] = all[pages[k].offset + j]
        /\ \A k, l \in 1 .. n : k < l => end(pages[k]) <= pages[l].offset
        /\ \A i \in first + 1 .. offset :
             \E k \in 1 .. n : i \in pages[k].offset + 1 .. end(pages[k])
    BY <1>1, <1>7 DEF PagesInv, PagesCoverRows, all
  <2>2. \A k \in 1 .. n : end(pages[k]) <= offset
    BY <1>7 DEF PagesInv, PagesShape
  <2>3. page.offset = offset /\ end(page) = offset' /\ end(page) = offset + page.returned
    BY <1>1, <1>4, <1>5
  <2> HIDE DEF end
  <2>4. ASSUME NEW k \in 1 .. n + 1
        PROVE  /\ first <= pages'[k].offset
               /\ \A j \in DOMAIN pages'[k].rows :
                    /\ pages'[k].offset + j \in DOMAIN all
                    /\ pages'[k].rows[j] = all[pages'[k].offset + j]
    <3>1. CASE k \in 1 .. n
      BY <1>7, <2>1, <3>1
    <3>2. CASE k = n + 1
      BY <1>2, <1>3, <1>4, <1>6, <1>7, <2>3, <3>2
    <3> QED
      BY <1>9, <3>1, <3>2
  <2>5. ASSUME NEW k \in 1 .. n + 1, NEW l \in 1 .. n + 1, k < l
        PROVE  end(pages'[k]) <= pages'[l].offset
    <3>1. k \in 1 .. n
      BY <1>7, <2>5
    <3>2. CASE l \in 1 .. n
      BY <1>7, <2>1, <2>5, <3>1, <3>2
    <3>3. CASE l = n + 1
      BY <1>7, <2>2, <2>3, <3>1, <3>3
    <3> QED
      BY <1>9, <3>2, <3>3
  <2>6. ASSUME NEW i \in first + 1 .. IF pgPc' = "done" THEN Len(all) ELSE offset'
        PROVE  \E k \in 1 .. n + 1 : i \in pages'[k].offset + 1 .. end(pages'[k])
    <3>1. i \in first + 1 .. offset'
      BY <1>1, <1>2, <1>3, <1>4, <1>6, <2>6
    <3>2. CASE i <= offset
      <4>1. i \in first + 1 .. offset
        BY <1>2, <3>1, <3>2
      <4>2. PICK k \in 1 .. n : i \in pages[k].offset + 1 .. end(pages[k])
        BY <2>1, <4>1
      <4> QED
        BY <1>7, <4>2
    <3>3. CASE offset < i
      <4>1. i \in page.offset + 1 .. end(page)
        BY <1>2, <1>6, <2>3, <3>1, <3>3
      <4>2. n + 1 \in 1 .. n + 1
        BY <1>7
      <4> QED
        BY <1>7, <4>1, <4>2
    <3> QED
      BY <1>2, <3>1, <3>2, <3>3
  <2> QED
    BY <2>4, <2>5, <2>6
<1> QED
  BY <1>10, <1>11, <1>12, <1>13 DEF PagesInv

(* A page that fails, and an inventory that changes, take nothing back.    *)
LEMMA PagesStayInv ==
  ASSUME PagesInv, UNCHANGED <<mode, pageLimit, withFilter, first, offset, pages>>,
         pgPc # "idle", pgPc' \in {"ask", "failed"}, pgPc = "ask",
         rows' \in Seq(Row), changes' \in 0 .. MaxChanges,
         changes' = 0 => changes = 0 /\ rows' = rows
  PROVE  PagesInv'
<1>1. PagesTypeOK'
  BY DEF PagesInv, PagesTypeOK
<1>2. PagesShape'
  BY DEF PagesInv, PagesShape
<1>3. TruncatedTellsMore'
  BY DEF PagesInv, TruncatedTellsMore
<1>4. PagesCoverRows'
  <2> SUFFICES ASSUME changes' = 0, Paginates(mode)
               PROVE  PagesCoverRows'
    BY DEF PagesCoverRows
  <2>1. Filtered(mode, rows)' = Filtered(mode, rows)
    BY DEF Filtered
  <2> QED
    BY <2>1 DEF PagesInv, PagesCoverRows
<1> QED
  BY <1>1, <1>2, <1>3, <1>4 DEF PagesInv

LEMMA PagesNextInv ==
  ASSUME PagesInv, [PagesNext]_pgVars
  PROVE  PagesInv'
<1>1. CASE PagesStart
  BY <1>1, PagesStartInv
<1>2. CASE AskPage
  BY <1>2, AskPageInv
<1>3. CASE PageFails
  BY <1>3, PagesStayInv DEF PagesInv, PagesShape, PageFails
<1>4. CASE InventoryChanges
  <2>1. /\ UNCHANGED <<pgPc, mode, pageLimit, withFilter, first, offset, pages>>
        /\ pgPc = "ask" /\ rows' \in RowLists /\ changes' = changes + 1 /\ changes < MaxChanges
    BY <1>4 DEF InventoryChanges
  <2>2. changes \in Nat /\ MaxChanges \in Nat
    BY PagesAssumption DEF PagesInv, PagesShape
  <2>3. changes' \in 0 .. MaxChanges /\ changes' # 0
    BY <2>1, <2>2
  <2>4. rows' \in Seq(Row)
    <3>1. rows' \in Seq(ToSet(rows')) /\ ToSet(rows') \subseteq Row
      BY <2>1, PagesAssumption DEF Row
    <3> HIDE DEF ToSet
    <3> QED
      BY <3>1, SeqMonotonic
  <2> QED
    BY <2>1, <2>3, <2>4, PagesStayInv
<1>5. CASE UNCHANGED pgVars
  <2>1. PagesTypeOK' /\ TruncatedTellsMore' /\ PagesShape'
    BY <1>5 DEF PagesInv, PagesTypeOK, TruncatedTellsMore, PagesShape, pgVars
  <2>2. PagesCoverRows'
    <3>1. Filtered(mode, rows)' = Filtered(mode, rows)
      BY <1>5 DEF Filtered, pgVars
    <3> QED
      BY <1>5, <3>1 DEF PagesInv, PagesCoverRows, pgVars
  <2> QED
    BY <2>1, <2>2 DEF PagesInv
<1> QED
  BY <1>1, <1>2, <1>3, <1>4, <1>5 DEF PagesNext

-----------------------------------------------------------------------------
(* FindXrefs                                                               *)

Rows == [matches : BOOLEAN, addr : Nat \cup {NoAddress}]

(***************************************************************************)
(* The invariant of r2_find_xrefs: nothing is found before the search, and *)
(* no hit is asked about twice.                                            *)
(***************************************************************************)
FindInv ==
  /\ FindTypeOK
  /\ hits \in Seq(Rows) /\ (\E S : answers \in Seq(S))
  /\ fdPc \in {"idle", "search", "failed"} => hits = <<>> /\ answers = <<>>
  /\ fdPc = "done" => Len(answers) = Len(hits)
  /\ HitsAreFirstMatches /\ ExactMeansWhole

LEMMA CutLimitBound == ASSUME NEW n \in Nat PROVE CutLimit(n) \in 0 .. HitCap
<1>1. HitCap \in Nat
  BY FindAssumption
<1>2. Min({n, HitCap}) \in {n, HitCap} /\ \A k \in {n, HitCap} : Min({n, HitCap}) <= k
  BY <1>1, MinIsLeast
<1> QED
  BY <1>1, <1>2 DEF CutLimit

(* What a search answers: the first matches, and none of them skipped.     *)
LEMMA ResultsAreFirstMatches ==
  ASSUME NEW type, NEW rs \in Seq(Rows), NEW limit \in Nat,
         NEW found, found = Results(type, rs, limit), rs # NotRows \/ rs = <<>>
  PROVE  LET places == {i \in DOMAIN rs : rs[i].matches}
             n      == Len(found)
         IN  /\ found \in Seq(Rows)
             /\ n <= Cardinality(places)
             /\ limit # 0 => n <= limit
             /\ n < Cardinality(places) => limit # 0 /\ n = limit
             /\ \A i \in places :
                  LET before == Cardinality({j \in places : j < i})
                  IN  before < n => found[before + 1].addr \in {rs[i].addr, 0}
<1> DEFINE T        == {r \in ToSet(rs) : r.matches}
           matching == Kept(rs, T)
           m        == Len(matching)
           cap      == IF limit = 0 THEN m ELSE limit
           upto     == Min({cap, m})
           cut      == SubSeq(matching, 1, upto)
           places   == {i \in DOMAIN rs : rs[i].matches}
<1>1. Len(rs) \in Nat /\ DOMAIN rs = 1 .. Len(rs) /\ \A i \in 1 .. Len(rs) : rs[i] \in Rows
  BY ElementOfSeq, LenProperties
<1>2. \A i \in 1 .. Len(rs) : rs[i] \in T <=> rs[i].matches
  BY <1>1 DEF ToSet
<1>3. places = PlacesIn(rs, T, Len(rs))
  BY <1>1, <1>2 DEF PlacesIn
<1>4. ASSUME NEW i \in places
      PROVE  {j \in places : j < i} = PlacesIn(rs, T, i - 1)
  BY <1>1, <1>2 DEF PlacesIn
<1> HIDE DEF T
<1>5. matching \in Seq(Rows) /\ m \in Nat /\ \A j \in 1 .. m : matching[j] \in Rows
  <2>1. matching \in Seq(Rows)
    BY KeptIsSeq
  <2> HIDE DEF matching
  <2> QED
    BY <2>1, ElementOfSeq, LenProperties
<1>6. m = Cardinality(places)
  <2>1. Len(KeptUpTo(rs, T)[Len(rs)]) = Cardinality(PlacesIn(rs, T, Len(rs)))
    BY KeptIsRight DEF KeptRight
  <2> QED
    BY <1>3, <2>1 DEF Kept
<1>7. ASSUME NEW i \in places
      PROVE  LET before == Cardinality({j \in places : j < i})
             IN  before + 1 \in 1 .. m /\ matching[before + 1] = rs[i]
  <2>1. i \in PlacesIn(rs, T, Len(rs))
    BY <1>3
  <2> DEFINE at == Cardinality(PlacesIn(rs, T, i - 1)) + 1
  <2>2. at \in 1 .. Len(KeptUpTo(rs, T)[Len(rs)]) /\ KeptUpTo(rs, T)[Len(rs)][at] = rs[i]
    BY <2>1, KeptIsRight DEF KeptRight
  <2>3. Cardinality({j \in places : j < i}) + 1 = at
    BY <1>4
  <2> HIDE DEF at, places
  <2> QED
    BY <2>2, <2>3 DEF Kept
<1> HIDE DEF matching, m
<1>8. upto \in Nat /\ upto <= m /\ upto <= cap /\ (upto = cap \/ upto = m)
  <2>1. cap \in Nat
    BY <1>5
  <2> HIDE DEF cap
  <2>2. Min({cap, m}) \in {cap, m} /\ \A k \in {cap, m} : Min({cap, m}) <= k
    BY <1>5, <2>1, MinIsLeast
  <2> QED
    BY <1>5, <2>1, <2>2
<1> HIDE DEF upto
<1>9. /\ cut \in Seq(Rows) /\ Len(cut) = upto
      /\ \A j \in 1 .. upto : cut[j] = matching[j] /\ cut[j] \in Rows
  <2>1. \A j \in 1 .. upto : matching[j] \in Rows
    BY <1>5, <1>8
  <2>2. upto \in Int /\ 1 \in Int
    BY <1>8
  <2>3. /\ cut \in Seq(Rows)
        /\ Len(cut) = IF 1 <= upto THEN upto - 1 + 1 ELSE 0
        /\ \A j \in 1 .. upto - 1 + 1 : cut[j] = matching[1 + j - 1]
    BY <2>1, <2>2, SubSeqProperties
  <2> HIDE DEF cut
  <2>4. Len(cut) = upto /\ upto - 1 + 1 = upto /\ \A j \in 1 .. upto : 1 + j - 1 = j
    BY <1>8, <2>3
  <2> QED
    BY <2>1, <2>3, <2>4
<1>10. found = IF type = "bytes" THEN cut ELSE [j \in DOMAIN cut |-> Addressed(cut[j])]
  <2>1. (IF rs = NotRows THEN <<>> ELSE rs) = rs
    OBVIOUS
  <2> QED
    BY <2>1 DEF Results, FirstHits, cut, upto, cap, m, matching, T
<1> HIDE DEF cut
<1>11. /\ found \in Seq(Rows) /\ Len(found) = upto
       /\ \A j \in 1 .. upto : found[j].addr \in {matching[j].addr, 0}
  <2>1. CASE type = "bytes"
    BY <1>9, <1>10, <2>1
  <2>2. CASE type # "bytes"
    <3>1. DOMAIN cut = 1 .. upto
      BY <1>9, LenProperties
    <3>2. \A j \in 1 .. upto : /\ Addressed(cut[j]) \in Rows
                               /\ Addressed(cut[j]).addr \in {matching[j].addr, 0}
      BY <1>9 DEF Addressed, Rows
    <3>3. found = [j \in 1 .. upto |-> Addressed(cut[j])]
      BY <1>10, <2>2, <3>1
    <3>4. found \in [1 .. upto -> Rows]
      BY <3>2, <3>3
    <3>5. found \in Seq(Rows)
      BY <1>8, <3>4, SeqDef
    <3>6. DOMAIN found = 1 .. upto /\ DOMAIN found = 1 .. Len(found) /\ Len(found) \in Nat
      BY <3>4, <3>5, LenProperties
    <3>7. Len(found) = upto
      BY <1>8, <3>6
    <3> QED
      BY <3>2, <3>3, <3>5, <3>7
  <2> QED
    BY <2>1, <2>2
<1>12. ASSUME NEW i \in places, NEW before, before = Cardinality({j \in places : j < i}),
              before < upto
       PROVE  found[before + 1].addr \in {rs[i].addr, 0}
  <2>1. before + 1 \in 1 .. m /\ matching[before + 1] = rs[i]
    BY <1>7, <1>12
  <2>2. before \in Nat
    <3>1. i - 1 \in Nat
      BY <1>1, <1>12
    <3> QED
      BY <1>4, <1>12, <3>1, PlacesAreFinite
  <2>3. before + 1 \in 1 .. upto
    BY <1>8, <1>12, <2>2
  <2> QED
    BY <1>11, <2>1, <2>3
<1>13. /\ upto <= m /\ (limit # 0 => upto <= limit)
       /\ upto < m => limit # 0 /\ upto = limit
  BY <1>5, <1>8
<1> QED
  BY <1>6, <1>11, <1>12, <1>13

(* What is shown of a list that is cut to its first ones. *)
LEMMA FirstOnes ==
  ASSUME NEW S, NEW s \in Seq(S), NEW cap \in Nat, NEW n \in Nat,
         n <= Len(s), n <= cap, n = cap \/ n = Len(s)
  PROVE  LET shown == SubSeq(s, 1, n)
         IN  /\ Len(shown) = n /\ IsPrefix(shown, s)
             /\ shown = s <=> Len(s) <= cap
             /\ shown # s => n = cap
<1> DEFINE shown == SubSeq(s, 1, n)
<1>1. Len(s) \in Nat /\ \A i \in 1 .. Len(s) : s[i] \in S
  BY ElementOfSeq, LenProperties
<1>2. \A i \in 1 .. n : s[i] \in S
  BY <1>1
<1>3. shown \in Seq(S) /\ Len(shown) = n
  <2>1. /\ shown \in Seq(S)
        /\ Len(shown) = IF 1 <= n THEN n - 1 + 1 ELSE 0
    <3>1. n \in Int /\ 1 \in Int
      OBVIOUS
    <3> QED
      BY <1>2, <3>1, SubSeqProperties
  <2> QED
    BY <2>1
<1>4. SubSeq(shown, 1, Len(shown)) = shown
  BY <1>3, SubSeqFull
<1>5. IsPrefix(shown, s)
  BY <1>3, <1>4 DEF IsPrefix
<1>6. n = Len(s) => shown = s
  BY SubSeqFull
<1> HIDE DEF shown
<1>7. shown = s => n = Len(s)
  BY <1>3
<1>8. shown = s <=> Len(s) <= cap
  BY <1>1, <1>6, <1>7
<1>9. shown # s => n = cap
  BY <1>6
<1> QED
  BY <1>3, <1>5, <1>8, <1>9 DEF shown

LEMMA CutLength ==
  ASSUME NEW l \in Nat, NEW cap \in Nat
  PROVE  LET n == Min({cap, l})
         IN  n \in Nat /\ n <= l /\ n <= cap /\ (n = cap \/ n = l)
<1> DEFINE S == {cap, l}
<1>1. S \subseteq Nat /\ S # {}
  OBVIOUS
<1> HIDE DEF S
<1>2. Min(S) \in S /\ \A k \in S : Min(S) <= k
  BY <1>1, MinIsLeast
<1> QED
  BY <1>2 DEF S

LEMMA AnswerIsTrue ==
  ASSUME NEW xs \in XrefLists \cup {<<>>}, maxXrefs \in Nat, NEW a, a = Answer(xs)
  PROVE  IF a.answer = Refused
         THEN a.xrefs = <<>> /\ a.count = 0 /\ a.exact
         ELSE /\ a.exact <=> a.xrefs = a.answer
              /\ a.count = Len(a.answer)
              /\ IsPrefix(a.xrefs, a.answer)
<1> DEFINE whole == IF xs = Refused THEN <<>> ELSE xs
           upto  == Min({maxXrefs, Len(whole)})
           shown == SubSeq(whole, 1, upto)
<1>1. /\ a.answer = xs /\ a.xrefs = shown /\ a.count = Len(whole)
      /\ a.exact = (Len(whole) <= maxXrefs)
  BY DEF Answer
<1>2. PICK S : whole \in Seq(S)
  <2>1. CASE whole = <<>>
    BY <2>1, EmptySeq
  <2>2. CASE whole # <<>>
    <3>1. xs \in XrefLists \ {Refused} /\ whole = xs
      BY <2>2
    <3> QED
      BY <3>1, FindAssumption
  <2> QED
    BY <2>1, <2>2
<1>3. xs = Refused => whole = <<>> /\ Len(whole) = 0
  BY EmptySeq
<1>4. xs # Refused => whole = xs
  OBVIOUS
<1> HIDE DEF whole
<1>8. upto \in Nat /\ upto <= Len(whole) /\ upto <= maxXrefs
        /\ (upto = maxXrefs \/ upto = Len(whole))
  <2>1. Len(whole) \in Nat
    BY <1>2, LenProperties
  <2> QED
    BY <2>1, CutLength
<1> HIDE DEF upto
<1>5. /\ Len(shown) = upto /\ IsPrefix(shown, whole)
      /\ shown = whole <=> Len(whole) <= maxXrefs
  BY <1>2, <1>8, FirstOnes
<1> HIDE DEF shown
<1>6. CASE xs = Refused
  <2>1. Len(whole) <= maxXrefs
    BY <1>3, <1>6
  <2>2. a.xrefs = <<>> /\ a.exact
    BY <1>1, <1>3, <1>5, <1>6, <2>1
  <2> QED
    BY <1>1, <1>3, <1>6, <2>2
<1>7. CASE xs # Refused
  <2>1. a.exact <=> a.xrefs = a.answer
    BY <1>1, <1>4, <1>5, <1>7
  <2> QED
    BY <1>1, <1>4, <1>5, <1>7, <2>1
<1> QED
  BY <1>6, <1>7

LEMMA FindInitInv == FindInit => FindInv
<1> SUFFICES ASSUME FindInit PROVE FindInv
  OBVIOUS
<1>1. fdPc = "idle" /\ hitLimit = 0 /\ maxXrefs = 0
  BY DEF FindInit
<1>2. hits = <<>> /\ answers = <<>>
  BY DEF FindInit
<1>3. hits \in Seq(Rows) /\ answers \in Seq({}) /\ Len(hits) = 0 /\ Len(answers) = 0
  BY <1>2, EmptySeq
<1>4. \A k \in DOMAIN answers : FALSE
  BY <1>3, LenProperties
<1>5. HitCap \in Nat
  BY FindAssumption
<1>6. hitLimit \in 0 .. HitCap /\ maxXrefs \in 0 .. HitCap /\ Len(answers) <= Len(hits)
  BY <1>1, <1>3, <1>5
<1>7. FindTypeOK
  BY <1>1, <1>6 DEF FindTypeOK
<1>8. HitsAreFirstMatches /\ ExactMeansWhole
  BY <1>1, <1>4 DEF HitsAreFirstMatches, ExactMeansWhole
<1> QED
  BY <1>1, <1>2, <1>3, <1>7, <1>8 DEF FindInv

LEMMA FindStartInv ==
  ASSUME FindInv, FindStart
  PROVE  FindInv'
<1>1. PICK limit \in HitLimits, most \in XrefLimits :
        /\ hitLimit' = CutLimit(limit) /\ maxXrefs' = CutLimit(most)
        /\ fdPc' \in {"search", "failed"}
        /\ fdPc = "idle" /\ UNCHANGED <<listed, hits, answers>>
  BY DEF FindStart
<1>2. hitLimit' \in 0 .. HitCap /\ maxXrefs' \in 0 .. HitCap
  BY <1>1, CutLimitBound, FindAssumption
<1>3. FindTypeOK'
  BY <1>1, <1>2 DEF FindInv, FindTypeOK
<1>4. HitsAreFirstMatches' /\ ExactMeansWhole'
  BY <1>1 DEF FindInv, HitsAreFirstMatches, ExactMeansWhole
<1> QED
  BY <1>1, <1>3, <1>4 DEF FindInv

LEMMA SearchInv ==
  ASSUME FindInv, Search
  PROVE  FindInv'
<1>1. PICK rs \in Inventories :
        /\ listed' = rs /\ hits' = Results(searchType, rs, hitLimit)
        /\ fdPc = "search" /\ fdPc' = "xrefs"
        /\ UNCHANGED <<searchType, hitLimit, maxXrefs, answers>>
  BY DEF Search
<1>2. answers = <<>> /\ Len(answers) = 0 /\ hitLimit \in 0 .. HitCap /\ maxXrefs \in 0 .. HitCap
  BY <1>1, EmptySeq DEF FindInv, FindTypeOK
<1>3. hitLimit \in Nat
  BY <1>2, FindAssumption
<1>4. hits' \in Seq(Rows) /\ HitsAreFirstMatches'
  <2> DEFINE known == IF rs = NotRows THEN <<>> ELSE rs
             found == Results(searchType, known, hitLimit)
             n == Len(found)
             places == {i \in DOMAIN known : known[i].matches}
  <2>1. known \in Seq(Rows) /\ (known # NotRows \/ known = <<>>)
    <3>1. CASE rs = NotRows
      BY <3>1, EmptySeq
    <3>2. CASE rs # NotRows
      BY <3>2, FindAssumption DEF Rows
    <3> QED
      BY <3>1, <3>2
  <2>2. hits' = found
    <3>1. (IF known = NotRows THEN <<>> ELSE known) = known
      BY <2>1
    <3> QED
      BY <1>1, <3>1 DEF Results
  <2>3. (IF listed' = NotRows THEN {} ELSE {i \in DOMAIN listed' : listed'[i].matches}) = places
    <3>1. CASE rs = NotRows
      <4>1. DOMAIN known = 1 .. 0
        BY <3>1, EmptySeq, LenProperties
      <4>2. places = {}
        BY <4>1
      <4> QED
        BY <1>1, <3>1, <4>2
    <3>2. CASE rs # NotRows
      BY <1>1, <3>2
    <3> QED
      BY <3>1, <3>2
  <2> HIDE DEF known, found
  <2>4. /\ found \in Seq(Rows)
        /\ n <= Cardinality(places)
        /\ hitLimit # 0 => n <= hitLimit
        /\ n < Cardinality(places) => hitLimit # 0 /\ n = hitLimit
        /\ \A i \in places :
             LET before == Cardinality({j \in places : j < i})
             IN  before < n => found[before + 1].addr \in {known[i].addr, 0}
    BY <1>3, <2>1, ResultsAreFirstMatches DEF found
  <2>5. \A i \in places : known[i] = listed'[i]
    <3>1. CASE rs = NotRows
      <4>1. DOMAIN known = 1 .. 0
        BY <3>1, EmptySeq, LenProperties DEF known
      <4> QED
        BY <4>1
    <3>2. CASE rs # NotRows
      BY <1>1, <3>2 DEF known
    <3> QED
      BY <3>1, <3>2
  <2> HIDE DEF places
  <2> QED
    BY <1>1, <2>2, <2>3, <2>4, <2>5 DEF HitsAreFirstMatches
<1>5. Len(hits') \in Nat
  BY <1>4, LenProperties
<1>6. FindTypeOK'
  BY <1>1, <1>2, <1>5 DEF FindTypeOK
<1>7. ExactMeansWhole'
  BY <1>1 DEF FindInv, ExactMeansWhole
<1> QED
  BY <1>1, <1>2, <1>4, <1>6, <1>7 DEF FindInv

LEMMA AskHitInv ==
  ASSUME FindInv, AskHit
  PROVE  FindInv'
<1>1. PICK xs \in XrefLists \cup {<<>>} :
        /\ answers' = Append(answers, Answer(xs))
        /\ fdPc = "xrefs" /\ Len(answers) < Len(hits)
        /\ UNCHANGED <<fdPc, searchType, hitLimit, maxXrefs, listed, hits>>
  BY DEF AskHit
<1>2. PICK S : answers \in Seq(S)
  BY DEF FindInv
<1> DEFINE n == Len(answers)
<1>3. /\ \E T : answers' \in Seq(T)
      /\ n \in Nat /\ Len(answers') = n + 1
      /\ DOMAIN answers = 1 .. n /\ DOMAIN answers' = 1 .. n + 1
      /\ \A i \in 1 .. n : answers'[i] = answers[i]
      /\ answers'[n + 1] = Answer(xs)
  <2>1. PICK e : e = Answer(xs)
    OBVIOUS
  <2>2. answers' = Append(answers, e)
    BY <1>1, <2>1
  <2>3. /\ \E T : Append(answers, e) \in Seq(T)
        /\ n \in Nat /\ Len(Append(answers, e)) = n + 1
        /\ DOMAIN answers = 1 .. n /\ DOMAIN Append(answers, e) = 1 .. n + 1
    BY <1>2, AppendAny
  <2>4. \A i \in 1 .. n : Append(answers, e)[i] = answers[i]
    BY <1>2, AppendAny
  <2>5. Append(answers, e)[n + 1] = e
    BY <1>2, AppendAny
  <2> QED
    BY <2>1, <2>2, <2>3, <2>4, <2>5
<1>4. hits \in Seq(Rows) /\ Len(hits) \in Nat /\ maxXrefs \in Nat
  <2>1. hits \in Seq(Rows) /\ maxXrefs \in Nat
    BY FindAssumption DEF FindInv, FindTypeOK
  <2> QED
    BY <2>1, LenProperties
<1> HIDE DEF n
<1>5. FindTypeOK'
  <2>1. n + 1 <= Len(hits)
    BY <1>1, <1>3, <1>4 DEF n
  <2> QED
    BY <1>1, <1>3, <2>1 DEF FindInv, FindTypeOK
<1>6. HitsAreFirstMatches'
  BY <1>1 DEF FindInv, HitsAreFirstMatches
<1>7. ExactMeansWhole'
  <2> SUFFICES ASSUME NEW k \in 1 .. n + 1
               PROVE  LET a == answers'[k]
                      IN  IF a.answer = Refused
                          THEN a.xrefs = <<>> /\ a.count = 0 /\ a.exact
                          ELSE /\ a.exact <=> a.xrefs = a.answer
                               /\ a.count = Len(a.answer)
                               /\ IsPrefix(a.xrefs, a.answer)
    BY <1>3 DEF ExactMeansWhole
  <2>1. CASE k \in 1 .. n
    BY <1>3, <2>1 DEF FindInv, ExactMeansWhole
  <2>2. CASE k = n + 1
    BY <1>3, <1>4, <2>2, AnswerIsTrue
  <2> QED
    BY <1>3, <2>1, <2>2
<1> QED
  BY <1>1, <1>3, <1>4, <1>5, <1>6, <1>7 DEF FindInv

LEMMA FindNextInv ==
  ASSUME FindInv, [FindNext]_fdVars
  PROVE  FindInv'
<1>1. CASE FindStart
  BY <1>1, FindStartInv
<1>2. CASE Search
  BY <1>2, SearchInv
<1>3. CASE SearchFails
  BY <1>3 DEF FindInv, FindTypeOK, HitsAreFirstMatches, ExactMeansWhole, SearchFails
<1>4. CASE AskHit
  BY <1>4, AskHitInv
<1>5. CASE FindEnds
  BY <1>5 DEF FindInv, FindTypeOK, HitsAreFirstMatches, ExactMeansWhole, FindEnds
<1>6. CASE UNCHANGED fdVars
  BY <1>6 DEF FindInv, FindTypeOK, HitsAreFirstMatches, ExactMeansWhole, fdVars
<1> QED
  BY <1>1, <1>2, <1>3, <1>4, <1>5, <1>6 DEF FindNext

-----------------------------------------------------------------------------
(* FunctionAnalysis: the targets                                           *)

Refs == [type : STRING, target : Nat]

WantedRef(r, types) == r.type \in types /\ r.target # 0

(* The targets of the first n references of the types. *)
TargetsOf(refs, types, n) == {refs[j].target : j \in {i \in 1 .. n : WantedRef(refs[i], types)}}

(* The first n references, their targets named once each. *)
TargetsNamed(d, refs, types, n) ==
  /\ d \in Seq(Nat)
  /\ \A j, k \in 1 .. Len(d) : d[j] = d[k] => j = k
  /\ \A k \in 1 .. Len(d) : d[k] \in TargetsOf(refs, types, n)
  /\ \A t \in TargetsOf(refs, types, n) : \E k \in 1 .. Len(d) : d[k] = t

LEMMA NameOneMore ==
  ASSUME NEW refs, NEW types, NEW n \in Nat, NEW d, TargetsNamed(d, refs, types, n),
         NEW t \in Nat, t = refs[n + 1].target, NEW e,
         e = IF WantedRef(refs[n + 1], types) /\ ~ Contains(d, t) THEN Append(d, t) ELSE d
  PROVE  TargetsNamed(e, refs, types, n + 1)
<1> DEFINE T(m) == TargetsOf(refs, types, m)
<1>1. /\ T(n + 1) = T(n) \cup (IF WantedRef(refs[n + 1], types) THEN {t} ELSE {})
  <2>1. 1 .. n + 1 = (1 .. n) \cup {n + 1}
    OBVIOUS
  <2> HIDE DEF WantedRef
  <2> QED
    BY <2>1 DEF TargetsOf
<1> HIDE DEF T
<1>2. /\ d \in Seq(Nat) /\ Len(d) \in Nat
      /\ \A j, k \in 1 .. Len(d) : d[j] = d[k] => j = k
      /\ \A k \in 1 .. Len(d) : d[k] \in T(n)
      /\ \A u \in T(n) : \E k \in 1 .. Len(d) : d[k] = u
  BY LenProperties DEF TargetsNamed, T
<1>3. CASE WantedRef(refs[n + 1], types) /\ ~ Contains(d, t)
  <2>1. /\ e \in Seq(Nat) /\ Len(e) = Len(d) + 1 /\ e[Len(d) + 1] = t
        /\ \A k \in 1 .. Len(d) : e[k] = d[k]
    BY <1>2, <1>3, AppendProperties
  <2>2. \A k \in 1 .. Len(d) : d[k] # t
    BY <1>3 DEF Contains
  <2>3. \A k \in 1 .. Len(e) : k \in 1 .. Len(d) \/ k = Len(d) + 1
    BY <1>2, <2>1
  <2>4. \A j, k \in 1 .. Len(e) : e[j] = e[k] => j = k
    BY <1>2, <2>1, <2>2, <2>3
  <2>5. T(n + 1) = T(n) \cup {t}
    BY <1>1, <1>3
  <2>6. \A k \in 1 .. Len(e) : e[k] \in T(n + 1)
    BY <1>2, <2>1, <2>3, <2>5
  <2>7. \A u \in T(n + 1) : \E k \in 1 .. Len(e) : e[k] = u
    <3>1. Len(d) + 1 \in 1 .. Len(e) /\ \A k \in 1 .. Len(d) : k \in 1 .. Len(e)
      BY <1>2, <2>1
    <3> QED
      BY <1>2, <2>1, <2>5, <3>1
  <2> QED
    BY <2>1, <2>4, <2>6, <2>7 DEF TargetsNamed, T
<1>4. CASE ~ (WantedRef(refs[n + 1], types) /\ ~ Contains(d, t))
  <2>1. T(n + 1) = T(n)
    <3>1. CASE WantedRef(refs[n + 1], types)
      <4>1. t \in T(n)
        BY <1>2, <1>4, <3>1 DEF Contains
      <4> QED
        BY <1>1, <3>1, <4>1
    <3>2. CASE ~ WantedRef(refs[n + 1], types)
      BY <1>1, <3>2
    <3> QED
      BY <3>1, <3>2
  <2>2. e = d
    BY <1>4
  <2> QED
    BY <1>2, <2>1, <2>2 DEF TargetsNamed, T
<1> QED
  BY <1>3, <1>4

LEMMA DistinctTargetsAre ==
  ASSUME NEW refs \in Seq(Refs), NEW types
  PROVE  TargetsNamed(DistinctTargets(refs, types), refs, types, Len(refs))
<1> DEFINE L == Len(refs)
           Grown(n, s) == IF WantedRef(refs[n], types) /\ ~ Contains(s, refs[n].target)
                          THEN Append(s, refs[n].target) ELSE s
           step == [n \in 1 .. L |-> [s \in Seq(Nat) |-> Grown(n, s)]]
           Whole(f) == [n \in 0 .. L |-> IF n = 0 THEN <<>> ELSE Grown(n, f[n - 1])]
           M == CHOOSE m : m = Whole(m)
<1>1. L \in Nat /\ \A n \in 1 .. L : refs[n] \in Refs /\ refs[n].target \in Nat
  <2>1. L \in Nat /\ \A n \in 1 .. L : refs[n] \in Refs
    BY ElementOfSeq, LenProperties
  <2> QED
    BY <2>1 DEF Refs
<1>2. DistinctTargets(refs, types) = M[L]
  BY DEF DistinctTargets, WantedRef
<1>3. step \in [1 .. L -> [Seq(Nat) -> Seq(Nat)]]
  <2>1. ASSUME NEW n \in 1 .. L, NEW s \in Seq(Nat)
        PROVE  Grown(n, s) \in Seq(Nat)
    BY <1>1, AppendProperties
  <2> QED
    BY <2>1
<1>4. PICK f \in [0 .. L -> Seq(Nat)] :
        f[0] = <<>> /\ \A k \in 1 .. L : f[k] = step[k][f[k - 1]]
  <2>1. <<>> \in Seq(Nat)
    BY EmptySeq
  <2> HIDE DEF step
  <2> DEFINE V == Seq(Nat)  base == <<>>  n == L
  <2>2. n \in Nat /\ base \in V /\ step \in [1 .. n -> [V -> V]]
    BY <1>1, <1>3, <2>1
  <2> HIDE DEF V, base, n
  <2>3. PICK f : Stepwise(f, n, V, base, step)
    BY <2>2, StepByStep
  <2> QED
    BY <2>3 DEF V, base, n, Stepwise
<1> HIDE DEF Grown
<1>5. \A k \in 1 .. L : f[k] = Grown(k, f[k - 1])
  <2> TAKE k \in 1 .. L
  <2>1. f[k - 1] \in Seq(Nat)
    BY <1>1, <1>4
  <2> QED
    BY <1>4, <2>1
<1> HIDE DEF step
<1>6. f = Whole(f)
  <2>1. f = [n \in 0 .. L |-> f[n]]
    BY <1>4
  <2>2. ASSUME NEW n \in 0 .. L
        PROVE  f[n] = IF n = 0 THEN <<>> ELSE Grown(n, f[n - 1])
    <3>1. n = 0 \/ n \in 1 .. L
      BY <1>1
    <3> QED
      BY <1>4, <1>5, <3>1
  <2> QED
    BY <2>1, <2>2, Zenon
<1>7. M = Whole(M)
  <2>1. M = CHOOSE m : m = Whole(m)
    OBVIOUS
  <2> HIDE DEF M, Whole
  <2> QED
    BY <1>6, <2>1
<1> HIDE DEF M
<1>8. M[0] = <<>> /\ \A n \in 1 .. L : M[n] = Grown(n, M[n - 1])
  <2>1. 0 \in 0 .. L /\ \A n \in 1 .. L : n \in 0 .. L /\ n # 0
    BY <1>1
  <2>2. \A n \in 0 .. L : M[n] = IF n = 0 THEN <<>> ELSE Grown(n, M[n - 1])
    BY <1>7, Zenon
  <2> QED
    BY <2>1, <2>2
<1> DEFINE Bad == {n \in 0 .. L : ~ TargetsNamed(M[n], refs, types, n)}
<1>9. TargetsNamed(M[0], refs, types, 0)
  <2>1. M[0] \in Seq(Nat) /\ Len(M[0]) = 0 /\ TargetsOf(refs, types, 0) = {}
    BY <1>8, EmptySeq DEF TargetsOf
  <2>2. \A k \in 1 .. 0 : FALSE
    OBVIOUS
  <2> QED
    BY <2>1, <2>2 DEF TargetsNamed
<1>10. ASSUME NEW n \in 0 .. L - 1, TargetsNamed(M[n], refs, types, n)
       PROVE  TargetsNamed(M[n + 1], refs, types, n + 1)
  <2>1. n \in Nat /\ n + 1 \in 1 .. L /\ (n + 1) - 1 = n /\ refs[n + 1].target \in Nat
    BY <1>1
  <2>2. M[n + 1] = Grown(n + 1, M[n])
    BY <1>8, <2>1
  <2> QED
    BY <1>10, <2>1, <2>2, NameOneMore DEF Grown
<1>11. Bad = {}
  <2> SUFFICES ASSUME Bad # {} PROVE FALSE
    OBVIOUS
  <2>1. PICK n \in Bad : \A m \in Bad : n <= m
    <3>1. Bad \subseteq Nat
      OBVIOUS
    <3> HIDE DEF Bad
    <3> QED
      BY <3>1, LeastNatural
  <2>2. n # 0
    BY <1>9, <2>1
  <2>3. n - 1 \in 0 .. L - 1 /\ n - 1 \notin Bad /\ (n - 1) + 1 = n
    BY <1>1, <2>1, <2>2
  <2>4. TargetsNamed(M[n - 1], refs, types, n - 1)
    BY <1>1, <2>3
  <2>5. TargetsNamed(M[n], refs, types, n)
    BY <1>10, <2>3, <2>4
  <2> QED
    BY <2>1, <2>5
<1> QED
  BY <1>1, <1>2, <1>11

-----------------------------------------------------------------------------
(* FunctionAnalysis: the order of the calls                                *)

(***************************************************************************)
(* Where each call of a plan leads, spelt out.                             *)
(***************************************************************************)
LEMMA AfterIs ==
  ASSUME Len(Calls(plan)) \in Nat, NEW i \in 1 .. Len(Calls(plan)),
         \A j \in 1 .. Len(Calls(plan)) : Calls(plan)[j] = Calls(plan)[i] => j = i
  PROVE  After(Calls(plan)[i]) = IF i = Len(Calls(plan)) THEN "done" ELSE Calls(plan)[i + 1]
<1> DEFINE I == {j \in 1 .. Len(Calls(plan)) : Calls(plan)[j] = Calls(plan)[i]}
<1>1. I = {i} /\ I \subseteq Nat /\ I # {}
  OBVIOUS
<1>2. After(Calls(plan)[i])
        = IF Min(I) = Len(Calls(plan)) THEN "done" ELSE Calls(plan)[Min(I) + 1]
  BY <1>1 DEF After, SelectInSeq
<1> HIDE DEF I
<1>3. Min(I) = i
  BY <1>1, MinIsLeast
<1> QED
  BY <1>2, <1>3

LEMMA AfterInProfile ==
  ASSUME plan = "profile"
  PROVE  /\ After("info") = "blocks" /\ After("blocks") = "callers"
         /\ After("callers") = "callee_info" /\ After("callee_info") = "callees"
         /\ After("callees") = "strings" /\ After("strings") = "constants"
         /\ After("constants") = "done"
<1> DEFINE cs == <<"info", "blocks", "callers", "callee_info",
                   "callees", "strings", "constants">>
           Nr(c) == CASE c = "info" -> 1 [] c = "blocks" -> 2 [] c = "callers" -> 3
                      [] c = "callee_info" -> 4 [] c = "callees" -> 5 [] c = "strings" -> 6
                      [] c = "constants" -> 7
<1>1. Calls(plan) = cs
  BY DEF Calls
<1>2. /\ Len(cs) = 7
      /\ cs[1] = "info" /\ cs[2] = "blocks" /\ cs[3] = "callers" /\ cs[4] = "callee_info"
      /\ cs[5] = "callees" /\ cs[6] = "strings" /\ cs[7] = "constants"
  OBVIOUS
<1>3. /\ Nr("info") = 1 /\ Nr("blocks") = 2 /\ Nr("callers") = 3 /\ Nr("callee_info") = 4
      /\ Nr("callees") = 5 /\ Nr("strings") = 6 /\ Nr("constants") = 7
  OBVIOUS
<1> HIDE DEF cs, Nr
<1>4. \A i \in 1 .. 7 : Nr(cs[i]) = i
  BY <1>2, <1>3
<1>9. Len(Calls(plan)) = 7 /\ Len(Calls(plan)) \in Nat
  BY <1>1, <1>2
<1>10. \A i, j \in 1 .. 7 : cs[j] = cs[i] => j = i
  BY <1>4
<1>5. \A i \in 1 .. 7 : After(cs[i]) = IF i = 7 THEN "done" ELSE cs[i + 1]
  <2>1. SUFFICES ASSUME NEW i \in 1 .. 7
               PROVE  After(Calls(plan)[i]) = IF i = Len(Calls(plan)) THEN "done" ELSE Calls(plan)[i + 1]
    BY <1>1, <1>9
  <2>2. /\ i \in 1 .. Len(Calls(plan))
        /\ \A j \in 1 .. Len(Calls(plan)) : Calls(plan)[j] = Calls(plan)[i] => j = i
    BY <1>1, <1>9, <1>10
  <2> QED
    BY <1>9, <2>2, AfterIs
<1>8. 7 \in 1 .. 7 /\ \A i \in 1 .. 6 : i \in 1 .. 7 /\ i # 7
  OBVIOUS
<1>6. /\ \A i \in 1 .. 6 : After(cs[i]) = cs[i + 1]
      /\ After(cs[7]) = "done"
  BY <1>5, <1>8
<1>7. /\ After(cs[1]) = cs[2] /\ After(cs[2]) = cs[3]
      /\ After(cs[3]) = cs[4] /\ After(cs[4]) = cs[5]
      /\ After(cs[5]) = cs[6] /\ After(cs[6]) = cs[7]
  BY <1>6
<1> QED
  BY <1>2, <1>6, <1>7

LEMMA AfterInAnalyze ==
  ASSUME plan = "analyze"
  PROVE  /\ After("info") = "plugins" /\ After("plugins") = "pdg"
         /\ After("pdg") = "pdd" /\ After("pdd") = "meta"
         /\ After("meta") = "strings" /\ After("strings") = "constants"
         /\ After("constants") = "callers" /\ After("callers") = "callee_info"
         /\ After("callee_info") = "callees" /\ After("callees") = "blocks"
         /\ After("blocks") = "refs" /\ After("refs") = "done"
<1> DEFINE cs == <<"info", "plugins", "pdg", "pdd",
                   "meta", "strings", "constants", "callers",
                   "callee_info", "callees", "blocks", "refs">>
           Nr(c) == CASE c = "info" -> 1 [] c = "plugins" -> 2 [] c = "pdg" -> 3
                      [] c = "pdd" -> 4 [] c = "meta" -> 5 [] c = "strings" -> 6
                      [] c = "constants" -> 7 [] c = "callers" -> 8 [] c = "callee_info" -> 9
                      [] c = "callees" -> 10 [] c = "blocks" -> 11 [] c = "refs" -> 12
<1>1. Calls(plan) = cs
  BY DEF Calls
<1>2. /\ Len(cs) = 12
      /\ cs[1] = "info" /\ cs[2] = "plugins" /\ cs[3] = "pdg" /\ cs[4] = "pdd"
      /\ cs[5] = "meta" /\ cs[6] = "strings" /\ cs[7] = "constants" /\ cs[8] = "callers"
      /\ cs[9] = "callee_info" /\ cs[10] = "callees" /\ cs[11] = "blocks" /\ cs[12] = "refs"
  OBVIOUS
<1>3. /\ Nr("info") = 1 /\ Nr("plugins") = 2 /\ Nr("pdg") = 3 /\ Nr("pdd") = 4
      /\ Nr("meta") = 5 /\ Nr("strings") = 6 /\ Nr("constants") = 7 /\ Nr("callers") = 8
      /\ Nr("callee_info") = 9 /\ Nr("callees") = 10 /\ Nr("blocks") = 11 /\ Nr("refs") = 12
  OBVIOUS
<1> HIDE DEF cs, Nr
<1>4. \A i \in 1 .. 12 : Nr(cs[i]) = i
  BY <1>2, <1>3
<1>9. Len(Calls(plan)) = 12 /\ Len(Calls(plan)) \in Nat
  BY <1>1, <1>2
<1>10. \A i, j \in 1 .. 12 : cs[j] = cs[i] => j = i
  BY <1>4
<1>5. \A i \in 1 .. 12 : After(cs[i]) = IF i = 12 THEN "done" ELSE cs[i + 1]
  <2>1. SUFFICES ASSUME NEW i \in 1 .. 12
               PROVE  After(Calls(plan)[i]) = IF i = Len(Calls(plan)) THEN "done" ELSE Calls(plan)[i + 1]
    BY <1>1, <1>9
  <2>2. /\ i \in 1 .. Len(Calls(plan))
        /\ \A j \in 1 .. Len(Calls(plan)) : Calls(plan)[j] = Calls(plan)[i] => j = i
    BY <1>1, <1>9, <1>10
  <2> QED
    BY <1>9, <2>2, AfterIs
<1>8. 12 \in 1 .. 12 /\ \A i \in 1 .. 11 : i \in 1 .. 12 /\ i # 12
  OBVIOUS
<1>6. /\ \A i \in 1 .. 11 : After(cs[i]) = cs[i + 1]
      /\ After(cs[12]) = "done"
  BY <1>5, <1>8
<1>7. /\ After(cs[1]) = cs[2] /\ After(cs[2]) = cs[3]
      /\ After(cs[3]) = cs[4] /\ After(cs[4]) = cs[5]
      /\ After(cs[5]) = cs[6] /\ After(cs[6]) = cs[7]
      /\ After(cs[7]) = cs[8] /\ After(cs[8]) = cs[9]
      /\ After(cs[9]) = cs[10] /\ After(cs[10]) = cs[11]
      /\ After(cs[11]) = cs[12]
  BY <1>6
<1> QED
  BY <1>2, <1>6, <1>7

LEMMA AfterWithAssembly ==
  ASSUME plan = "analyze_with_assembly"
  PROVE  /\ After("info") = "plugins" /\ After("plugins") = "pdg"
         /\ After("pdg") = "pdd" /\ After("pdd") = "meta"
         /\ After("meta") = "assembly" /\ After("assembly") = "strings"
         /\ After("strings") = "constants" /\ After("constants") = "callers"
         /\ After("callers") = "callee_info" /\ After("callee_info") = "callees"
         /\ After("callees") = "blocks" /\ After("blocks") = "refs"
         /\ After("refs") = "done"
<1> DEFINE cs == <<"info", "plugins", "pdg", "pdd",
                   "meta", "assembly", "strings", "constants",
                   "callers", "callee_info", "callees", "blocks",
                   "refs">>
           Nr(c) == CASE c = "info" -> 1 [] c = "plugins" -> 2 [] c = "pdg" -> 3
                      [] c = "pdd" -> 4 [] c = "meta" -> 5 [] c = "assembly" -> 6
                      [] c = "strings" -> 7 [] c = "constants" -> 8 [] c = "callers" -> 9
                      [] c = "callee_info" -> 10 [] c = "callees" -> 11 [] c = "blocks" -> 12
                      [] c = "refs" -> 13
<1>1. Calls(plan) = cs
  BY DEF Calls
<1>2. /\ Len(cs) = 13
      /\ cs[1] = "info" /\ cs[2] = "plugins" /\ cs[3] = "pdg" /\ cs[4] = "pdd"
      /\ cs[5] = "meta" /\ cs[6] = "assembly" /\ cs[7] = "strings" /\ cs[8] = "constants"
      /\ cs[9] = "callers" /\ cs[10] = "callee_info" /\ cs[11] = "callees" /\ cs[12] = "blocks"
      /\ cs[13] = "refs"
  OBVIOUS
<1>3. /\ Nr("info") = 1 /\ Nr("plugins") = 2 /\ Nr("pdg") = 3 /\ Nr("pdd") = 4
      /\ Nr("meta") = 5 /\ Nr("assembly") = 6 /\ Nr("strings") = 7 /\ Nr("constants") = 8
      /\ Nr("callers") = 9 /\ Nr("callee_info") = 10 /\ Nr("callees") = 11 /\ Nr("blocks") = 12
      /\ Nr("refs") = 13
  OBVIOUS
<1> HIDE DEF cs, Nr
<1>4. \A i \in 1 .. 13 : Nr(cs[i]) = i
  <2>1. \A i \in 1 .. 7 : Nr(cs[i]) = i
    BY <1>2, <1>3
  <2>2. \A i \in 8 .. 13 : Nr(cs[i]) = i
    BY <1>2, <1>3
  <2>3. \A i \in 1 .. 13 : i \in 1 .. 7 \/ i \in 8 .. 13
    OBVIOUS
  <2> QED
    BY <2>1, <2>2, <2>3
<1>9. Len(Calls(plan)) = 13 /\ Len(Calls(plan)) \in Nat
  BY <1>1, <1>2
<1>10. \A i, j \in 1 .. 13 : cs[j] = cs[i] => j = i
  BY <1>4
<1>5. \A i \in 1 .. 13 : After(cs[i]) = IF i = 13 THEN "done" ELSE cs[i + 1]
  <2>1. SUFFICES ASSUME NEW i \in 1 .. 13
               PROVE  After(Calls(plan)[i]) = IF i = Len(Calls(plan)) THEN "done" ELSE Calls(plan)[i + 1]
    BY <1>1, <1>9
  <2>2. /\ i \in 1 .. Len(Calls(plan))
        /\ \A j \in 1 .. Len(Calls(plan)) : Calls(plan)[j] = Calls(plan)[i] => j = i
    BY <1>1, <1>9, <1>10
  <2> QED
    BY <1>9, <2>2, AfterIs
<1>8. 13 \in 1 .. 13 /\ \A i \in 1 .. 12 : i \in 1 .. 13 /\ i # 13
  OBVIOUS
<1>6. /\ \A i \in 1 .. 12 : After(cs[i]) = cs[i + 1]
      /\ After(cs[13]) = "done"
  BY <1>5, <1>8
<1>7. /\ After(cs[1]) = cs[2] /\ After(cs[2]) = cs[3]
      /\ After(cs[3]) = cs[4] /\ After(cs[4]) = cs[5]
      /\ After(cs[5]) = cs[6] /\ After(cs[6]) = cs[7]
      /\ After(cs[7]) = cs[8] /\ After(cs[8]) = cs[9]
      /\ After(cs[9]) = cs[10] /\ After(cs[10]) = cs[11]
      /\ After(cs[11]) = cs[12] /\ After(cs[12]) = cs[13]
  BY <1>6
<1> QED
  BY <1>2, <1>6, <1>7

(***************************************************************************)
(* Where an analysis may wait, and where it has put a call behind it.      *)
(***************************************************************************)
Parts == {"meta", "assembly", "constants", "blocks", "refs"}

LastCalls == {"callers", "callee_info", "callees", "fd", "blocks", "refs"}

AllCalls == {"info", "plugins", "pdg", "pdd", "meta", "assembly", "strings", "psz",
             "constants", "blocks"} \cup LastCalls

Waits(p) ==
  CASE p = "profile" -> {"info", "blocks", "callers", "callee_info", "callees", "fd",
                         "strings", "psz", "constants"}
    [] p = "analyze" -> {"info", "plugins", "pdg", "pdd", "meta", "strings", "psz",
                         "constants"} \cup LastCalls
    [] p = "analyze_with_assembly" ->
         {"info", "plugins", "pdg", "pdd", "meta", "assembly", "strings", "psz",
          "constants"} \cup LastCalls

Past(p, c) ==
  IF p = "profile"
  THEN CASE c = "blocks" -> Waits(p) \ {"info", "blocks"}
         [] c = "callees" -> {"fd", "strings", "psz", "constants"}
         [] c = "strings" -> {"psz", "constants"}
         [] OTHER -> {}
  ELSE CASE c = "meta" -> Waits(p) \ {"info", "plugins", "pdg", "pdd", "meta"}
         [] c = "assembly" -> IF p = "analyze" THEN {}
                              ELSE {"strings", "psz", "constants"} \cup LastCalls
         [] c = "strings" -> {"psz", "constants"} \cup LastCalls
         [] c = "constants" -> LastCalls
         [] c = "callees" -> {"fd", "blocks", "refs"}
         [] c = "blocks" -> {"refs"}
         [] OTHER -> {}

(* The parts of a plan. *)
PartsOf(p) ==
  CASE p = "profile" -> {"blocks", "constants"}
    [] p = "analyze" -> Parts \ {"assembly"}
    [] p = "analyze_with_assembly" -> Parts

HasPassed(p, pc, c) == pc \in Past(p, c) \/ (pc = "done" /\ c \in PartsOf(p))

Leads(c) ==
  CASE c = "plugins" -> {"pdg", After("pdd")}
    [] c = "pdg" -> {"pdd", After("pdd")}
    [] c = "callee_info" -> {"callees", After("callees")}
    [] c = "callees" -> {"fd", After("callees")}
    [] c = "fd" -> {"fd", After("callees")}
    [] c = "strings" -> {"psz", After("strings")}
    [] c = "psz" -> {"psz", After("strings")}
    [] OTHER -> {After(c)}

AnalysisPlans == {"profile", "analyze", "analyze_with_assembly"}

(***************************************************************************)
(* A step passes the part it asks for and no other, and goes forward.      *)
(***************************************************************************)
Forward(c, d) ==
  /\ d \in Waits(plan) \cup {"done"}
  /\ d # "info"
  /\ \A part \in Parts : HasPassed(plan, d, part) <=> (HasPassed(plan, c, part) \/ c = part)
  /\ \A l \in {"callees", "strings"} : c \in Past(plan, l) => d = "done" \/ d \in Past(plan, l)
  /\ d \in {"pdg", "plugins"} => c \in {"info", "plugins"}
  /\ d = "pdd" => c = "pdg"
  /\ c # "fd" => (d = "fd" => c = "callees")
  /\ c # "psz" => (d = "psz" => c = "strings")

LEMMA LeadsForward ==
  ASSUME plan \in AnalysisPlans, NEW c \in Waits(plan), NEW d \in Leads(c)
  PROVE  Forward(c, d) /\ c \notin Past(plan, c)
<1>1. CASE plan = "profile"
  <2>1. c \in {"info", "blocks", "callers", "callee_info", "callees", "fd",
                         "strings", "psz", "constants"}
    BY <1>1 DEF Waits
  <2> QED
    BY <1>1, <2>1, AfterInProfile
       DEF Leads, Forward, HasPassed, Past, Waits, PartsOf, Parts, LastCalls
<1>2. CASE plan = "analyze"
  BY <1>2, AfterInAnalyze DEF Leads, Forward, HasPassed, Past, Waits, PartsOf, Parts, LastCalls
<1>3. CASE plan = "analyze_with_assembly"
  BY <1>3, AfterWithAssembly DEF Leads, Forward, HasPassed, Past, Waits, PartsOf, Parts, LastCalls
<1> QED
  BY <1>1, <1>2, <1>3 DEF AnalysisPlans

-----------------------------------------------------------------------------
(* FunctionAnalysis: the invariant                                         *)

(***************************************************************************)
(* An analysis keeps its books: what it has asked for, what of it failed   *)
(* and what has come of it.                                                *)
(***************************************************************************)
FailedCall(c) == \E k \in 1 .. Len(asked) : asked[k].call = c /\ asked[k].outcome # "ok"

Named == [target : Nat, name : NameAnswers]

Answers ==
  [code : {Absent, "note"} \cup Texts, parts : SUBSET Parts,
   callers : {Absent} \cup {TrimNeighbours(n) : n \in Neighbours},
   calleeRefs : Seq(Refs), stringRefs : Seq(Refs),
   callees : Seq(Named), strings : Seq(Named)]

AnalysisShape ==
  /\ plan \in AnalysisPlans
  /\ faPc \in Waits(plan) \cup {"idle", "missing", "done", "failed"}
  /\ radare \in {"ready", "busy"}
  /\ asked \in Seq([call : AllCalls, outcome : {"ok", "error", "timeout"}])
  /\ answer \in Answers
  /\ pdg \in {Absent} \cup Texts
  /\ todo \in Seq(Nat)

(* Only a call an analysis can do without may have failed. *)
OnlyOptionalFail ==
  /\ faPc # "failed" =>
       \A k \in 1 .. Len(asked) : asked[k].outcome # "ok" => asked[k].call \in Optional
  /\ faPc = "failed" =>
       /\ Len(asked) # 0
       /\ asked[Len(asked)].outcome # "ok" /\ asked[Len(asked)].call \notin Optional

(* A part has been asked for once it is passed, and is there unless that   *)
(* failed.                                                                 *)
PartsKept ==
  faPc \notin {"missing", "failed"} =>
    \A c \in Parts : /\ AskedFor(c) <=> HasPassed(plan, faPc, c)
                     /\ c \in answer.parts <=> AskedFor(c) /\ ~ FailedCall(c)

CodeMissing ==
  (\E c \in {"plugins", "pdg", "pdd"} : FailedCall(c)) \/ ~ AskedFor("pdg")

CodeKept ==
  /\ CodeIsMeaningful
  /\ faPc \in {"idle", "info", "plugins", "pdg"} =>
       pdg = Absent /\ answer.code = Absent /\ ~ AskedFor("pdg")
  /\ faPc = "pdd" => pdg # "code" /\ answer.code = Absent
  /\ faPc \notin {"pdg", "pdd", "failed"} /\ answer.code = Absent => CodeMissing

CalleesKept ==
  LET D == DistinctTargets(answer.calleeRefs, {"CALL"})
      n == Len(answer.callees)
  IN  /\ n <= Len(D)
      /\ \A k \in 1 .. n : answer.callees[k].target = D[k]
      /\ faPc \notin {"fd", "failed"} => n = Len(D)
      /\ faPc = "fd" => /\ Len(todo) # 0 /\ Len(D) = n + Len(todo)
                        /\ \A k \in 1 .. Len(todo) : todo[k] = D[n + k]
      /\ faPc \in {"idle"} \cup (Waits(plan) \ Past(plan, "callees")) => n = 0

StringsKept ==
  LET D == DistinctTargets(answer.stringRefs, {"DATA", "STRING"})
      s == answer.strings
  IN  /\ \A j, k \in 1 .. Len(s) : s[j].target = s[k].target => j = k
      /\ \A k \in 1 .. Len(s) : s[k].name # "none"
      /\ faPc = "psz" => /\ Len(todo) # 0 /\ Len(todo) <= Len(D)
                         /\ \A k \in 1 .. Len(todo) : todo[k] = D[Len(D) - Len(todo) + k]
                         /\ \A k \in 1 .. Len(s) :
                              \E j \in 1 .. Len(D) - Len(todo) : s[k].target = D[j]
      /\ faPc \in {"idle"} \cup (Waits(plan) \ Past(plan, "strings")) => Len(s) = 0

AnalysisInv ==
  /\ AnalysisShape /\ OnlyOptionalFail /\ PartsKept /\ CodeKept
  /\ CalleesKept /\ StringsKept

Outcomes == {"ok", "error", "timeout"}

LEMMA AskedMore ==
  ASSUME AnalysisShape, faPc \in AllCalls, NEW o \in Outcomes,
         asked' = Append(asked, [call |-> faPc, outcome |-> o])
  PROVE  /\ asked' \in Seq([call : AllCalls, outcome : {"ok", "error", "timeout"}])
         /\ Len(asked') = Len(asked) + 1 /\ Len(asked) \in Nat
         /\ \A k \in 1 .. Len(asked) : asked'[k] = asked[k]
         /\ asked'[Len(asked) + 1].call = faPc /\ asked'[Len(asked) + 1].outcome = o
         /\ \A k \in 1 .. Len(asked') : k \in 1 .. Len(asked) \/ k = Len(asked) + 1
         /\ \A c : AskedFor(c)' <=> (AskedFor(c) \/ c = faPc)
         /\ \A c : FailedCall(c)' <=> (FailedCall(c) \/ (c = faPc /\ o # "ok"))
<1> DEFINE e == [call |-> faPc, outcome |-> o]
           Rec == [call : AllCalls, outcome : {"ok", "error", "timeout"}]
<1>1. e \in Rec /\ asked \in Seq(Rec) /\ asked' = Append(asked, e)
  BY DEF Outcomes, AnalysisShape
<1>2. e.call = faPc /\ e.outcome = o
  OBVIOUS
<1> HIDE DEF e, Rec
<1>3. /\ asked' \in Seq(Rec) /\ Len(asked') = Len(asked) + 1 /\ Len(asked) \in Nat
      /\ \A k \in 1 .. Len(asked) : asked'[k] = asked[k]
      /\ asked'[Len(asked) + 1] = e
  BY <1>1, AppendProperties, LenProperties
<1> DEFINE L == Len(asked)  M == Len(asked')
<1>4. \A k \in 1 .. M : k \in 1 .. L \/ k = L + 1
  BY <1>3
<1>5. L + 1 \in 1 .. M /\ \A k \in 1 .. L : k \in 1 .. M
  BY <1>3
<1>6. \A c : AskedFor(c)' <=> (AskedFor(c) \/ c = faPc)
  BY <1>2, <1>3, <1>4, <1>5 DEF AskedFor
<1>7. \A c : FailedCall(c)' <=> (FailedCall(c) \/ (c = faPc /\ o # "ok"))
  BY <1>2, <1>3, <1>4, <1>5 DEF FailedCall
<1> QED
  BY <1>2, <1>3, <1>4, <1>6, <1>7 DEF Rec

LEMMA WaitsAreNames ==
  ASSUME plan \in AnalysisPlans, NEW c \in Waits(plan)
  PROVE  c \in AllCalls /\ c \notin {"idle", "missing", "done", "failed"}
<1>1. c \in AllCalls
  BY DEF Waits, LastCalls, AnalysisPlans, AllCalls
<1>2. c \notin {"idle", "missing", "done", "failed"}
  BY <1>1 DEF AllCalls, LastCalls
<1> QED
  BY <1>1, <1>2

(* A call that is answered, or that may fail, leads on. *)
LEMMA GoesOn ==
  ASSUME AnalysisShape, OnlyOptionalFail, PartsKept, plan' = plan,
         faPc \in Waits(plan), faPc' \in Leads(faPc),
         NEW o \in Outcomes, asked' = Append(asked, [call |-> faPc, outcome |-> o]),
         o = "ok" \/ faPc \in Optional,
         answer'.parts = answer.parts \cup (IF o = "ok" /\ faPc \in Parts THEN {faPc} ELSE {})
  PROVE  OnlyOptionalFail' /\ PartsKept'
<1>1. Forward(faPc, faPc') /\ faPc \notin Past(plan, faPc)
  BY LeadsForward DEF AnalysisShape
<1>2. /\ faPc \in AllCalls /\ faPc \notin {"idle", "missing", "done", "failed"}
      /\ faPc' \notin {"idle", "missing", "failed"}
  BY <1>1, WaitsAreNames DEF Forward, AnalysisShape
<1>3. /\ Len(asked') = Len(asked) + 1 /\ Len(asked) \in Nat
      /\ \A k \in 1 .. Len(asked) : asked'[k] = asked[k]
      /\ asked'[Len(asked) + 1].call = faPc /\ asked'[Len(asked) + 1].outcome = o
      /\ \A k \in 1 .. Len(asked') : k \in 1 .. Len(asked) \/ k = Len(asked) + 1
      /\ \A c : AskedFor(c)' <=> (AskedFor(c) \/ c = faPc)
      /\ \A c : FailedCall(c)' <=> (FailedCall(c) \/ (c = faPc /\ o # "ok"))
  BY <1>2, AskedMore
<1>4. OnlyOptionalFail'
  BY <1>2, <1>3 DEF OnlyOptionalFail
<1>5. PartsKept'
  <2> SUFFICES ASSUME NEW c \in Parts
               PROVE  /\ AskedFor(c)' <=> HasPassed(plan, faPc', c)
                      /\ c \in answer'.parts <=> AskedFor(c)' /\ ~ FailedCall(c)'
    BY DEF PartsKept, HasPassed
  <2>1. /\ AskedFor(c) <=> HasPassed(plan, faPc, c)
        /\ c \in answer.parts <=> AskedFor(c) /\ ~ FailedCall(c)
    BY <1>2 DEF PartsKept
  <2>2. HasPassed(plan, faPc', c) <=> (HasPassed(plan, faPc, c) \/ faPc = c)
    BY <1>1 DEF Forward
  <2>3. ~ HasPassed(plan, faPc, faPc)
    BY <1>1, <1>2 DEF HasPassed
  <2>4. FailedCall(c) => AskedFor(c)
    BY DEF FailedCall, AskedFor
  <2>5. AskedFor(c)' <=> (AskedFor(c) \/ c = faPc)
    BY <1>3
  <2>6. FailedCall(c)' <=> (FailedCall(c) \/ (c = faPc /\ o # "ok"))
    BY <1>3
  <2>7. c \in answer'.parts <=> (c \in answer.parts \/ (c = faPc /\ o = "ok"))
    OBVIOUS
  <2>8. c = faPc => ~ AskedFor(c)
    BY <2>1, <2>3
  <2> QED
    BY <2>1, <2>2, <2>4, <2>5, <2>6, <2>7, <2>8
<1> QED
  BY <1>4, <1>5

LEMMA CalleesStay ==
  ASSUME AnalysisShape, CalleesKept, plan' = plan,
         faPc \in Waits(plan) \ {"fd"}, faPc' \in Leads(faPc), faPc' # "fd",
         answer'.callees = answer.callees, answer'.calleeRefs = answer.calleeRefs
  PROVE  CalleesKept'
<1>1. Forward(faPc, faPc')
  BY LeadsForward DEF AnalysisShape
<1>2. faPc \notin {"idle", "missing", "done", "failed"} /\ "done" \notin Waits(plan)
  BY WaitsAreNames DEF AnalysisShape
<1>3. faPc' \in {"idle"} \cup (Waits(plan) \ Past(plan, "callees"))
        => faPc \in {"idle"} \cup (Waits(plan) \ Past(plan, "callees"))
  BY <1>1, <1>2, WaitsAreNames DEF Forward, AnalysisShape
<1> HIDE DEF DistinctTargets
<1> QED
  BY <1>2, <1>3 DEF CalleesKept

LEMMA StringsStay ==
  ASSUME AnalysisShape, StringsKept, plan' = plan,
         faPc \in Waits(plan) \ {"psz"}, faPc' \in Leads(faPc), faPc' # "psz",
         answer'.strings = answer.strings, answer'.stringRefs = answer.stringRefs
  PROVE  StringsKept'
<1>1. Forward(faPc, faPc')
  BY LeadsForward DEF AnalysisShape
<1>2. faPc \notin {"idle", "missing", "done", "failed"} /\ "done" \notin Waits(plan)
  BY WaitsAreNames DEF AnalysisShape
<1>3. faPc' \in {"idle"} \cup (Waits(plan) \ Past(plan, "strings"))
        => faPc \in {"idle"} \cup (Waits(plan) \ Past(plan, "strings"))
  BY <1>1, <1>2, WaitsAreNames DEF Forward, AnalysisShape
<1> QED
  BY <1>2, <1>3 DEF StringsKept

(* The code of an answer stays when neither pdg nor pdd is asked. *)
LEMMA CodeStays ==
  ASSUME AnalysisShape, CodeKept, plan' = plan,
         faPc \in Waits(plan), faPc' \in Leads(faPc),
         faPc \notin {"pdg", "pdd"},
         NEW o \in Outcomes, asked' = Append(asked, [call |-> faPc, outcome |-> o]),
         pdg' = pdg, answer'.code = answer.code
  PROVE  CodeKept'
<1>1. Forward(faPc, faPc')
  BY LeadsForward DEF AnalysisShape
<1>2. /\ faPc \in AllCalls /\ faPc \notin {"idle", "missing", "done", "failed"}
      /\ faPc' \notin {"idle", "info", "missing", "failed"} /\ faPc' # "pdd"
      /\ faPc' \in {"plugins", "pdg"} => faPc \in {"info", "plugins"}
  BY <1>1, WaitsAreNames DEF Forward, AnalysisShape
<1>3. /\ \A c : AskedFor(c)' <=> (AskedFor(c) \/ c = faPc)
      /\ \A c : FailedCall(c)' <=> (FailedCall(c) \/ (c = faPc /\ o # "ok"))
  BY <1>2, AskedMore
<1>4. AskedFor("pdg")' <=> AskedFor("pdg")
  BY <1>3
<1>5. CodeMissing => CodeMissing'
  BY <1>3, <1>4 DEF CodeMissing
<1>6. CodeIsMeaningful'
  BY <1>3 DEF CodeKept, CodeIsMeaningful
<1> QED
  BY <1>2, <1>4, <1>5, <1>6 DEF CodeKept

LEMMA NoTargets ==
  ASSUME NEW types
  PROVE  Len(DistinctTargets(<<>>, types)) = 0
<1>1. <<>> \in Seq(Refs) /\ Len(<<>>) = 0
  BY EmptySeq
<1>2. TargetsNamed(DistinctTargets(<<>>, types), <<>>, types, 0)
  BY <1>1, DistinctTargetsAre
<1>3. TargetsOf(<<>>, types, 0) = {}
  BY DEF TargetsOf
<1> DEFINE d == DistinctTargets(<<>>, types)
<1> HIDE DEF d
<1>4. Len(d) \in Nat /\ \A k \in 1 .. Len(d) : FALSE
  BY <1>2, <1>3, LenProperties DEF TargetsNamed, d
<1>5. Len(d) = 0
  BY <1>4
<1> QED
  BY <1>5 DEF d

LEMMA AnalysisInitInv ==
  AnalysisInit => AnalysisInv
<1> SUFFICES ASSUME AnalysisInit PROVE AnalysisInv
  OBVIOUS
<1>1. /\ answer.code = Absent /\ answer.parts = {} /\ answer.callers = Absent
      /\ answer.calleeRefs = <<>> /\ answer.stringRefs = <<>>
      /\ answer.callees = <<>> /\ answer.strings = <<>>
      /\ faPc = "idle" /\ plan = "profile" /\ asked = <<>> /\ pdg = Absent /\ todo = <<>>
  BY DEF AnalysisInit
<1>2. answer \in Answers
  BY EmptySeq DEF AnalysisInit, Answers
<1>3. \A c \in Parts : ~ HasPassed(plan, faPc, c)
  BY <1>1 DEF HasPassed, Past, Waits, Parts
<1>4. "idle" \notin Waits(plan)
  BY <1>1 DEF Waits
<1>5. Len(asked) = 0 /\ Len(answer.callees) = 0 /\ Len(answer.strings) = 0
  BY <1>1, EmptySeq
<1>6. AnalysisShape
  BY <1>1, <1>2, EmptySeq DEF AnalysisShape, AnalysisInit, AnalysisPlans
<1>7. (\A k \in 1 .. 0 : FALSE) /\ \A c : ~ AskedFor(c) /\ ~ FailedCall(c)
  BY <1>5 DEF AskedFor, FailedCall
<1>8. OnlyOptionalFail
  BY <1>1, <1>5, <1>7 DEF OnlyOptionalFail
<1>9. PartsKept
  BY <1>1, <1>3, <1>7 DEF PartsKept
<1>10. CodeKept
  <2>1. Absent \notin {"note", "code", "Cannot"}
    BY AnalysisAssumption
  <2>2. CodeIsMeaningful
    BY <1>1, <2>1 DEF CodeIsMeaningful
  <2> QED
    BY <1>1, <1>7, <2>2 DEF CodeKept, CodeMissing
<1>11. Len(DistinctTargets(answer.calleeRefs, {"CALL"})) = 0
  BY <1>1, NoTargets
<1> HIDE DEF DistinctTargets
<1>12. CalleesKept
  BY <1>1, <1>4, <1>5, <1>7, <1>11 DEF CalleesKept
<1>13. StringsKept
  BY <1>1, <1>4, <1>5, <1>7 DEF StringsKept
<1> QED
  BY <1>6, <1>8, <1>9, <1>10, <1>12, <1>13 DEF AnalysisInv

LEMMA AnalysisStartInv ==
  ASSUME AnalysisInv, AnalysisStart
  PROVE  AnalysisInv'
<1>1. /\ plan' \in AnalysisPlans /\ plan \in AnalysisPlans /\ faPc = "idle" /\ faPc' = "info"
      /\ UNCHANGED <<radare, asked, pdg, todo, answer>>
  BY AnalysisAssumption DEF AnalysisStart, AnalysisPlans, AnalysisInv, AnalysisShape
<1>2. "info" \in Waits(plan')
  BY <1>1 DEF Waits, AnalysisPlans
<1>3. \A p \in AnalysisPlans : \A c \in Parts : ~ HasPassed(p, "idle", c) /\ ~ HasPassed(p, "info", c)
  BY DEF HasPassed, Past, Waits, Parts, LastCalls, AnalysisPlans
<1>4. AnalysisShape'
  BY <1>1, <1>2 DEF AnalysisInv, AnalysisShape
<1>5. OnlyOptionalFail'
  BY <1>1 DEF AnalysisInv, OnlyOptionalFail
<1>6. PartsKept'
  BY <1>1, <1>3 DEF AnalysisInv, PartsKept, AskedFor, FailedCall
<1>7. CodeKept'
  BY <1>1 DEF AnalysisInv, CodeKept, CodeIsMeaningful, CodeMissing, AskedFor, FailedCall
<1> HIDE DEF DistinctTargets
<1>8. CalleesKept'
  BY <1>1 DEF AnalysisInv, CalleesKept
<1>9. StringsKept'
  BY <1>1 DEF AnalysisInv, StringsKept
<1> QED
  BY <1>4, <1>5, <1>6, <1>7, <1>8, <1>9 DEF AnalysisInv

(* A call that leads on, and is not of a list that is read item by item. *)
LEMMA PlainStep ==
  ASSUME AnalysisInv, plan' = plan, radare' \in {"ready", "busy"},
         faPc \in Waits(plan) \ {"callees", "strings", "fd", "psz"}, faPc' \in Leads(faPc),
         NEW o \in Outcomes, asked' = Append(asked, [call |-> faPc, outcome |-> o]),
         o = "ok" \/ faPc \in Optional,
         pdg' \in {Absent} \cup Texts, todo' = todo, answer' \in Answers,
         answer'.parts = answer.parts \cup (IF o = "ok" /\ faPc \in Parts THEN {faPc} ELSE {}),
         answer'.callees = answer.callees, answer'.calleeRefs = answer.calleeRefs,
         answer'.strings = answer.strings, answer'.stringRefs = answer.stringRefs,
         CodeKept'
  PROVE  AnalysisInv'
<1>1. Forward(faPc, faPc') /\ faPc \in AllCalls
  BY LeadsForward, WaitsAreNames DEF AnalysisInv, AnalysisShape
<1>2. faPc' \in Waits(plan) \cup {"done"} /\ faPc' \notin {"fd", "psz"}
  BY <1>1 DEF Forward
<1>3. asked' \in Seq([call : AllCalls, outcome : {"ok", "error", "timeout"}])
  BY <1>1, AskedMore DEF AnalysisInv
<1>4. AnalysisShape'
  BY <1>2, <1>3 DEF AnalysisInv, AnalysisShape
<1>5. OnlyOptionalFail' /\ PartsKept'
  BY GoesOn DEF AnalysisInv
<1>6. CalleesKept'
  BY <1>2, CalleesStay DEF AnalysisInv
<1>7. StringsKept'
  BY <1>2, StringsStay DEF AnalysisInv
<1> QED
  BY <1>4, <1>5, <1>6, <1>7 DEF AnalysisInv

(* An analysis whose answer stays as it is where it ends. *)
LEMMA EndsThere ==
  ASSUME AnalysisInv, plan' = plan, radare' \in {"ready", "busy"},
         faPc \in Waits(plan), NEW o \in Outcomes,
         asked' = Append(asked, [call |-> faPc, outcome |-> o]),
         \/ faPc = "info" /\ o = "ok" /\ faPc' = "missing"
         \/ o # "ok" /\ faPc \notin Optional /\ faPc' = "failed",
         UNCHANGED <<pdg, todo, answer>>
  PROVE  AnalysisInv'
<1>1. /\ faPc \in AllCalls /\ faPc \notin {"idle", "missing", "done", "failed"}
      /\ \A c \in Waits(plan) : c \notin {"idle", "missing", "done", "failed"}
  BY WaitsAreNames DEF AnalysisInv, AnalysisShape
<1>2. /\ asked' \in Seq([call : AllCalls, outcome : {"ok", "error", "timeout"}])
      /\ Len(asked') = Len(asked) + 1 /\ Len(asked) \in Nat
      /\ \A k \in 1 .. Len(asked) : asked'[k] = asked[k]
      /\ asked'[Len(asked) + 1].call = faPc /\ asked'[Len(asked) + 1].outcome = o
      /\ \A k \in 1 .. Len(asked') : k \in 1 .. Len(asked) \/ k = Len(asked) + 1
      /\ \A c : AskedFor(c)' <=> (AskedFor(c) \/ c = faPc)
      /\ \A c : FailedCall(c)' <=> (FailedCall(c) \/ (c = faPc /\ o # "ok"))
  BY <1>1, AskedMore DEF AnalysisInv
<1>3. AnalysisShape'
  BY <1>2 DEF AnalysisInv, AnalysisShape
<1>4. OnlyOptionalFail'
  BY <1>1, <1>2 DEF AnalysisInv, OnlyOptionalFail
<1>5. PartsKept'
  BY DEF PartsKept
<1>6. CodeKept'
  <2>1. CodeMissing => faPc' = "failed" \/ CodeMissing'
    BY <1>2 DEF CodeMissing
  <2>2. CodeIsMeaningful'
    <3>1. CodeIsMeaningful /\ (AskedFor("pdd") => AskedFor("pdd")')
      BY <1>2 DEF AnalysisInv, CodeKept
    <3> QED
      BY <3>1 DEF CodeIsMeaningful
  <2>3. faPc = "info" => ~ AskedFor("pdg")
    BY DEF AnalysisInv, CodeKept
  <2>4. faPc' # "failed" => CodeMissing'
    BY <1>2, <2>3 DEF CodeMissing
  <2> QED
    BY <2>2, <2>4 DEF CodeKept
<1> HIDE DEF DistinctTargets
<1>7. CalleesKept'
  <2>1. faPc' = "missing" => faPc \notin {"fd", "failed"}
    BY <1>1
  <2> QED
    BY <1>1, <2>1 DEF AnalysisInv, CalleesKept
<1>8. StringsKept'
  BY <1>1 DEF AnalysisInv, StringsKept
<1> QED
  BY <1>3, <1>4, <1>5, <1>6, <1>7, <1>8 DEF AnalysisInv

LEMMA InfoInv ==
  ASSUME AnalysisInv, Info
  PROVE  AnalysisInv'
<1>1. /\ faPc = "info" /\ plan' = plan /\ radare' = radare
      /\ asked' = Append(asked, [call |-> faPc, outcome |-> "ok"])
      /\ faPc' = "missing" \/ faPc' = After("info")
      /\ pdg' = pdg /\ todo' = todo /\ answer' = answer
  BY DEF Info, Answered
<1>2. faPc \in Waits(plan) \ {"callees", "strings", "fd", "psz"} /\ radare \in {"ready", "busy"}
  BY <1>1 DEF AnalysisInv, AnalysisShape
<1>3. "ok" \in Outcomes /\ "info" \notin Parts
  BY DEF Outcomes, Parts
<1>4. CASE faPc' = "missing"
  BY <1>1, <1>2, <1>3, <1>4, EndsThere
<1>5. CASE faPc' = After("info")
  <2>1. faPc' \in Leads(faPc)
    BY <1>1, <1>5 DEF Leads
  <2>2. CodeKept'
    BY <1>1, <1>2, <1>3, <2>1, CodeStays DEF AnalysisInv
  <2>3. answer' \in Answers /\ pdg' \in {Absent} \cup Texts
    BY <1>1 DEF AnalysisInv, AnalysisShape
  <2> QED
    BY <1>1, <1>2, <1>3, <2>1, <2>2, <2>3, PlainStep
<1> QED
  BY <1>1, <1>4, <1>5

LEMMA PluginsInv ==
  ASSUME AnalysisInv, Plugins
  PROVE  AnalysisInv'
<1>1. /\ faPc = "plugins" /\ plan' = plan /\ radare' = radare
      /\ asked' = Append(asked, [call |-> faPc, outcome |-> "ok"])
      /\ pdg' = pdg /\ todo' = todo /\ answer' = answer
  BY DEF Plugins, Answered
<1>2. /\ faPc \in Waits(plan) \ {"callees", "strings", "fd", "psz"} /\ radare \in {"ready", "busy"}
      /\ answer' \in Answers /\ pdg' \in {Absent} \cup Texts
  BY <1>1 DEF AnalysisInv, AnalysisShape
<1>3. "ok" \in Outcomes /\ "plugins" \notin Parts
  BY DEF Outcomes, Parts
<1>4. faPc' \in Leads(faPc)
  BY <1>1 DEF Leads, Plugins, AfterDecompile
<1>5. CodeKept'
  BY <1>1, <1>2, <1>3, <1>4, CodeStays DEF AnalysisInv
<1> QED
  BY <1>1, <1>2, <1>3, <1>4, <1>5, PlainStep

(* What EXCEPT leaves of an answer. *)
LEMMA CodeGiven ==
  ASSUME answer \in Answers, NEW x \in {Absent, "note"} \cup Texts,
         answer' = [answer EXCEPT !.code = x]
  PROVE  /\ answer' \in Answers /\ answer'.code = x /\ answer'.parts = answer.parts
         /\ answer'.callees = answer.callees /\ answer'.calleeRefs = answer.calleeRefs
         /\ answer'.strings = answer.strings /\ answer'.stringRefs = answer.stringRefs
  BY DEF Answers

LEMMA PdgInv ==
  ASSUME AnalysisInv, Pdg
  PROVE  AnalysisInv'
<1>1. /\ faPc = "pdg" /\ plan' = plan /\ radare' = radare
      /\ asked' = Append(asked, [call |-> faPc, outcome |-> "ok"]) /\ todo' = todo
  BY DEF Pdg, Answered
<1>2. PICK printed \in Texts :
        /\ pdg' = printed
        /\ IF Meaningful(printed) /\ printed # "Cannot"
           THEN faPc' = AfterDecompile /\ answer' = [answer EXCEPT !.code = printed]
           ELSE faPc' = "pdd" /\ UNCHANGED answer
  BY DEF Pdg
<1>3. /\ faPc \in Waits(plan) \ {"callees", "strings", "fd", "psz"} /\ radare \in {"ready", "busy"}
      /\ answer \in Answers /\ pdg' \in {Absent} \cup Texts
  BY <1>1, <1>2 DEF AnalysisInv, AnalysisShape
<1>4. "ok" \in Outcomes /\ "pdg" \notin Parts
  BY DEF Outcomes, Parts
<1>5. faPc' \in Leads(faPc)
  BY <1>1, <1>2 DEF Leads, AfterDecompile
<1>6. Forward(faPc, faPc')
  BY <1>3, <1>5, LeadsForward DEF AnalysisInv, AnalysisShape
<1>7. /\ answer' \in Answers /\ answer'.parts = answer.parts
      /\ answer'.callees = answer.callees /\ answer'.calleeRefs = answer.calleeRefs
      /\ answer'.strings = answer.strings /\ answer'.stringRefs = answer.stringRefs
      /\ printed = "code" => answer'.code = "code" /\ faPc' # "pdd" 
      /\ printed # "code" => answer'.code = Absent /\ faPc' = "pdd"
  <2>1. answer.code = Absent
    BY <1>1 DEF AnalysisInv, CodeKept
  <2>2. CASE printed = "code"
    <3>1. answer' = [answer EXCEPT !.code = printed] /\ faPc' = AfterDecompile
      BY <1>2, <2>2 DEF Meaningful
    <3>2. AfterDecompile # "pdd"
      <4>1. After("pdd") = "meta"
        BY <1>1, <1>3, AfterInAnalyze, AfterWithAssembly
           DEF AnalysisInv, AnalysisShape, AnalysisPlans, Waits
      <4> QED
        BY <4>1 DEF AfterDecompile
    <3> QED
      BY <1>3, <2>2, <3>1, <3>2, CodeGiven
  <2>3. CASE printed # "code"
    BY <1>2, <1>3, <2>1, <2>3 DEF Meaningful
  <2> QED
    BY <2>2, <2>3
<1>8. CodeKept'
  <2>1. faPc' \notin {"idle", "info", "plugins", "pdg"}
    <3>1. faPc' \in {"pdd", "meta"}
      BY <1>1, <1>2, <1>3, AfterInAnalyze, AfterWithAssembly
         DEF AnalysisInv, AnalysisShape, AnalysisPlans, Waits, AfterDecompile
    <3> QED
      BY <3>1
  <2>2. CodeIsMeaningful'
    <3>1. Absent \notin {"note", "code", "Cannot"}
      BY AnalysisAssumption
    <3>2. pdg' = "code" => answer'.code = "code"
      BY <1>2, <1>7
    <3>3. answer'.code \in {Absent, "code"}
      BY <1>7
    <3> QED
      BY <3>1, <3>2, <3>3 DEF CodeIsMeaningful
  <2>3. faPc' # "pdd" => answer'.code = "code" /\ answer'.code # Absent
    BY <1>7, AnalysisAssumption
  <2> QED
    BY <1>2, <1>7, <2>1, <2>2, <2>3 DEF CodeKept
<1> QED
  BY <1>1, <1>3, <1>4, <1>5, <1>7, <1>8, PlainStep

LEMMA PddInv ==
  ASSUME AnalysisInv, Pdd
  PROVE  AnalysisInv'
<1>1. /\ faPc = "pdd" /\ plan' = plan /\ radare' = radare /\ pdg' = pdg
      /\ asked' = Append(asked, [call |-> faPc, outcome |-> "ok"]) /\ todo' = todo
      /\ faPc' = After("pdd")
  BY DEF Pdd, Answered, AfterDecompile
<1>2. PICK printed \in Texts :
        answer' = [answer EXCEPT !.code = IF Meaningful(printed) THEN printed ELSE "note"]
  BY DEF Pdd
<1>3. /\ faPc \in Waits(plan) \ {"callees", "strings", "fd", "psz"} /\ radare \in {"ready", "busy"}
      /\ answer \in Answers /\ pdg \in {Absent} \cup Texts
  BY <1>1 DEF AnalysisInv, AnalysisShape
<1>4. "ok" \in Outcomes /\ "pdd" \notin Parts
  BY DEF Outcomes, Parts
<1>5. faPc' \in Leads(faPc)
  BY <1>1 DEF Leads
<1>6. faPc' = "meta"
  BY <1>1, <1>3, AfterInAnalyze, AfterWithAssembly
     DEF AnalysisInv, AnalysisShape, AnalysisPlans, Waits
<1> DEFINE x == IF Meaningful(printed) THEN printed ELSE "note"
<1>7. x \in {Absent, "note"} \cup Texts /\ x \in {"note", "code", "Cannot"} /\ x # Absent
  BY AnalysisAssumption DEF Meaningful
<1>8. answer' = [answer EXCEPT !.code = x]
  BY <1>2
<1> HIDE DEF x
<1>9. /\ answer' \in Answers /\ answer'.code = x /\ answer'.parts = answer.parts
      /\ answer'.callees = answer.callees /\ answer'.calleeRefs = answer.calleeRefs
      /\ answer'.strings = answer.strings /\ answer'.stringRefs = answer.stringRefs
  BY <1>3, <1>7, <1>8, CodeGiven
<1>10. pdg # "code"
  BY <1>1 DEF AnalysisInv, CodeKept
<1>11. CodeKept'
  <2>1. AskedFor("pdd")'
    BY <1>1, <1>3, <1>4, AskedMore, WaitsAreNames DEF AnalysisInv, AnalysisShape
  <2>2. CodeIsMeaningful'
    BY <1>1, <1>7, <1>9, <1>10, <2>1 DEF CodeIsMeaningful
  <2> QED
    BY <1>6, <1>7, <1>9, <2>2 DEF CodeKept
<1> QED
  BY <1>1, <1>3, <1>4, <1>5, <1>9, <1>11, PlainStep

LEMMA PartInv ==
  ASSUME AnalysisInv, Part
  PROVE  AnalysisInv'
<1>1. /\ faPc \in Parts /\ plan' = plan /\ radare' = radare /\ pdg' = pdg
      /\ asked' = Append(asked, [call |-> faPc, outcome |-> "ok"]) /\ todo' = todo
      /\ answer' = [answer EXCEPT !.parts = answer.parts \cup {faPc}]
      /\ faPc' = After(faPc)
  BY DEF Part, Answered, Parts
<1>2. /\ faPc \in Waits(plan) \ {"callees", "strings", "fd", "psz"} /\ radare \in {"ready", "busy"}
      /\ answer \in Answers /\ pdg \in {Absent} \cup Texts
  BY <1>1 DEF AnalysisInv, AnalysisShape, Parts
<1>3. /\ answer' \in Answers /\ answer'.parts = answer.parts \cup {faPc}
      /\ answer'.code = answer.code
      /\ answer'.callees = answer.callees /\ answer'.calleeRefs = answer.calleeRefs
      /\ answer'.strings = answer.strings /\ answer'.stringRefs = answer.stringRefs
  BY <1>1, <1>2 DEF Answers
<1>4. "ok" \in Outcomes /\ faPc \notin {"pdg", "pdd"}
  BY <1>1 DEF Outcomes, Parts
<1>5. faPc' \in Leads(faPc)
  BY <1>1 DEF Leads, Parts
<1>6. CodeKept'
  BY <1>1, <1>2, <1>3, <1>4, <1>5, CodeStays DEF AnalysisInv
<1> QED
  BY <1>1, <1>2, <1>3, <1>4, <1>5, <1>6, PlainStep

LEMMA CallersInv ==
  ASSUME AnalysisInv, Callers
  PROVE  AnalysisInv'
<1>1. /\ faPc = "callers" /\ plan' = plan /\ radare' = radare /\ pdg' = pdg
      /\ asked' = Append(asked, [call |-> faPc, outcome |-> "ok"]) /\ todo' = todo
      /\ faPc' = After(faPc)
  BY DEF Callers, Answered
<1>2. PICK n \in Neighbours : answer' = [answer EXCEPT !.callers = TrimNeighbours(n)]
  BY DEF Callers
<1>3. /\ faPc \in Waits(plan) \ {"callees", "strings", "fd", "psz"} /\ radare \in {"ready", "busy"}
      /\ answer \in Answers /\ pdg \in {Absent} \cup Texts
  BY <1>1 DEF AnalysisInv, AnalysisShape
<1>4. /\ answer' \in Answers /\ answer'.parts = answer.parts
      /\ answer'.code = answer.code
      /\ answer'.callees = answer.callees /\ answer'.calleeRefs = answer.calleeRefs
      /\ answer'.strings = answer.strings /\ answer'.stringRefs = answer.stringRefs
  <2> DEFINE t == TrimNeighbours(n)
             T == {TrimNeighbours(m) : m \in Neighbours}
  <2>1. t \in T /\ answer' = [answer EXCEPT !.callers = t]
    BY <1>2
  <2>2. Answers = [code : {Absent, "note"} \cup Texts, parts : SUBSET Parts,
                   callers : {Absent} \cup T,
                   calleeRefs : Seq(Refs), stringRefs : Seq(Refs),
                   callees : Seq(Named), strings : Seq(Named)]
    BY DEF Answers
  <2> HIDE DEF t, T
  <2> QED
    BY <1>3, <2>1, <2>2
<1>5. "ok" \in Outcomes /\ "callers" \notin Parts
  BY DEF Outcomes, Parts
<1>6. faPc' \in Leads(faPc)
  BY <1>1 DEF Leads
<1>7. CodeKept'
  BY <1>1, <1>3, <1>4, <1>5, <1>6, CodeStays DEF AnalysisInv
<1> QED
  BY <1>1, <1>3, <1>4, <1>5, <1>6, <1>7, PlainStep

LEMMA CalleeInfoInv ==
  ASSUME AnalysisInv, CalleeInfo
  PROVE  AnalysisInv'
<1>1. /\ faPc = "callee_info" /\ plan' = plan /\ radare' = radare
      /\ asked' = Append(asked, [call |-> faPc, outcome |-> "ok"])
      /\ pdg' = pdg /\ todo' = todo /\ answer' = answer
  BY DEF CalleeInfo, Answered
<1>2. /\ faPc \in Waits(plan) \ {"callees", "strings", "fd", "psz"} /\ radare \in {"ready", "busy"}
      /\ answer' \in Answers /\ pdg' \in {Absent} \cup Texts
  BY <1>1 DEF AnalysisInv, AnalysisShape
<1>3. "ok" \in Outcomes /\ "callee_info" \notin Parts
  BY DEF Outcomes, Parts
<1>4. faPc' \in Leads(faPc)
  BY <1>1 DEF Leads, CalleeInfo
<1>5. CodeKept'
  BY <1>1, <1>2, <1>3, <1>4, CodeStays DEF AnalysisInv
<1> QED
  BY <1>1, <1>2, <1>3, <1>4, <1>5, PlainStep

(* A failing call that an analysis can do without. *)
LEMMA CallFailsInv ==
  ASSUME AnalysisInv, CallFailsOrTimesOut
  PROVE  AnalysisInv'
<1>1. /\ faPc \in Waits(plan) /\ plan' = plan /\ UNCHANGED <<pdg, todo, answer>>
      /\ radare \in {"ready", "busy"} /\ answer' \in Answers /\ pdg' \in {Absent} \cup Texts
  BY DEF CallFailsOrTimesOut, Waiting, AnalysisInv, AnalysisShape
<1>2. PICK o \in {"error", "timeout"} :
        /\ asked' = Append(asked, [call |-> faPc, outcome |-> o])
        /\ radare' = IF o = "timeout" THEN "busy" ELSE radare
  BY DEF CallFailsOrTimesOut
<1>3. o \in Outcomes /\ o # "ok" /\ radare' \in {"ready", "busy"}
  BY <1>1, <1>2 DEF Outcomes
<1>4. CASE faPc \notin Optional
  <2>1. faPc' = "failed"
    BY <1>4 DEF CallFailsOrTimesOut, MayFail
  <2> QED
    BY <1>1, <1>2, <1>3, <1>4, <2>1, EndsThere
<1>5. CASE faPc \in Optional
  <2>1. faPc' = IF faPc \in {"plugins", "pdg", "pdd"} THEN After("pdd") ELSE After(faPc)
    BY <1>5 DEF CallFailsOrTimesOut, MayFail, AfterDecompile
  <2>2. faPc' \in Leads(faPc) /\ faPc \notin {"callees", "strings", "fd", "psz"}
    BY <1>5, <2>1 DEF Leads, Optional
  <2>3. CodeKept'
    <3>1. CASE faPc \notin {"pdg", "pdd"}
      BY <1>1, <1>2, <1>3, <2>2, <3>1, CodeStays DEF AnalysisInv
    <3>2. CASE faPc \in {"pdg", "pdd"}
      <4>1. faPc' = "meta"
        BY <1>1, <2>1, <3>2, AfterInAnalyze, AfterWithAssembly
           DEF AnalysisInv, AnalysisShape, AnalysisPlans, Waits
      <4>2. \A c : FailedCall(c)' <=> (FailedCall(c) \/ (c = faPc /\ o # "ok"))
        BY <1>1, <1>2, <1>3, WaitsAreNames, AskedMore DEF AnalysisInv, AnalysisShape
      <4>3. CodeMissing'
        BY <1>3, <3>2, <4>2 DEF CodeMissing
      <4>4. CodeIsMeaningful'
        <5>1. CodeIsMeaningful
          BY DEF AnalysisInv, CodeKept
        <5>2. AskedFor("pdd") => AskedFor("pdd")'
          BY <1>1, <1>2, <1>3, WaitsAreNames, AskedMore DEF AnalysisInv, AnalysisShape
        <5> QED
          BY <1>1, <5>1, <5>2 DEF CodeIsMeaningful
      <4> QED
        BY <4>1, <4>3, <4>4 DEF CodeKept
    <3> QED
      BY <3>1, <3>2
  <2> QED
    BY <1>1, <1>2, <1>3, <1>5, <2>2, <2>3, PlainStep
<1> QED
  BY <1>4, <1>5

LEMMA AnalysisStaysInv ==
  ASSUME AnalysisInv, UNCHANGED <<faPc, plan, asked, pdg, todo, answer>>,
         radare' \in {"ready", "busy"}
  PROVE  AnalysisInv'
<1>1. AnalysisShape'
  BY DEF AnalysisInv, AnalysisShape
<1>2. OnlyOptionalFail' /\ PartsKept'
  BY DEF AnalysisInv, OnlyOptionalFail, PartsKept, AskedFor, FailedCall
<1>3. CodeKept'
  BY DEF AnalysisInv, CodeKept, CodeIsMeaningful, CodeMissing, AskedFor, FailedCall
<1> HIDE DEF DistinctTargets
<1>4. CalleesKept'
  BY DEF AnalysisInv, CalleesKept
<1>5. StringsKept'
  BY DEF AnalysisInv, StringsKept
<1> QED
  BY <1>1, <1>2, <1>3, <1>4, <1>5 DEF AnalysisInv

(* An answered call of a list that is read item by item. *)
LEMMA ListStep ==
  ASSUME AnalysisInv, plan' = plan, radare' = radare,
         faPc \in {"callees", "strings", "fd", "psz"}, faPc' \in Leads(faPc),
         asked' = Append(asked, [call |-> faPc, outcome |-> "ok"]),
         pdg' = pdg, todo' \in Seq(Nat), answer' \in Answers,
         answer'.parts = answer.parts, answer'.code = answer.code,
         CalleesKept', StringsKept'
  PROVE  AnalysisInv'
<1>1. faPc \in Waits(plan) /\ faPc \notin Parts \cup {"pdg", "pdd"} /\ "ok" \in Outcomes
  BY DEF AnalysisInv, AnalysisShape, Outcomes, Parts
<1>2. Forward(faPc, faPc') /\ faPc \in AllCalls
  BY <1>1, LeadsForward, WaitsAreNames DEF AnalysisInv, AnalysisShape
<1>3. asked' \in Seq([call : AllCalls, outcome : {"ok", "error", "timeout"}])
  BY <1>1, <1>2, AskedMore DEF AnalysisInv
<1>4. AnalysisShape'
  BY <1>2, <1>3 DEF AnalysisInv, AnalysisShape, Forward
<1>5. OnlyOptionalFail' /\ PartsKept'
  BY <1>1, GoesOn DEF AnalysisInv
<1>6. CodeKept'
  BY <1>1, CodeStays DEF AnalysisInv
<1> QED
  BY <1>4, <1>5, <1>6 DEF AnalysisInv

(* The rest of a list when its first item is done. *)
LEMMA RestOfList ==
  ASSUME NEW s \in Seq(Nat), Len(s) # 0
  PROVE  /\ Head(s) \in Nat /\ Head(s) = s[1]
         /\ Tail(s) \in Seq(Nat) /\ Len(Tail(s)) = Len(s) - 1 /\ Len(s) \in Nat
         /\ \A k \in 1 .. Len(s) - 1 : Tail(s)[k] = s[k + 1]
<1>1. s # <<>> /\ Len(s) \in Nat
  BY EmptySeq, LenProperties
<1>2. /\ Head(s) \in Nat /\ Tail(s) \in Seq(Nat) /\ Len(Tail(s)) = Len(s) - 1
      /\ \A k \in 1 .. Len(Tail(s)) : Tail(s)[k] = s[k + 1]
  BY <1>1, HeadTailProperties
<1>3. Head(s) = s[1]
  BY <1>1
<1> QED
  BY <1>1, <1>2, <1>3

LEMMA AfterLists ==
  ASSUME plan \in AnalysisPlans
  PROVE  After("callees") # "fd" /\ After("strings") # "psz"
  BY AfterInProfile, AfterInAnalyze, AfterWithAssembly DEF AnalysisPlans

LEMMA CalleesInv ==
  ASSUME AnalysisInv, Callees
  PROVE  AnalysisInv'
<1> HIDE DEF DistinctTargets
<1>1. /\ faPc = "callees" /\ plan' = plan /\ radare' = radare /\ pdg' = pdg
      /\ asked' = Append(asked, [call |-> faPc, outcome |-> "ok"])
  BY DEF Callees, Answered
<1>2. PICK refs \in RefLists :
        LET ts == DistinctTargets(refs, {"CALL"})
        IN  /\ todo' = ts
            /\ answer' = [answer EXCEPT !.calleeRefs = refs]
            /\ faPc' = IF ts = <<>> THEN After("callees") ELSE "fd"
  BY DEF Callees
<1> DEFINE D == DistinctTargets(refs, {"CALL"})
<1>3. refs \in Seq(Refs)
  BY AnalysisAssumption DEF Refs
<1>4. D \in Seq(Nat)
  BY <1>3, DistinctTargetsAre DEF TargetsNamed
<1>5. /\ faPc \in Waits(plan) /\ answer \in Answers
      /\ faPc \in Waits(plan) \ Past(plan, "callees")
  <2>1. "callees" \notin Past(plan, "callees")
    BY DEF Past
  <2> QED
    BY <1>1, <2>1 DEF AnalysisInv, AnalysisShape
<1>6. /\ answer' \in Answers /\ answer'.parts = answer.parts
      /\ answer'.code = answer.code /\ answer'.calleeRefs = refs
      /\ answer'.callees = answer.callees
      /\ answer'.strings = answer.strings /\ answer'.stringRefs = answer.stringRefs
  BY <1>2, <1>3, <1>5 DEF Answers
<1>7. faPc' \in Leads(faPc) /\ faPc' # "psz"
  <2>1. faPc' \in Leads(faPc)
    BY <1>1, <1>2 DEF Leads
  <2> QED
    BY <1>1, <1>5, <2>1, LeadsForward DEF AnalysisInv, AnalysisShape, Forward
<1>8. Len(answer.callees) = 0
  BY <1>5 DEF AnalysisInv, CalleesKept
<1>9. CalleesKept'
  <2>1. Len(D) \in Nat /\ (D = <<>> <=> Len(D) = 0)
    BY <1>4, LenProperties, EmptySeq
  <2>2. /\ faPc' = "fd" => todo' = D /\ Len(D) # 0
        /\ faPc' \notin {"fd", "failed"} => Len(D) = 0
    BY <1>2, <2>1, AfterLists DEF AnalysisInv, AnalysisShape
  <2>3. (\A k \in 1 .. 0 : FALSE) /\ \A k \in 1 .. Len(D) : 0 + k = k
    OBVIOUS
  <2> HIDE DEF D
  <2>4. DistinctTargets(answer'.calleeRefs, {"CALL"}) = D
    BY <1>6 DEF D
  <2> QED
    BY <1>6, <1>8, <2>1, <2>2, <2>3, <2>4 DEF CalleesKept
<1>10. StringsKept'
  BY <1>1, <1>5, <1>6, <1>7, StringsStay DEF AnalysisInv
<1>11. todo' \in Seq(Nat)
  BY <1>2, <1>4
<1> QED
  BY <1>1, <1>6, <1>7, <1>9, <1>10, <1>11, ListStep

LEMMA StringsInv ==
  ASSUME AnalysisInv, Strings
  PROVE  AnalysisInv'
<1> HIDE DEF DistinctTargets
<1>1. /\ faPc = "strings" /\ plan' = plan /\ radare' = radare /\ pdg' = pdg
      /\ asked' = Append(asked, [call |-> faPc, outcome |-> "ok"])
  BY DEF Strings, Answered
<1>2. PICK refs \in RefLists :
        LET ts == DistinctTargets(refs, {"DATA", "STRING"})
        IN  /\ todo' = ts
            /\ answer' = [answer EXCEPT !.stringRefs = refs]
            /\ faPc' = IF ts = <<>> THEN After("strings") ELSE "psz"
  BY DEF Strings
<1> DEFINE D == DistinctTargets(refs, {"DATA", "STRING"})
<1>3. refs \in Seq(Refs)
  BY AnalysisAssumption DEF Refs
<1>4. D \in Seq(Nat)
  BY <1>3, DistinctTargetsAre DEF TargetsNamed
<1>5. /\ faPc \in Waits(plan) /\ answer \in Answers
      /\ faPc \in Waits(plan) \ Past(plan, "strings")
  <2>1. "strings" \notin Past(plan, "strings")
    BY DEF Past, LastCalls
  <2> QED
    BY <1>1, <2>1 DEF AnalysisInv, AnalysisShape
<1>6. /\ answer' \in Answers /\ answer'.parts = answer.parts
      /\ answer'.code = answer.code /\ answer'.calleeRefs = answer.calleeRefs
      /\ answer'.callees = answer.callees
      /\ answer'.strings = answer.strings /\ answer'.stringRefs = refs
  BY <1>2, <1>3, <1>5 DEF Answers
<1>7. faPc' \in Leads(faPc) /\ faPc' # "fd"
  <2>1. faPc' \in Leads(faPc)
    BY <1>1, <1>2 DEF Leads
  <2> QED
    BY <1>1, <1>5, <2>1, LeadsForward DEF AnalysisInv, AnalysisShape, Forward
<1>8. Len(answer.strings) = 0
  BY <1>5 DEF AnalysisInv, StringsKept
<1>9. StringsKept'
  <2>1. Len(D) \in Nat /\ (D = <<>> <=> Len(D) = 0)
    BY <1>4, LenProperties, EmptySeq
  <2>2. faPc' = "psz" => todo' = D /\ Len(D) # 0
    BY <1>2, <2>1, AfterLists DEF AnalysisInv, AnalysisShape
  <2>3. (\A k \in 1 .. 0 : FALSE) /\ Len(D) <= Len(D)
        /\ \A k \in 1 .. Len(D) : Len(D) - Len(D) + k = k
    BY <2>1
  <2> HIDE DEF D
  <2>4. DistinctTargets(answer'.stringRefs, {"DATA", "STRING"}) = D
    BY <1>6 DEF D
  <2> QED
    BY <1>6, <1>8, <2>1, <2>2, <2>3, <2>4 DEF StringsKept
<1>10. CalleesKept'
  BY <1>1, <1>5, <1>6, <1>7, CalleesStay DEF AnalysisInv
<1>11. todo' \in Seq(Nat)
  BY <1>2, <1>4
<1> QED
  BY <1>1, <1>6, <1>7, <1>9, <1>10, <1>11, ListStep

LEMMA NameCalleeInv ==
  ASSUME AnalysisInv, NameCallee
  PROVE  AnalysisInv'
<1> HIDE DEF DistinctTargets
<1>1. /\ faPc = "fd" /\ plan' = plan /\ radare' = radare /\ pdg' = pdg
      /\ asked' = Append(asked, [call |-> faPc, outcome |-> "ok"])
      /\ todo' = Tail(todo) /\ faPc' = IF Len(todo) = 1 THEN After("callees") ELSE "fd"
  BY DEF NameCallee, Answered
<1>2. PICK name \in NameAnswers :
        answer' = [answer EXCEPT !.callees
                     = Append(answer.callees, [target |-> Head(todo), name |-> name])]
  BY DEF NameCallee
<1>3. faPc \in Waits(plan) /\ answer \in Answers /\ todo \in Seq(Nat)
  BY <1>1 DEF AnalysisInv, AnalysisShape
<1> DEFINE D == DistinctTargets(answer.calleeRefs, {"CALL"})
           s == answer.callees
           n == Len(s)
           e == [target |-> Head(todo), name |-> name]
           t == Append(s, e)
<1>4. /\ n <= Len(D) /\ Len(todo) # 0 /\ Len(D) = n + Len(todo)
      /\ \A k \in 1 .. n : s[k].target = D[k]
      /\ \A k \in 1 .. Len(todo) : todo[k] = D[n + k]
  BY <1>1 DEF AnalysisInv, CalleesKept
<1>5. /\ Head(todo) \in Nat /\ Head(todo) = todo[1]
      /\ Tail(todo) \in Seq(Nat) /\ Len(Tail(todo)) = Len(todo) - 1 /\ Len(todo) \in Nat
      /\ \A k \in 1 .. Len(todo) - 1 : Tail(todo)[k] = todo[k + 1]
  BY <1>3, <1>4, RestOfList
<1>6. s \in Seq(Named) /\ e \in Named /\ e.target = Head(todo)
  BY <1>3, <1>5 DEF Answers, Named
<1> HIDE DEF e
<1>7. /\ t \in Seq(Named) /\ Len(t) = n + 1 /\ n \in Nat /\ t[n + 1] = e
      /\ \A k \in 1 .. n : t[k] = s[k]
  BY <1>6, AppendProperties, LenProperties
<1>8. /\ answer' \in Answers /\ answer'.parts = answer.parts
      /\ answer'.code = answer.code /\ answer'.calleeRefs = answer.calleeRefs
      /\ answer'.callees = t
      /\ answer'.strings = answer.strings /\ answer'.stringRefs = answer.stringRefs
  <2>1. answer' = [answer EXCEPT !.callees = t]
    BY <1>2 DEF e
  <2> HIDE DEF t, s
  <2> QED
    BY <1>3, <1>7, <2>1 DEF Answers
<1> HIDE DEF t, s
<1>9. /\ faPc' \in Leads(faPc) /\ faPc' # "psz"
      /\ faPc' \notin {"idle"} \cup (Waits(plan) \ Past(plan, "callees"))
  <2>1. faPc' \in Leads(faPc)
    BY <1>1 DEF Leads
  <2>2. Forward(faPc, faPc')
    BY <1>3, <2>1, LeadsForward DEF AnalysisInv, AnalysisShape
  <2>3. faPc \in Past(plan, "callees") /\ "done" \notin Waits(plan) /\ "idle" \notin Waits(plan)
    BY <1>1, WaitsAreNames DEF Past, AnalysisInv, AnalysisShape
  <2> QED
    BY <1>1, <2>1, <2>2, <2>3 DEF Forward
<1>10. CalleesKept'
  <2> HIDE DEF D, n
  <2>1. /\ Len(t) <= Len(D)
        /\ \A k \in 1 .. Len(t) : t[k].target = D[k]
        /\ Len(todo) = 1 => Len(t) = Len(D)
        /\ Len(todo) # 1 => Len(todo') # 0 
        /\ Len(D) = Len(t) + Len(todo')
        /\ \A k \in 1 .. Len(todo') : todo'[k] = D[Len(t) + k]
    <3>1. 1 \in 1 .. Len(todo) /\ todo[1] = D[n + 1]
      BY <1>4, <1>5
    <3>2. \A k \in 1 .. n + 1 : k \in 1 .. n \/ k = n + 1
      BY <1>7
    <3>3. \A k \in 1 .. Len(t) : t[k].target = D[k]
      BY <1>4, <1>5, <1>6, <1>7, <3>1, <3>2
    <3>4. todo' = Tail(todo)
      BY <1>1
    <3>5. \A k \in 1 .. Len(Tail(todo)) : Tail(todo)[k] = D[Len(t) + k]
      <4> TAKE k \in 1 .. Len(Tail(todo))
      <4>1. k + 1 \in 1 .. Len(todo) /\ k \in 1 .. Len(todo) - 1 /\ n + (k + 1) = Len(t) + k
        BY <1>5, <1>7
      <4> QED
        BY <1>4, <1>5, <4>1
    <3>7. Len(D) = n + Len(todo) /\ n \in Nat /\ Len(todo) \in Nat /\ Len(todo) # 0
          /\ Len(t) = n + 1 /\ Len(Tail(todo)) = Len(todo) - 1
      BY <1>4, <1>5, <1>7
    <3> DEFINE a == Len(t)  b == Len(D)  c == Len(todo)  d == Len(Tail(todo))
    <3>8. b = n + c /\ n \in Nat /\ c \in Nat /\ c # 0 /\ a = n + 1 /\ d = c - 1
      BY <3>7
    <3> HIDE DEF a, b, c, d
    <3>9. a <= b /\ (c = 1 => a = b) /\ (c # 1 => d # 0) /\ b = a + d
      BY <3>8
    <3>6. /\ Len(t) <= Len(D) /\ (Len(todo) = 1 => Len(t) = Len(D))
          /\ (Len(todo) # 1 => Len(Tail(todo)) # 0) /\ Len(D) = Len(t) + Len(Tail(todo))
      BY <3>9 DEF a, b, c, d
    <3> QED
      BY <3>3, <3>4, <3>5, <3>6
  <2>2. DistinctTargets(answer'.calleeRefs, {"CALL"}) = D
    BY <1>8 DEF D
  <2>3. /\ faPc' = "fd" => Len(todo) # 1 \/ After("callees") = "fd"
        /\ faPc' # "fd" => Len(todo) = 1
    BY <1>1
  <2>4. After("callees") # "fd"
    BY AfterLists DEF AnalysisInv, AnalysisShape
  <2>5. CASE faPc' = "fd"
    <3>1. /\ Len(t) <= Len(D) /\ Len(todo') # 0 /\ Len(D) = Len(t) + Len(todo')
          /\ \A k \in 1 .. Len(t) : t[k].target = D[k]
          /\ \A k \in 1 .. Len(todo') : todo'[k] = D[Len(t) + k]
      BY <2>1, <2>3, <2>4, <2>5
    <3>2. faPc' \notin {"idle"} \cup (Waits(plan') \ Past(plan', "callees"))
      BY <1>1, <1>9
    <3> QED
      BY <1>8, <2>2, <2>5, <3>1, <3>2 DEF CalleesKept
  <2>6. CASE faPc' # "fd"
    <3>1. Len(t) = Len(D) /\ faPc' \notin {"idle"} \cup (Waits(plan) \ Past(plan, "callees"))
      BY <1>9, <2>1, <2>3, <2>6
    <3> QED
      BY <1>1, <1>8, <2>1, <2>2, <2>6, <3>1 DEF CalleesKept
  <2> QED
    BY <2>5, <2>6
<1>11. StringsKept'
  BY <1>1, <1>3, <1>8, <1>9, StringsStay DEF AnalysisInv
<1>12. todo' \in Seq(Nat)
  BY <1>1, <1>5
<1> QED
  BY <1>1, <1>8, <1>9, <1>10, <1>11, <1>12, ListStep

LEMMA ReadStringInv ==
  ASSUME AnalysisInv, ReadString
  PROVE  AnalysisInv'
<1> HIDE DEF DistinctTargets
<1>1. /\ faPc = "psz" /\ plan' = plan /\ radare' = radare /\ pdg' = pdg
      /\ asked' = Append(asked, [call |-> faPc, outcome |-> "ok"])
      /\ todo' = Tail(todo) /\ faPc' = IF Len(todo) = 1 THEN After("strings") ELSE "psz"
  BY DEF ReadString, Answered
<1>2. PICK name \in NameAnswers :
        answer' = [answer EXCEPT !.strings =
                     IF name = "none" THEN answer.strings
                     ELSE Append(answer.strings, [target |-> Head(todo), name |-> name])]
  BY DEF ReadString
<1>3. faPc \in Waits(plan) /\ answer \in Answers /\ todo \in Seq(Nat)
  BY <1>1 DEF AnalysisInv, AnalysisShape
<1> DEFINE D == DistinctTargets(answer.stringRefs, {"DATA", "STRING"})
           s == answer.strings
           n == Len(s)
           e == [target |-> Head(todo), name |-> name]
           t == IF name = "none" THEN s ELSE Append(s, e)
           c == Len(todo)
           d == Len(D)
<1>4. /\ c # 0 /\ c <= d
      /\ \A j, k \in 1 .. n : s[j].target = s[k].target => j = k
      /\ \A k \in 1 .. n : s[k].name # "none"
      /\ \A k \in 1 .. c : todo[k] = D[d - c + k]
      /\ \A k \in 1 .. n : \E j \in 1 .. d - c : s[k].target = D[j]
  BY <1>1 DEF AnalysisInv, StringsKept
<1>5. /\ Head(todo) \in Nat /\ Head(todo) = todo[1]
      /\ Tail(todo) \in Seq(Nat) /\ Len(Tail(todo)) = c - 1 /\ c \in Nat
      /\ \A k \in 1 .. c - 1 : Tail(todo)[k] = todo[k + 1]
  BY <1>3, <1>4, RestOfList
<1>6. s \in Seq(Named) /\ e \in Named /\ e.target = Head(todo) /\ e.name = name
  BY <1>3, <1>5 DEF Answers, Named
<1>7. d \in Nat /\ \A j, k \in 1 .. d : D[j] = D[k] => j = k
  <2>1. answer.stringRefs \in Seq(Refs)
    BY <1>3 DEF Answers
  <2>2. TargetsNamed(D, answer.stringRefs, {"DATA", "STRING"}, Len(answer.stringRefs))
    BY <2>1, DistinctTargetsAre
  <2> HIDE DEF D
  <2> QED
    BY <2>2, LenProperties DEF TargetsNamed
<1> HIDE DEF e, D
<1>8. /\ t \in Seq(Named) /\ Len(t) \in Nat /\ n \in Nat
      /\ \A k \in 1 .. n : t[k] = s[k]
      /\ Len(t) = n \/ (Len(t) = n + 1 /\ t[n + 1] = e /\ name # "none")
  BY <1>6, AppendProperties, LenProperties
<1>9. /\ answer' \in Answers /\ answer'.parts = answer.parts
      /\ answer'.code = answer.code /\ answer'.calleeRefs = answer.calleeRefs
      /\ answer'.callees = answer.callees
      /\ answer'.strings = t /\ answer'.stringRefs = answer.stringRefs
  <2>1. answer' = [answer EXCEPT !.strings = t]
    BY <1>2 DEF e
  <2> HIDE DEF t, s
  <2> QED
    BY <1>3, <1>8, <2>1 DEF Answers
<1> HIDE DEF t, s, n, c, d
<1>10. /\ faPc' \in Leads(faPc) /\ faPc' # "fd"
       /\ faPc' \notin {"idle"} \cup (Waits(plan') \ Past(plan', "strings"))
       /\ faPc' = "psz" => c # 1
  <2>1. faPc' \in Leads(faPc)
    BY <1>1 DEF Leads
  <2>2. Forward(faPc, faPc')
    BY <1>3, <2>1, LeadsForward DEF AnalysisInv, AnalysisShape
  <2>3. faPc \in Past(plan, "strings") /\ "done" \notin Waits(plan) /\ "idle" \notin Waits(plan)
    BY <1>1, WaitsAreNames DEF Past, AnalysisInv, AnalysisShape
  <2>4. faPc' = "psz" => c # 1
    BY <1>1, AfterLists DEF AnalysisInv, AnalysisShape, c
  <2> QED
    BY <1>1, <2>1, <2>2, <2>3, <2>4 DEF Forward
<1>11. StringsKept'
  <2> DEFINE m == d - c
  <2>1. /\ m \in Nat /\ m + 1 \in 1 .. d /\ m + 1 = d - (c - 1) /\ 1 \in 1 .. c
        /\ m + 1 \in 1 .. m + 1 /\ m + 1 = d - c + 1
        /\ \A j \in 1 .. m : j \in 1 .. d /\ j \in 1 .. m + 1 /\ j # m + 1
        /\ \A k \in 1 .. c - 1 : k + 1 \in 1 .. c /\ d - c + (k + 1) = d - (c - 1) + k
        /\ c # 1 => c - 1 # 0
        /\ c - 1 <= d
    <3>1. c \in Nat /\ d \in Nat /\ c # 0 /\ c <= d
      BY <1>4, <1>5, <1>7
    <3>2. m \in Nat /\ m + 1 \in 1 .. d /\ m + 1 = d - (c - 1) /\ 1 \in 1 .. c
      BY <3>1
    <3>3. m + 1 \in 1 .. m + 1 /\ m + 1 = d - c + 1 /\ (c # 1 => c - 1 # 0) /\ c - 1 <= d
      BY <3>1
    <3>4. \A j \in 1 .. m : j \in 1 .. d /\ j \in 1 .. m + 1 /\ j # m + 1
      BY <3>1
    <3>5. \A k \in 1 .. c - 1 : k + 1 \in 1 .. c /\ d - c + (k + 1) = d - (c - 1) + k
      BY <3>1
    <3> QED
      BY <3>2, <3>3, <3>4, <3>5
  <2>2. e.target = D[m + 1]
    BY <1>4, <1>5, <1>6, <2>1
  <2>3. \A k \in 1 .. n : s[k].target # e.target
    <3> TAKE k \in 1 .. n
    <3>1. PICK j \in 1 .. m : s[k].target = D[j]
      BY <1>4
    <3> QED
      BY <1>7, <2>1, <2>2, <3>1
  <2>4. \A k \in 1 .. Len(t) : k \in 1 .. n \/ (k = n + 1 /\ t[k] = e /\ name # "none")
    BY <1>8
  <2>5. \A j, k \in 1 .. Len(t) : t[j].target = t[k].target => j = k
    BY <1>4, <1>8, <2>3, <2>4
  <2>6. \A k \in 1 .. Len(t) : t[k].name # "none"
    BY <1>4, <1>6, <1>8, <2>4
  <2>7. \A k \in 1 .. Len(t) : \E j \in 1 .. m + 1 : t[k].target = D[j]
    <3> TAKE k \in 1 .. Len(t)
    <3>1. CASE k \in 1 .. n
      <4>1. PICK j \in 1 .. m : s[k].target = D[j]
        BY <1>4, <3>1
      <4> QED
        BY <1>8, <2>1, <3>1, <4>1
    <3>2. CASE k \notin 1 .. n
      BY <2>1, <2>2, <2>4, <3>2
    <3> QED
      BY <3>1, <3>2
  <2>8. \A k \in 1 .. c - 1 : Tail(todo)[k] = D[d - (c - 1) + k]
    <3> TAKE k \in 1 .. c - 1
    <3>1. k + 1 \in 1 .. c /\ d - c + (k + 1) = d - (c - 1) + k
      BY <2>1
    <3>2. todo[k + 1] = D[d - c + (k + 1)] /\ Tail(todo)[k] = todo[k + 1]
      BY <1>4, <1>5, <3>1
    <3> QED
      BY <3>1, <3>2
  <2>9. DistinctTargets(answer'.stringRefs, {"DATA", "STRING"}) = D
    BY <1>9 DEF D
  <2>10. Len(todo') = c - 1 /\ Len(D) = d /\ todo' = Tail(todo)
    BY <1>1, <1>5 DEF d
  <2>11. m + 1 = d - (c - 1)
    BY <2>1
  <2> HIDE DEF m
  <2>12. faPc' = "psz" => /\ c - 1 # 0 /\ c - 1 <= d
                          /\ \A k \in 1 .. Len(t) : \E j \in 1 .. d - (c - 1) : t[k].target = D[j]
    BY <1>10, <2>1, <2>7, <2>11
  <2> QED
    BY <1>9, <1>10, <2>5, <2>6, <2>8, <2>9, <2>10, <2>12 DEF StringsKept
<1>12. CalleesKept'
  BY <1>1, <1>3, <1>9, <1>10, CalleesStay DEF AnalysisInv
<1>13. todo' \in Seq(Nat)
  BY <1>1, <1>5
<1> QED
  BY <1>1, <1>9, <1>10, <1>11, <1>12, <1>13, ListStep

LEMMA AnalysisNextInv ==
  AnalysisInv /\ [AnalysisNext]_faVars => AnalysisInv'
<1> SUFFICES ASSUME AnalysisInv, [AnalysisNext]_faVars PROVE AnalysisInv'
  OBVIOUS
<1>1. radare \in {"ready", "busy"}
  BY DEF AnalysisInv, AnalysisShape
<1>2. CASE AnalysisStart
  BY <1>2, AnalysisStartInv
<1>3. CASE Info
  BY <1>3, InfoInv
<1>4. CASE Plugins
  BY <1>4, PluginsInv
<1>5. CASE Pdg
  BY <1>5, PdgInv
<1>6. CASE Pdd
  BY <1>6, PddInv
<1>7. CASE Part
  BY <1>7, PartInv
<1>8. CASE Callers
  BY <1>8, CallersInv
<1>9. CASE CalleeInfo
  BY <1>9, CalleeInfoInv
<1>10. CASE Callees
  BY <1>10, CalleesInv
<1>11. CASE Strings
  BY <1>11, StringsInv
<1>12. CASE NameCallee
  BY <1>12, NameCalleeInv
<1>13. CASE ReadString
  BY <1>13, ReadStringInv
<1>14. CASE CallFailsOrTimesOut
  BY <1>14, CallFailsInv
<1>15. CASE RadareIsDone
  BY <1>15, AnalysisStaysInv DEF RadareIsDone
<1>16. CASE UNCHANGED faVars
  BY <1>1, <1>16, AnalysisStaysInv DEF faVars
<1> QED
  BY <1>2, <1>3, <1>4, <1>5, <1>6, <1>7, <1>8, <1>9, <1>10, <1>11, <1>12, <1>13,
     <1>14, <1>15, <1>16 DEF AnalysisNext

LEMMA PlansHaveTheirParts ==
  ASSUME plan \in AnalysisPlans, NEW k \in DOMAIN Calls(plan), Calls(plan)[k] \in Parts
  PROVE  Calls(plan)[k] \in PartsOf(plan)
<1>1. CASE plan = "profile"
  <2> DEFINE cs == <<"info", "blocks", "callers", "callee_info",
                     "callees", "strings", "constants">>
  <2>1. Calls(plan) = cs
    BY <1>1 DEF Calls
  <2>2. \A j \in DOMAIN cs : cs[j] \in {"info", "blocks", "callers", "callee_info",
                                        "callees", "strings", "constants"}
    OBVIOUS
  <2> HIDE DEF cs
  <2>3. Calls(plan)[k] \in {"info", "blocks", "callers", "callee_info",
                                        "callees", "strings", "constants"}
    BY <2>1, <2>2
  <2> QED
    BY <1>1, <2>3 DEF Parts, PartsOf
<1>2. CASE plan = "analyze"
  <2> DEFINE cs == <<"info", "plugins", "pdg", "pdd", "meta", "strings", "constants",
                     "callers", "callee_info", "callees", "blocks", "refs">>
  <2>1. Calls(plan) = cs
    BY <1>2 DEF Calls
  <2>2. \A j \in DOMAIN cs : cs[j] # "assembly"
    OBVIOUS
  <2> HIDE DEF cs
  <2>3. Calls(plan)[k] # "assembly"
    BY <2>1, <2>2
  <2> QED
    BY <1>2, <2>3 DEF PartsOf
<1>3. CASE plan = "analyze_with_assembly"
  BY <1>3 DEF PartsOf
<1> QED
  BY <1>1, <1>2, <1>3 DEF AnalysisPlans

LEMMA AskedIsASequence ==
  ASSUME AnalysisShape
  PROVE  /\ Len(asked) \in Nat /\ DOMAIN asked = 1 .. Len(asked)
         /\ \A c : Failed(c) <=> FailedCall(c)
<1>1. Len(asked) \in Nat /\ DOMAIN asked = 1 .. Len(asked)
  BY LenProperties DEF AnalysisShape
<1> QED
  BY <1>1 DEF Failed, FailedCall

LEMMA RequiredFails ==
  ASSUME AnalysisInv
  PROVE  RequiredOrNothing
<1>1. Len(asked) \in Nat /\ DOMAIN asked = 1 .. Len(asked)
  BY AskedIsASequence DEF AnalysisInv
<1>2. Last(asked) = asked[Len(asked)]
  BY DEF Last
<1> QED
  BY <1>1, <1>2 DEF AnalysisInv, OnlyOptionalFail, RequiredOrNothing

LEMMA MissingFailed ==
  ASSUME AnalysisInv
  PROVE  AbsentMeansFailed
<1> SUFFICES ASSUME faPc = "done" PROVE AbsentMeansFailed
  BY DEF AbsentMeansFailed
<1>1. /\ DOMAIN asked = 1 .. Len(asked)
      /\ \A c : Failed(c) <=> FailedCall(c)
  BY AskedIsASequence DEF AnalysisInv
<1>2. ASSUME NEW k \in DOMAIN Calls(plan), Calls(plan)[k] \in Parts
      PROVE  Calls(plan)[k] \in answer.parts <=> ~ Failed(Calls(plan)[k])
  <2>1. Calls(plan)[k] \in PartsOf(plan)
    BY <1>2, PlansHaveTheirParts DEF AnalysisInv, AnalysisShape
  <2>2. HasPassed(plan, faPc, Calls(plan)[k])
    BY <2>1 DEF HasPassed
  <2> QED
    BY <1>1, <1>2, <2>2 DEF AnalysisInv, PartsKept
<1>3. answer.code = Absent =>
         \/ \E c \in {"plugins", "pdg", "pdd"} : Failed(c)
         \/ \A k \in DOMAIN asked : asked[k].call # "pdg"
  BY <1>1 DEF AnalysisInv, CodeKept, CodeMissing, AskedFor
<1> QED
  BY <1>2, <1>3 DEF AbsentMeansFailed, Parts

LEMMA NamedOnce ==
  ASSUME AnalysisInv
  PROVE  TargetsNamedOnce
<1> HIDE DEF DistinctTargets
<1> DEFINE refs == answer.calleeRefs
           D == DistinctTargets(refs, {"CALL"})
           s == answer.callees
           t == answer.strings
<1>1. answer \in Answers
  BY DEF AnalysisInv, AnalysisShape
<1>2. refs \in Seq(Refs) /\ s \in Seq(Named) /\ t \in Seq(Named)
  BY <1>1 DEF Answers
<1>3. /\ DOMAIN s = 1 .. Len(s) /\ DOMAIN t = 1 .. Len(t) /\ DOMAIN refs = 1 .. Len(refs)
      /\ Len(s) \in Nat
  BY <1>2, LenProperties
<1>4. TargetsNamed(D, refs, {"CALL"}, Len(refs))
  BY <1>2, DistinctTargetsAre
<1>5. /\ Len(s) <= Len(D) /\ \A k \in 1 .. Len(s) : s[k].target = D[k]
      /\ faPc = "done" => Len(s) = Len(D)
  BY DEF AnalysisInv, CalleesKept
<1> HIDE DEF D
<1>6. /\ Len(D) \in Nat /\ \A j, k \in 1 .. Len(D) : D[j] = D[k] => j = k
      /\ \A k \in 1 .. Len(D) : D[k] \in TargetsOf(refs, {"CALL"}, Len(refs))
      /\ \A u \in TargetsOf(refs, {"CALL"}, Len(refs)) : \E k \in 1 .. Len(D) : D[k] = u
  BY <1>4, LenProperties DEF TargetsNamed
<1>7. TargetsOf(refs, {"CALL"}, Len(refs))
        = {r.target : r \in {x \in ToSet(refs) : x.type = "CALL" /\ x.target # 0}}
  <2> HIDE DEF refs
  <2> QED
    BY <1>3 DEF TargetsOf, WantedRef, ToSet
<1>8. \A j, k \in 1 .. Len(s) : s[j].target = s[k].target => j = k
  <2>1. \A k \in 1 .. Len(s) : k \in 1 .. Len(D)
    BY <1>3, <1>5, <1>6
  <2> TAKE j, k \in 1 .. Len(s)
  <2>2. s[j].target = D[j] /\ s[k].target = D[k] /\ j \in 1 .. Len(D) /\ k \in 1 .. Len(D)
    BY <1>5, <2>1
  <2> QED
    BY <1>6, <2>2
<1>9. /\ \A j, k \in DOMAIN t : t[j].target = t[k].target => j = k
      /\ \A k \in DOMAIN t : t[k].name # "none"
  BY <1>3 DEF AnalysisInv, StringsKept
<1>11. LET given == TrimmedCallees
       IN  /\ given.count = Len(s) /\ IsPrefix(given.shown, s)
           /\ given.shown # s => Len(given.shown) = MaxNeighbours
  <2> DEFINE n == Min({MaxNeighbours, Len(s)})
             given == TrimmedCallees
  <2>1. TrimmedCallees = [shown |-> SubSeq(s, 1, n), count |-> Len(s)]
    <3>1. {Len(s), MaxNeighbours} = {MaxNeighbours, Len(s)}
      OBVIOUS
    <3> QED
      BY <3>1 DEF TrimmedCallees, TrimNeighbours
  <2> HIDE DEF s
  <2>3. /\ MaxNeighbours \in Nat /\ n \in Nat /\ n <= Len(s) /\ n <= MaxNeighbours
        /\ (n = MaxNeighbours \/ n = Len(s))
    BY <1>3, AnalysisAssumption, CutLength
  <2> HIDE DEF n
  <2>2. /\ Len(SubSeq(s, 1, n)) = n /\ IsPrefix(SubSeq(s, 1, n), s)
        /\ SubSeq(s, 1, n) # s => n = MaxNeighbours
    BY <1>2, <2>3, FirstOnes
  <2> QED
    BY <2>1, <2>2
<1> HIDE DEF refs, s
<1>12. Cardinality({s[k].target : k \in 1 .. Len(s)}) = Len(s)
  <2> DEFINE T == {s[k].target : k \in 1 .. Len(s)}
             f == [k \in 1 .. Len(s) |-> s[k].target]
  <2>1. /\ f \in [1 .. Len(s) -> T] /\ \A x \in T : \E k \in 1 .. Len(s) : f[k] = x
        /\ \A j, k \in 1 .. Len(s) : f[j] = f[k] => j = k
    BY <1>8
  <2> HIDE DEF f, T
  <2>2. f \in Bijection(1 .. Len(s), T)
    BY <2>1 DEF Bijection, Injection, Surjection, IsInjective
  <2>3. ExistsBijection(1 .. Len(s), T)
    BY <2>2 DEF ExistsBijection
  <2> QED
    BY <1>3, <2>3, FS_CountingElements DEF T
<1>10. faPc = "done" => {s[k].target : k \in DOMAIN s} = TargetsOf(refs, {"CALL"}, Len(refs))
  BY <1>3, <1>5, <1>6
<1> HIDE DEF TrimmedCallees
<1>13. faPc = "done" =>
         LET called == {r.target : r \in {x \in ToSet(refs) : x.type = "CALL" /\ x.target # 0}}
             given  == TrimmedCallees
         IN  /\ {s[k].target : k \in DOMAIN s} = called
             /\ given.count = Cardinality(called)
             /\ IsPrefix(given.shown, s)
             /\ given.shown # s => Len(given.shown) = MaxNeighbours
  BY <1>3, <1>7, <1>10, <1>11, <1>12
<1>14. \A j, k \in DOMAIN s : s[j].target = s[k].target => j = k
  BY <1>3, <1>8
<1> HIDE DEF t
<1>15. \A list \in {s, t} : \A j, k \in DOMAIN list : list[j].target = list[k].target => j = k
  BY <1>9, <1>14
<1> QED
  BY <1>9, <1>13, <1>15 DEF TargetsNamedOnce, s, t, refs

LEMMA AnalysisTypes ==
  ASSUME AnalysisInv
  PROVE  AnalysisTypeOK
<1>1. \A n \in Neighbours : TrimNeighbours(n).shown <= MaxNeighbours
  <2> TAKE n \in Neighbours
  <2> DEFINE S == {n, MaxNeighbours}
  <2>1. S \subseteq Nat /\ S # {} /\ MaxNeighbours \in S
    BY AnalysisAssumption
  <2> HIDE DEF S
  <2>2. Min(S) <= MaxNeighbours
    BY <2>1, MinIsLeast
  <2> QED
    BY <2>2 DEF TrimNeighbours, S
<1>2. answer.callers # Absent => answer.callers.shown <= MaxNeighbours
  <2>1. answer.callers # Absent => \E n \in Neighbours : answer.callers = TrimNeighbours(n)
    BY DEF AnalysisInv, AnalysisShape, Answers
  <2> HIDE DEF TrimNeighbours
  <2> QED
    BY <1>1, <2>1
<1>3. answer.code \in {Absent, "note"} \cup Texts
  BY DEF AnalysisInv, AnalysisShape, Answers
<1> QED
  BY <1>2, <1>3 DEF AnalysisInv, AnalysisShape, AnalysisTypeOK

LEMMA AnalysisIsSound ==
  ASSUME AnalysisInv
  PROVE  /\ AnalysisTypeOK /\ TargetsNamedOnce
         /\ RequiredOrNothing /\ AbsentMeansFailed /\ CodeIsMeaningful
  BY AnalysisTypes, NamedOnce, RequiredFails, MissingFailed DEF AnalysisInv, CodeKept

-----------------------------------------------------------------------------
(* FunctionGraph                                                           *)

(***************************************************************************)
(* What is projected so far: of each block the edges to the blocks it      *)
(* leads to, and those blocks.                                             *)
(***************************************************************************)
Blocks == [addr : Nat, jump : Targets, fail : Targets]

Kinds == {"jump", "fail"}

Edges == [from : Nat, to : Nat, target : Nat, kind : Kinds]

TargetAt(i, kind) == IF kind = "jump" THEN blocks[i].jump ELSE blocks[i].fail

Inner(kind, n) == {i \in 1 .. n : TargetAt(i, kind) \in AddressesIndexed}

Reached(i) == {IndexOfAddr(TargetAt(i, kind)) :
                 kind \in {x \in Kinds : TargetAt(i, x) \in AddressesIndexed}}

GraphShape ==
  /\ fgPc \in {"idle", "project", "shown"}
  /\ blocks \in Seq(Blocks) /\ edges \in Seq(Edges)
  /\ successors \in Seq(Seq(Nat)) /\ Len(successors) <= Len(blocks)
  /\ fgPc = "idle" => successors = <<>> /\ edges = <<>>
  /\ fgPc # "shown" => predecessors = <<>>
  /\ fgPc = "shown" => Len(successors) = Len(blocks)

EdgeIsTrue(e, n) ==
  /\ e.from \in 1 .. n
  /\ e.target = TargetAt(e.from, e.kind) /\ e.target \in AddressesIndexed
  /\ e.to = IndexOfAddr(e.target)

EdgesKept ==
  /\ \A k \in 1 .. Len(edges) : EdgeIsTrue(edges[k], Len(successors))
  /\ \A i \in 1 .. Len(successors), kind \in Kinds :
       TargetAt(i, kind) \in AddressesIndexed =>
         \E k \in 1 .. Len(edges) : edges[k].from = i /\ edges[k].kind = kind
  /\ Len(edges) = Cardinality(Inner("jump", Len(successors)))
                    + Cardinality(Inner("fail", Len(successors)))

NeighboursKept ==
  /\ \A i \in 1 .. Len(successors) : successors[i] = Sorted(Reached(i))
  /\ fgPc = "shown" => predecessors = [i \in DOMAIN blocks |->
       Sorted({edges[k].from : k \in {j \in DOMAIN edges : edges[j].to = i}})]

GraphInv == GraphShape /\ EdgesKept /\ NeighboursKept

LEMMA InnerIsFinite ==
  ASSUME NEW kind, NEW n \in Nat
  PROVE  /\ IsFiniteSet(Inner(kind, n)) /\ Cardinality(Inner(kind, n)) \in Nat
         /\ Cardinality(Inner(kind, n + 1))
              = Cardinality(Inner(kind, n))
                  + (IF TargetAt(n + 1, kind) \in AddressesIndexed THEN 1 ELSE 0)
<1> DEFINE I(m) == Inner(kind, m)
<1>1. IsFiniteSet(1 .. n)
  BY FS_Interval
<1>2. I(n) \in SUBSET (1 .. n)
  BY DEF Inner
<1>3. IsFiniteSet(I(n)) /\ Cardinality(I(n)) \in Nat
  BY <1>1, <1>2, FS_Subset, FS_CardinalityType
<1>4. n + 1 \notin I(n)
  BY <1>2
<1>5. 1 .. n + 1 = (1 .. n) \cup {n + 1}
  OBVIOUS
<1>6. I(n + 1) = I(n) \cup (IF TargetAt(n + 1, kind) \in AddressesIndexed THEN {n + 1} ELSE {})
  BY <1>5 DEF Inner
<1> HIDE DEF I
<1>7. CASE TargetAt(n + 1, kind) \in AddressesIndexed
  BY <1>3, <1>4, <1>6, <1>7, FS_AddElement DEF I
<1>8. CASE TargetAt(n + 1, kind) \notin AddressesIndexed
  <2>1. I(n + 1) = I(n)
    BY <1>6, <1>8
  <2> QED
    BY <1>3, <1>8, <2>1 DEF I
<1> QED
  BY <1>3, <1>7, <1>8 DEF I

LEMMA IndexIsABlock ==
  ASSUME blocks \in Seq(Blocks), NEW a \in AddressesIndexed
  PROVE  IndexOfAddr(a) \in 1 .. Len(blocks) /\ blocks[IndexOfAddr(a)].addr = a /\ a \in Nat
<1>1. Len(blocks) \in Nat /\ DOMAIN blocks = 1 .. Len(blocks)
  BY LenProperties
<1> DEFINE S == {i \in DOMAIN blocks : blocks[i].addr = a}
<1>2. S \subseteq 1 .. Len(blocks) /\ S # {}
  BY <1>1 DEF AddressesIndexed
<1>3. Max(S) \in S
  <2> HIDE DEF S
  <2> QED
    BY <1>1, <1>2, MaxIsGreatest
<1>4. a \in Nat
  <2>1. PICK i \in 1 .. Len(blocks) : a = blocks[i].addr
    BY <1>1 DEF AddressesIndexed
  <2>2. blocks[i] \in Blocks
    BY ElementOfSeq
  <2> QED
    BY <2>1, <2>2 DEF Blocks
<1> QED
  BY <1>1, <1>3, <1>4 DEF IndexOfAddr

LEMMA ReachedAreBlocks ==
  ASSUME blocks \in Seq(Blocks), NEW i
  PROVE  /\ Reached(i) \subseteq 1 .. Len(blocks) /\ Reached(i) \subseteq Nat
         /\ IsFiniteSet(Reached(i))
<1>1. Reached(i) \subseteq 1 .. Len(blocks)
  BY IndexIsABlock DEF Reached
<1>2. Len(blocks) \in Nat /\ IsFiniteSet(1 .. Len(blocks))
  BY LenProperties, FS_Interval
<1> QED
  BY <1>1, <1>2, FS_Subset

(* The edges of one block. *)
LEMMA EdgesOfIs ==
  ASSUME blocks \in Seq(Blocks), NEW i \in 1 .. Len(blocks)
  PROVE  /\ EdgesOf(i) \in Seq(Edges)
         /\ \A k \in 1 .. Len(EdgesOf(i)) :
              EdgesOf(i)[k].from = i /\ EdgeIsTrue(EdgesOf(i)[k], i)
         /\ \A kind \in Kinds : TargetAt(i, kind) \in AddressesIndexed =>
              \E k \in 1 .. Len(EdgesOf(i)) : EdgesOf(i)[k].kind = kind
         /\ Len(EdgesOf(i)) = (IF TargetAt(i, "jump") \in AddressesIndexed THEN 1 ELSE 0)
                                + (IF TargetAt(i, "fail") \in AddressesIndexed THEN 1 ELSE 0)
<1> DEFINE e(kind) == EdgeTo(i, kind, TargetAt(i, kind))
           r(kind) == [from |-> i, to |-> IndexOfAddr(TargetAt(i, kind)),
                       target |-> TargetAt(i, kind), kind |-> kind]
           inside(kind) == TargetAt(i, kind) \in AddressesIndexed
<1>0. i \in Nat /\ i \in 1 .. i
  BY LenProperties
<1>1. EdgesOf(i) = e("jump") \o e("fail")
  BY DEF EdgesOf, TargetAt
<1>2. ASSUME NEW kind \in Kinds
      PROVE  /\ e(kind) \in Seq(Edges) /\ Len(e(kind)) = IF inside(kind) THEN 1 ELSE 0
             /\ inside(kind) => e(kind)[1] = r(kind)
  <2>1. CASE inside(kind)
    <3>1. e(kind) = <<r(kind)>>
      BY <2>1 DEF EdgeTo
    <3>2. r(kind) \in Edges
      BY <1>0, <2>1, IndexIsABlock DEF Edges
    <3> HIDE DEF r, e
    <3>3. <<r(kind)>> \in Seq(Edges) /\ Len(<<r(kind)>>) = 1 /\ <<r(kind)>>[1] = r(kind)
      BY <3>2
    <3> QED
      BY <2>1, <3>1, <3>3
  <2>2. CASE ~ inside(kind)
    <3>1. e(kind) = <<>>
      BY <2>2 DEF EdgeTo
    <3> HIDE DEF r, e
    <3> QED
      BY <2>2, <3>1, EmptySeq
  <2> QED
    BY <2>1, <2>2
<1>3. ASSUME NEW kind \in Kinds, inside(kind)
      PROVE  /\ r(kind).from = i /\ r(kind).kind = kind /\ EdgeIsTrue(r(kind), i)
  BY <1>0, <1>3 DEF EdgeIsTrue
<1> HIDE DEF e, r
<1>4. "jump" \in Kinds /\ "fail" \in Kinds /\ \A kind \in Kinds : kind = "jump" \/ kind = "fail"
  BY DEF Kinds
<1> DEFINE p == e("jump")  q == e("fail")
<1>5. /\ p \o q \in Seq(Edges) /\ Len(p \o q) = Len(p) + Len(q)
      /\ \A k \in 1 .. Len(p) + Len(q) :
           (p \o q)[k] = IF k <= Len(p) THEN p[k] ELSE q[k - Len(p)]
  BY <1>2, <1>4, ConcatProperties
<1>6. /\ Len(p) = IF inside("jump") THEN 1 ELSE 0
      /\ Len(q) = IF inside("fail") THEN 1 ELSE 0
      /\ inside("jump") => p[1] = r("jump")
      /\ inside("fail") => q[1] = r("fail")
  BY <1>2, <1>4
<1> DEFINE s == p \o q
<1> HIDE DEF p, q, s
<1>7. \A k \in 1 .. Len(s) : \/ inside("jump") /\ s[k] = r("jump")
                             \/ inside("fail") /\ s[k] = r("fail")
  BY <1>5, <1>6 DEF s
<1>8. /\ inside("jump") => 1 \in 1 .. Len(s) /\ s[1] = r("jump")
      /\ inside("fail") => Len(s) \in 1 .. Len(s) /\ s[Len(s)] = r("fail")
  BY <1>5, <1>6 DEF s
<1>9. s \in Seq(Edges) /\ Len(s) = (IF inside("jump") THEN 1 ELSE 0) + (IF inside("fail") THEN 1 ELSE 0)
  BY <1>5, <1>6 DEF s
<1>10. EdgesOf(i) = s
  BY <1>1 DEF s, p, q
<1> HIDE DEF inside
<1>11. \A k \in 1 .. Len(s) : s[k].from = i /\ EdgeIsTrue(s[k], i)
  BY <1>3, <1>4, <1>7
<1>12. \A kind \in Kinds : inside(kind) => \E k \in 1 .. Len(s) : s[k].kind = kind
  BY <1>3, <1>4, <1>8
<1> QED
  BY <1>9, <1>10, <1>11, <1>12 DEF inside

LEMMA GraphInitInv ==
  GraphInit => GraphInv
<1> SUFFICES ASSUME GraphInit PROVE GraphInv
  OBVIOUS
<1>1. /\ fgPc = "idle" /\ blocks = <<>> /\ successors = <<>> /\ edges = <<>>
      /\ predecessors = <<>>
  BY DEF GraphInit
<1>2. Len(blocks) = 0 /\ Len(successors) = 0 /\ Len(edges) = 0
  BY <1>1, EmptySeq
<1>3. GraphShape
  BY <1>1, <1>2, EmptySeq DEF GraphShape
<1>4. \A k \in 1 .. 0 : FALSE
  OBVIOUS
<1>5. EdgesKept
  <2>1. Inner("jump", Len(successors)) = {} /\ Inner("fail", Len(successors)) = {}
    BY <1>2 DEF Inner
  <2>2. Len(edges) = Cardinality(Inner("jump", Len(successors)))
                       + Cardinality(Inner("fail", Len(successors)))
    <3>1. Cardinality({}) = 0
      BY FS_EmptySet
    <3>2. Cardinality(Inner("jump", Len(successors))) = 0 /\ Cardinality(Inner("fail", Len(successors))) = 0
      BY <2>1, <3>1
    <3> QED
      BY <1>2, <3>2
  <2> QED
    BY <1>2, <1>4, <2>2 DEF EdgesKept
<1>6. NeighboursKept
  BY <1>1, <1>2, <1>4 DEF NeighboursKept
<1> QED
  BY <1>3, <1>5, <1>6 DEF GraphInv

LEMMA GraphStartInv ==
  ASSUME GraphInv, GraphStart
  PROVE  GraphInv'
<1>1. /\ fgPc' = "project" /\ blocks' \in Seq(Blocks)
      /\ successors = <<>> /\ edges = <<>> /\ predecessors = <<>>
      /\ successors' = <<>> /\ edges' = <<>> /\ predecessors' = <<>>
  BY FunctionGraphAssumption DEF GraphStart, GraphInv, GraphShape, Blocks
<1>2. Len(successors') = 0 /\ Len(edges') = 0 /\ Len(blocks') \in Nat
  BY <1>1, EmptySeq, LenProperties
<1>3. GraphShape'
  BY <1>1, <1>2, EmptySeq DEF GraphShape
<1>4. \A k \in 1 .. 0 : FALSE
  OBVIOUS
<1>5. EdgesKept'
  <2>1. Inner("jump", Len(successors))' = {} /\ Inner("fail", Len(successors))' = {}
    BY <1>2 DEF Inner
  <2>2. Len(edges') = Cardinality(Inner("jump", Len(successors)))'
                        + Cardinality(Inner("fail", Len(successors)))'
    BY <1>2, <2>1, FS_EmptySet
  <2> QED
    BY <1>2, <1>4, <2>2 DEF EdgesKept
<1>6. NeighboursKept'
  BY <1>1, <1>2, <1>4 DEF NeighboursKept
<1> QED
  BY <1>3, <1>5, <1>6 DEF GraphInv

(* What depends on the blocks only. *)
LEMMA SameBlocks ==
  ASSUME blocks' = blocks
  PROVE  /\ \A e, n : EdgeIsTrue(e, n)' <=> EdgeIsTrue(e, n)
         /\ \A kind, n : Inner(kind, n)' = Inner(kind, n)
         /\ \A i : Reached(i)' = Reached(i)
         /\ \A i, kind : TargetAt(i, kind)' = TargetAt(i, kind)
         /\ AddressesIndexed' = AddressesIndexed
<1>1. /\ AddressesIndexed' = AddressesIndexed
      /\ \A i, kind : TargetAt(i, kind)' = TargetAt(i, kind)
      /\ \A a : IndexOfAddr(a)' = IndexOfAddr(a)
  BY DEF AddressesIndexed, TargetAt, IndexOfAddr
<1> QED
  BY <1>1 DEF EdgeIsTrue, Inner, Reached

LEMMA KeptEdges ==
  ASSUME blocks' = blocks,
         \A k \in 1 .. Len(edges') : EdgeIsTrue(edges'[k], Len(successors')),
         \A i \in 1 .. Len(successors'), kind \in Kinds :
           TargetAt(i, kind) \in AddressesIndexed =>
             \E k \in 1 .. Len(edges') : edges'[k].from = i /\ edges'[k].kind = kind,
         Len(edges') = Cardinality(Inner("jump", Len(successors))')
                         + Cardinality(Inner("fail", Len(successors))')
  PROVE  EdgesKept'
<1>1. AddressesIndexed' = AddressesIndexed
  BY DEF AddressesIndexed
<1>2. \A k \in 1 .. Len(edges') :
        /\ edges'[k].from \in 1 .. Len(successors')
        /\ edges'[k].target = IF edges'[k].kind = "jump" THEN blocks'[edges'[k].from].jump
                                                        ELSE blocks'[edges'[k].from].fail
        /\ edges'[k].target \in AddressesIndexed'
        /\ edges'[k].to = Max({i \in DOMAIN blocks' : blocks'[i].addr = edges'[k].target})
  BY <1>1 DEF EdgeIsTrue, TargetAt, IndexOfAddr
<1>3. \A k \in 1 .. Len(edges') : EdgeIsTrue(edges[k], Len(successors))'
  BY <1>2 DEF EdgeIsTrue, TargetAt, IndexOfAddr
<1>4. \A i \in 1 .. Len(successors'), kind \in Kinds :
        (TargetAt(i, kind) \in AddressesIndexed)' =>
          \E k \in 1 .. Len(edges') : edges'[k].from = i /\ edges'[k].kind = kind
  BY <1>1 DEF TargetAt
<1> QED
  BY <1>3, <1>4 DEF EdgesKept

LEMMA ProjectBlockInv ==
  ASSUME GraphInv, ProjectBlock
  PROVE  GraphInv'
<1> DEFINE n == Len(successors)
           es == EdgesOf(n + 1)
           T == {es[k].to : k \in DOMAIN es}
           new == edges \o es
           m == Len(edges)
<1>1. /\ fgPc = "project" /\ fgPc' = "project" /\ blocks' = blocks
      /\ predecessors' = predecessors /\ n < Len(blocks)
      /\ edges' = new /\ successors' = Append(successors, Sorted(T))
  BY DEF ProjectBlock
<1>2. /\ blocks \in Seq(Blocks) /\ edges \in Seq(Edges) /\ successors \in Seq(Seq(Nat))
      /\ predecessors = <<>>
  BY <1>1 DEF GraphInv, GraphShape
<1>3. n \in Nat /\ m \in Nat /\ Len(blocks) \in Nat /\ n + 1 \in 1 .. Len(blocks) /\ n + 1 \in Nat
      /\ n + 1 \in 1 .. n + 1
  BY <1>1, <1>2, LenProperties
<1>4. /\ es \in Seq(Edges)
      /\ \A k \in 1 .. Len(es) : es[k].from = n + 1 /\ EdgeIsTrue(es[k], n + 1)
      /\ \A kind \in Kinds : TargetAt(n + 1, kind) \in AddressesIndexed =>
              \E k \in 1 .. Len(es) : es[k].kind = kind
      /\ Len(es) = (IF TargetAt(n + 1, "jump") \in AddressesIndexed THEN 1 ELSE 0)
                     + (IF TargetAt(n + 1, "fail") \in AddressesIndexed THEN 1 ELSE 0)
  BY <1>2, <1>3, EdgesOfIs
<1>5. DOMAIN es = 1 .. Len(es) /\ Len(es) \in Nat
      /\ \A k \in 1 .. Len(es) : es[k].kind \in Kinds
  <2>1. \A k \in 1 .. Len(es) : es[k] \in Edges
    BY <1>4, ElementOfSeq
  <2> HIDE DEF es
  <2> QED
    BY <1>4, <2>1, LenProperties DEF Edges
<1> HIDE DEF es
<1>6. T = Reached(n + 1)
  <2>1. ASSUME NEW x \in T
        PROVE  x \in Reached(n + 1)
    <3>1. PICK k \in 1 .. Len(es) : x = es[k].to
      BY <1>5
    <3>2. /\ es[k].kind \in Kinds /\ es[k].from = n + 1
          /\ es[k].target = TargetAt(n + 1, es[k].kind)
          /\ es[k].target \in AddressesIndexed /\ x = IndexOfAddr(es[k].target)
      BY <1>4, <1>5, <3>1 DEF EdgeIsTrue
    <3> QED
      BY <3>2 DEF Reached
  <2>2. ASSUME NEW x \in Reached(n + 1)
        PROVE  x \in T
    <3>1. PICK kind \in Kinds : /\ TargetAt(n + 1, kind) \in AddressesIndexed
                                /\ x = IndexOfAddr(TargetAt(n + 1, kind))
      BY DEF Reached
    <3>2. PICK k \in 1 .. Len(es) : es[k].kind = kind
      BY <1>4, <3>1
    <3>3. es[k].to = x
      BY <1>4, <3>1, <3>2 DEF EdgeIsTrue
    <3> QED
      BY <1>5, <3>3
  <2> QED
    BY <2>1, <2>2
<1>7. Sorted(T) \in Seq(Nat)
  <2>1. Reached(n + 1) \subseteq Nat /\ IsFiniteSet(Reached(n + 1))
    BY <1>2, ReachedAreBlocks
  <2>2. Sorted(T) \in Seq(T) /\ T \subseteq Nat
    BY <1>6, <2>1, SortedIs
  <2> DEFINE x == Sorted(T)
  <2> HIDE DEF T, x
  <2>3. x \in Seq(T) /\ T \subseteq Nat
    BY <2>2 DEF x
  <2>4. x \in Seq(Nat)
    BY <2>3, SeqMonotonic
  <2> QED
    BY <2>4 DEF x
<1>8. /\ successors' \in Seq(Seq(Nat)) /\ Len(successors') = n + 1
      /\ successors'[n + 1] = Sorted(T) /\ \A i \in 1 .. n : successors'[i] = successors[i]
  <2> DEFINE x == Sorted(T)
  <2>1. x \in Seq(Nat) /\ successors' = Append(successors, x)
    BY <1>1, <1>7
  <2> HIDE DEF x
  <2>2. /\ successors' \in Seq(Seq(Nat)) /\ Len(successors') = n + 1
        /\ successors'[n + 1] = x /\ \A i \in 1 .. n : successors'[i] = successors[i]
    BY <1>2, <2>1, AppendProperties
  <2> QED
    BY <2>2 DEF x
<1> HIDE DEF T
<1>9. /\ new \in Seq(Edges) /\ Len(new) = m + Len(es)
      /\ \A k \in 1 .. m + Len(es) : new[k] = IF k <= m THEN edges[k] ELSE es[k - m]
  BY <1>2, <1>4, ConcatProperties
<1> HIDE DEF new
<1>10. /\ \A k \in 1 .. m : k \in 1 .. Len(new) /\ new[k] = edges[k]
       /\ \A k \in 1 .. Len(es) : m + k \in 1 .. Len(new) /\ new[m + k] = es[k]
       /\ \A k \in 1 .. Len(new) : k \in 1 .. m \/ (k - m \in 1 .. Len(es) /\ new[k] = es[k - m])
  <2>1. \A k \in 1 .. m : k \in 1 .. m + Len(es) /\ k <= m
    BY <1>3, <1>5
  <2>2. \A k \in 1 .. Len(es) : m + k \in 1 .. m + Len(es) /\ ~ (m + k <= m) /\ (m + k) - m = k
    BY <1>3, <1>5
  <2>3. \A k \in 1 .. m + Len(es) : k \in 1 .. m \/ (k - m \in 1 .. Len(es) /\ ~ (k <= m))
    BY <1>3, <1>5
  <2> QED
    BY <1>9, <2>1, <2>2, <2>3
<1>11. /\ \A k \in 1 .. m : EdgeIsTrue(edges[k], n)
       /\ \A i \in 1 .. n, kind \in Kinds : TargetAt(i, kind) \in AddressesIndexed =>
            \E k \in 1 .. m : edges[k].from = i /\ edges[k].kind = kind
       /\ m = Cardinality(Inner("jump", n)) + Cardinality(Inner("fail", n))
       /\ \A i \in 1 .. n : successors[i] = Sorted(Reached(i))
  BY DEF GraphInv, EdgesKept, NeighboursKept
<1> HIDE DEF n, m
<1>12. GraphShape'
  BY <1>1, <1>2, <1>3, <1>8, <1>9 DEF GraphShape
<1>13. \A i \in 1 .. n + 1 : i \in 1 .. n \/ i = n + 1
  BY <1>3
<1>14. \A i \in 1 .. n : i \in 1 .. n + 1
  BY <1>3
<1>15. \A k \in 1 .. Len(new) : EdgeIsTrue(new[k], n + 1)
  <2> TAKE k \in 1 .. Len(new)
  <2>1. CASE k \in 1 .. m
    BY <1>10, <1>11, <1>14, <2>1 DEF EdgeIsTrue
  <2>2. CASE k \notin 1 .. m
    BY <1>4, <1>10, <2>2
  <2> QED
    BY <2>1, <2>2
<1>16. \A i \in 1 .. n + 1, kind \in Kinds : TargetAt(i, kind) \in AddressesIndexed =>
            \E k \in 1 .. Len(new) : new[k].from = i /\ new[k].kind = kind
  <2> SUFFICES ASSUME NEW i \in 1 .. n + 1, NEW kind \in Kinds,
                      TargetAt(i, kind) \in AddressesIndexed
               PROVE  \E k \in 1 .. Len(new) : new[k].from = i /\ new[k].kind = kind
    OBVIOUS
  <2>1. CASE i \in 1 .. n
    <3>1. PICK k \in 1 .. m : edges[k].from = i /\ edges[k].kind = kind
      BY <1>11, <2>1
    <3> QED
      BY <1>10, <3>1
  <2>2. CASE i = n + 1
    <3>1. PICK k \in 1 .. Len(es) : es[k].kind = kind
      BY <1>4, <2>2
    <3> QED
      BY <1>4, <1>10, <2>2, <3>1
  <2> QED
    BY <1>13, <2>1, <2>2
<1>17. Len(new) = Cardinality(Inner("jump", n + 1)) + Cardinality(Inner("fail", n + 1))
  <2> DEFINE x == IF TargetAt(n + 1, "jump") \in AddressesIndexed THEN 1 ELSE 0
             y == IF TargetAt(n + 1, "fail") \in AddressesIndexed THEN 1 ELSE 0
             a == Cardinality(Inner("jump", n))
             b == Cardinality(Inner("fail", n))
  <2>1. /\ Cardinality(Inner("jump", n + 1)) = a + x /\ Cardinality(Inner("fail", n + 1)) = b + y
        /\ a \in Nat /\ b \in Nat
    BY <1>3, InnerIsFinite
  <2>2. Len(new) = m + Len(es) /\ Len(es) = x + y /\ m = a + b /\ x \in Nat /\ y \in Nat
    BY <1>4, <1>9, <1>11
  <2> HIDE DEF x, y, a, b
  <2> QED
    BY <2>1, <2>2
<1>18. EdgesKept'
  <2>1. /\ \A e, k : EdgeIsTrue(e, k)' <=> EdgeIsTrue(e, k)
        /\ \A kind, k : Inner(kind, k)' = Inner(kind, k)
        /\ \A i, kind : TargetAt(i, kind)' = TargetAt(i, kind)
        /\ AddressesIndexed' = AddressesIndexed
    BY <1>1, SameBlocks
  <2>2. edges' = new /\ Len(successors') = n + 1
    BY <1>1, <1>8
  <2>3. \A k \in 1 .. Len(edges') : EdgeIsTrue(edges'[k], Len(successors'))
    BY <1>15, <2>2
  <2>4. /\ Inner("jump", Len(successors))' = Inner("jump", n + 1)
        /\ Inner("fail", Len(successors))' = Inner("fail", n + 1)
    BY <1>1, <2>2 DEF Inner, TargetAt, AddressesIndexed
  <2> QED
    BY <1>1, <1>16, <1>17, <2>2, <2>3, <2>4, KeptEdges
<1>19. NeighboursKept'
  <2>1. \A i : Reached(i)' = Reached(i)
    BY <1>1, SameBlocks
  <2>2. \A i \in 1 .. Len(successors') : successors'[i] = Sorted(Reached(i))
    BY <1>6, <1>8, <1>11, <1>13
  <2> HIDE DEF Sorted
  <2> QED
    BY <1>1, <2>1, <2>2 DEF NeighboursKept
<1> QED
  BY <1>12, <1>18, <1>19 DEF GraphInv

LEMMA GraphStaysInv ==
  ASSUME GraphInv, UNCHANGED <<blocks, successors, edges>>,
         \/ UNCHANGED <<fgPc, predecessors>>
         \/ AttachPredecessors
  PROVE  GraphInv'
<1>1. GraphShape'
  BY DEF GraphInv, GraphShape, AttachPredecessors
<1>2. EdgesKept'
  <2>1. /\ Inner("jump", Len(successors))' = Inner("jump", Len(successors))
        /\ Inner("fail", Len(successors))' = Inner("fail", Len(successors))
    BY DEF Inner, TargetAt, AddressesIndexed
  <2>2. EdgesKept /\ edges' = edges /\ successors' = successors
    BY DEF GraphInv
  <2>3. /\ \A k \in 1 .. Len(edges') : EdgeIsTrue(edges'[k], Len(successors'))
        /\ \A i \in 1 .. Len(successors'), kind \in Kinds :
             TargetAt(i, kind) \in AddressesIndexed =>
               \E k \in 1 .. Len(edges') : edges'[k].from = i /\ edges'[k].kind = kind
        /\ Len(edges') = Cardinality(Inner("jump", Len(successors)))
                          + Cardinality(Inner("fail", Len(successors)))
    BY <2>2 DEF EdgesKept
  <2> QED
    BY <2>1, <2>3, KeptEdges
<1>3. \A i : Reached(i)' = Reached(i)
  BY SameBlocks
<1> HIDE DEF Sorted
<1>4. NeighboursKept'
  BY <1>3 DEF GraphInv, NeighboursKept, AttachPredecessors
<1> QED
  BY <1>1, <1>2, <1>4 DEF GraphInv

LEMMA GraphNextInv ==
  GraphInv /\ [GraphNext]_fgVars => GraphInv'
<1> SUFFICES ASSUME GraphInv, [GraphNext]_fgVars PROVE GraphInv'
  OBVIOUS
<1>1. CASE GraphStart
  BY <1>1, GraphStartInv
<1>2. CASE ProjectBlock
  BY <1>2, ProjectBlockInv
<1>3. CASE AttachPredecessors
  BY <1>3, GraphStaysInv DEF AttachPredecessors
<1>4. CASE UNCHANGED fgVars
  BY <1>4, GraphStaysInv DEF fgVars
<1> QED
  BY <1>1, <1>2, <1>3, <1>4 DEF GraphNext

LEMMA GraphSizes ==
  ASSUME GraphInv
  PROVE  /\ Len(blocks) \in Nat /\ DOMAIN blocks = 1 .. Len(blocks)
         /\ Len(edges) \in Nat /\ DOMAIN edges = 1 .. Len(edges)
         /\ Len(successors) \in Nat /\ DOMAIN successors = 1 .. Len(successors)
         /\ Len(successors) <= Len(blocks)
         /\ \A k \in 1 .. Len(edges) : edges[k].kind \in Kinds
<1>1. blocks \in Seq(Blocks) /\ edges \in Seq(Edges) /\ successors \in Seq(Seq(Nat))
      /\ Len(successors) <= Len(blocks)
  BY DEF GraphInv, GraphShape
<1>2. \A k \in 1 .. Len(edges) : edges[k] \in Edges
  BY <1>1, ElementOfSeq
<1> QED
  BY <1>1, <1>2, LenProperties DEF Edges

(* Where the edges that end at a block begin. *)
Origins(j) == {edges[k].from : k \in {l \in DOMAIN edges : edges[l].to = j}}

LEMMA OriginsAreBlocks ==
  ASSUME GraphInv, NEW j
  PROVE  /\ Origins(j) \subseteq 1 .. Len(blocks) /\ Origins(j) \subseteq Nat
         /\ IsFiniteSet(Origins(j))
<1>1. Origins(j) \subseteq 1 .. Len(blocks)
  <2>1. \A i \in 1 .. Len(successors) : i \in 1 .. Len(blocks)
    BY GraphSizes
  <2>2. \A k \in 1 .. Len(edges) : edges[k].from \in 1 .. Len(successors)
    BY DEF GraphInv, EdgesKept, EdgeIsTrue
  <2> QED
    BY <2>1, <2>2, GraphSizes DEF Origins
<1>2. Len(blocks) \in Nat /\ IsFiniteSet(1 .. Len(blocks))
  BY GraphSizes, FS_Interval
<1> QED
  BY <1>1, <1>2, FS_Subset

(* The two neighbourhoods are one relation. *)
LEMMA ReachedByEdges ==
  ASSUME GraphInv, NEW i \in 1 .. Len(successors), NEW j
  PROVE  j \in Reached(i) <=> i \in Origins(j)
<1>1. DOMAIN edges = 1 .. Len(edges) /\ \A k \in 1 .. Len(edges) : edges[k].kind \in Kinds
  BY GraphSizes
<1>2. ASSUME j \in Reached(i)
      PROVE  i \in Origins(j)
  <2>1. PICK kind \in Kinds : /\ TargetAt(i, kind) \in AddressesIndexed
                              /\ j = IndexOfAddr(TargetAt(i, kind))
    BY <1>2 DEF Reached
  <2>2. PICK k \in 1 .. Len(edges) : edges[k].from = i /\ edges[k].kind = kind
    BY <2>1 DEF GraphInv, EdgesKept
  <2>3. edges[k].to = j
    BY <2>1, <2>2 DEF GraphInv, EdgesKept, EdgeIsTrue
  <2> QED
    BY <1>1, <2>2, <2>3 DEF Origins
<1>3. ASSUME i \in Origins(j)
      PROVE  j \in Reached(i)
  <2>1. PICK k \in 1 .. Len(edges) : edges[k].from = i /\ edges[k].to = j
    BY <1>1, <1>3 DEF Origins
  <2>2. EdgeIsTrue(edges[k], Len(successors)) /\ edges[k].kind \in Kinds
    BY <1>1 DEF GraphInv, EdgesKept
  <2> QED
    BY <2>1, <2>2 DEF Reached, EdgeIsTrue
<1> QED
  BY <1>2, <1>3

LEMMA GraphTypes ==
  ASSUME GraphInv
  PROVE  GraphTypeOK
<1> HIDE DEF Sorted
<1> DEFINE L == Len(blocks)
<1>1. DOMAIN blocks = 1 .. L /\ DOMAIN successors = 1 .. Len(successors) /\ L \in Nat
  BY GraphSizes
<1>2. \A i \in DOMAIN successors : successors[i] \in Seq(DOMAIN blocks)
  <2> TAKE i \in DOMAIN successors
  <2>1. successors[i] = Sorted(Reached(i))
    BY <1>1 DEF GraphInv, NeighboursKept
  <2>2. /\ Reached(i) \subseteq DOMAIN blocks /\ Reached(i) \subseteq Nat
        /\ IsFiniteSet(Reached(i))
    BY <1>1, ReachedAreBlocks DEF GraphInv, GraphShape
  <2>3. Sorted(Reached(i)) \in Seq(Reached(i))
    BY <2>2, SortedIs
  <2>4. Sorted(Reached(i)) \in Seq(DOMAIN blocks)
    BY <2>2, <2>3, SeqMonotonic
  <2> QED
    BY <2>1, <2>4
<1>3. \A i \in DOMAIN predecessors : predecessors[i] \in Seq(DOMAIN blocks)
  <2> SUFFICES ASSUME NEW i \in DOMAIN predecessors
               PROVE  predecessors[i] \in Seq(DOMAIN blocks)
    OBVIOUS
  <2>1. CASE fgPc = "shown"
    <3>1. predecessors[i] = Sorted(Origins(i))
      <4>1. predecessors = [j \in DOMAIN blocks |-> Sorted(Origins(j))]
        BY <2>1 DEF GraphInv, NeighboursKept, Origins
      <4> QED
        BY <4>1
    <3>2. /\ Origins(i) \subseteq DOMAIN blocks /\ Origins(i) \subseteq Nat
          /\ IsFiniteSet(Origins(i))
      BY <1>1, OriginsAreBlocks
    <3>3. Sorted(Origins(i)) \in Seq(Origins(i))
      BY <3>2, SortedIs
    <3>4. Sorted(Origins(i)) \in Seq(DOMAIN blocks)
      BY <3>2, <3>3, SeqMonotonic
    <3> QED
      BY <3>1, <3>4
  <2>2. CASE fgPc # "shown"
    <3>1. predecessors = <<>>
      BY <2>2 DEF GraphInv, GraphShape
    <3> QED
      BY <3>1
  <2> QED
    BY <2>1, <2>2
<1> QED
  BY <1>2, <1>3 DEF GraphTypeOK, GraphInv, GraphShape

LEMMA NeighboursMirror ==
  ASSUME GraphInv
  PROVE  PredecessorsMirror
<1> SUFFICES ASSUME fgPc = "shown" PROVE PredecessorsMirror
  BY DEF PredecessorsMirror
<1> HIDE DEF Sorted, Ascending
<1>1. DOMAIN blocks = 1 .. Len(blocks) /\ Len(successors) = Len(blocks)
  BY GraphSizes DEF GraphInv, GraphShape
<1>2. ASSUME NEW i \in DOMAIN blocks
      PROVE  /\ Ascending(successors[i]) /\ Ascending(predecessors[i])
             /\ \A j : j \in Reached(i) <=> \E k \in DOMAIN successors[i] : successors[i][k] = j
             /\ \A j : j \in Origins(i) <=> \E k \in DOMAIN predecessors[i] : predecessors[i][k] = j
  <2>1. successors[i] = Sorted(Reached(i))
    BY <1>1 DEF GraphInv, NeighboursKept
  <2>2. predecessors[i] = Sorted(Origins(i))
    <3>1. predecessors = [j \in DOMAIN blocks |-> Sorted(Origins(j))]
      BY DEF GraphInv, NeighboursKept, Origins
    <3> QED
      BY <3>1
  <2>3. /\ Reached(i) \subseteq Nat /\ IsFiniteSet(Reached(i))
        /\ Origins(i) \subseteq Nat /\ IsFiniteSet(Origins(i))
    BY ReachedAreBlocks, OriginsAreBlocks DEF GraphInv, GraphShape
  <2>4. /\ Ascending(Sorted(Reached(i)))
        /\ \A j : j \in Reached(i) <=> \E k \in DOMAIN Sorted(Reached(i)) : Sorted(Reached(i))[k] = j
    BY <2>3, SortedIs
  <2>5. /\ Ascending(Sorted(Origins(i)))
        /\ \A j : j \in Origins(i) <=> \E k \in DOMAIN Sorted(Origins(i)) : Sorted(Origins(i))[k] = j
    BY <2>3, SortedIs
  <2> QED
    BY <2>1, <2>2, <2>4, <2>5
<1>3. \A i, j \in DOMAIN blocks : j \in Reached(i) <=> i \in Origins(j)
  BY <1>1, ReachedByEdges
<1> QED
  BY <1>2, <1>3 DEF PredecessorsMirror

LEMMA EdgesLead ==
  ASSUME GraphInv
  PROVE  EdgesReachTheirTarget
<1>1. /\ DOMAIN blocks = 1 .. Len(blocks) /\ DOMAIN edges = 1 .. Len(edges)
      /\ DOMAIN successors = 1 .. Len(successors) /\ blocks \in Seq(Blocks)
      /\ \A k \in 1 .. Len(edges) : edges[k].kind \in Kinds
  BY GraphSizes DEF GraphInv, GraphShape
<1>2. \A k \in DOMAIN edges : blocks[edges[k].to].addr = edges[k].target
  BY <1>1, IndexIsABlock DEF GraphInv, EdgesKept, EdgeIsTrue
<1>3. ASSUME NEW i \in DOMAIN successors, NEW kind \in {"jump", "fail"}
      PROVE  (\E j \in DOMAIN blocks : blocks[j].addr = TargetAt(i, kind)) <=>
               \E k \in DOMAIN edges : edges[k].from = i /\ edges[k].kind = kind
  <2>1. (\E j \in DOMAIN blocks : blocks[j].addr = TargetAt(i, kind))
          <=> TargetAt(i, kind) \in AddressesIndexed
    BY DEF AddressesIndexed
  <2>2. TargetAt(i, kind) \in AddressesIndexed =>
          \E k \in DOMAIN edges : edges[k].from = i /\ edges[k].kind = kind
    BY <1>1 DEF GraphInv, EdgesKept, Kinds
  <2>3. \A k \in DOMAIN edges : edges[k].from = i /\ edges[k].kind = kind =>
          TargetAt(i, kind) \in AddressesIndexed
    BY <1>1 DEF GraphInv, EdgesKept, EdgeIsTrue
  <2> QED
    BY <2>1, <2>2, <2>3
<1> QED
  BY <1>2, <1>3 DEF EdgesReachTheirTarget, TargetAt

LEMMA CountsAgree ==
  ASSUME GraphInv
  PROVE  ComplexityAgrees
<1> DEFINE L == Len(blocks)
           D == DOMAIN blocks
           J == {i \in D : blocks[i].jump # NoTarget}
           F == {i \in D : blocks[i].fail # NoTarget}
           outside(t) == t # NoTarget /\ \A j \in D : blocks[j].addr # t
           OJ == {i \in D : outside(blocks[i].jump)}
           OF == {i \in D : outside(blocks[i].fail)}
<1> SUFFICES ASSUME fgPc = "shown" PROVE ComplexityAgrees
  BY DEF ComplexityAgrees
<1>1. D = 1 .. L /\ L \in Nat /\ Len(successors) = L /\ IsFiniteSet(D) /\ Cardinality(D) = L
  <2>1. D = 1 .. L /\ L \in Nat /\ Len(successors) = L
    BY GraphSizes DEF GraphInv, GraphShape
  <2> HIDE DEF D, L
  <2>2. IsFiniteSet(1 .. L) /\ Cardinality(1 .. L) = L
    BY <2>1, FS_Interval
  <2> QED
    BY <2>1, <2>2
<1>2. /\ J \subseteq D /\ F \subseteq D /\ OJ \subseteq J /\ OF \subseteq F
      /\ BranchBlocks = J \cap F /\ ExitBlocks = D \ (J \cup F)
      /\ EdgeCount = Cardinality(J) + Cardinality(F)
  BY DEF BranchBlocks, ExitBlocks, EdgeCount
<1>3. /\ Inner("jump", L) = J \ OJ /\ Inner("fail", L) = F \ OF
  <2>1. NoTarget \notin AddressesIndexed
    BY FunctionGraphAssumption, IndexIsABlock DEF GraphInv, GraphShape
  <2>2. \A t : t \in AddressesIndexed <=> (t # NoTarget /\ ~ outside(t))
    BY <2>1 DEF AddressesIndexed
  <2> QED
    BY <1>1, <2>2 DEF Inner, TargetAt
<1>4. Len(edges) = Cardinality(Inner("jump", L)) + Cardinality(Inner("fail", L))
  BY <1>1 DEF GraphInv, EdgesKept
<1>9. (blocks = <<>> <=> L = 0)
  BY EmptySeq, LenProperties DEF GraphInv, GraphShape
<1> HIDE DEF J, F, OJ, OF, D, L, outside
<1>5. /\ IsFiniteSet(J) /\ IsFiniteSet(F) /\ IsFiniteSet(J \cup F)
      /\ Cardinality(J) \in Nat /\ Cardinality(F) \in Nat /\ Cardinality(J \cup F) \in Nat
      /\ Cardinality(J \cup F) = Cardinality(J) + Cardinality(F) - Cardinality(J \cap F)
      /\ Cardinality(J \cap F) \in Nat
  <2>1. IsFiniteSet(J) /\ IsFiniteSet(F)
    BY <1>1, <1>2, FS_Subset
  <2>2. /\ IsFiniteSet(J \cup F) /\ IsFiniteSet(J \cap F)
        /\ Cardinality(J \cup F) = Cardinality(J) + Cardinality(F) - Cardinality(J \cap F)
    BY <2>1, FS_Union, FS_Intersection
  <2> QED
    BY <2>1, <2>2, FS_CardinalityType
<1>6. Cardinality(ExitBlocks) = L - Cardinality(J \cup F)
  <2>1. D \cap (J \cup F) = J \cup F
    BY <1>2
  <2>2. Cardinality(D \ (J \cup F)) = Cardinality(D) - Cardinality(D \cap (J \cup F))
    BY <1>1, FS_Difference
  <2> QED
    BY <1>1, <1>2, <2>1, <2>2
<1>7. /\ Cardinality(J \ OJ) = Cardinality(J) - Cardinality(OJ)
      /\ Cardinality(F \ OF) = Cardinality(F) - Cardinality(OF)
      /\ Cardinality(OJ) \in Nat /\ Cardinality(OF) \in Nat
  <2>1. J \cap OJ = OJ /\ F \cap OF = OF
    BY <1>2
  <2>2. /\ Cardinality(J \ OJ) = Cardinality(J) - Cardinality(J \cap OJ)
        /\ Cardinality(F \ OF) = Cardinality(F) - Cardinality(F \cap OF)
    BY <1>5, FS_Difference
  <2>3. IsFiniteSet(OJ) /\ IsFiniteSet(OF)
    BY <1>2, <1>5, FS_Subset
  <2>4. Cardinality(OJ) \in Nat /\ Cardinality(OF) \in Nat
    BY <2>3, FS_CardinalityType
  <2> QED
    BY <2>1, <2>2, <2>4
<1> DEFINE a == Cardinality(J)  b == Cardinality(F)  c == Cardinality(J \cap F)
           u == Cardinality(J \cup F)  x == Cardinality(ExitBlocks)
           oj == Cardinality(OJ)  of == Cardinality(OF)  e == Len(edges)
<1>8. /\ a \in Nat /\ b \in Nat /\ c \in Nat /\ u \in Nat /\ oj \in Nat /\ of \in Nat /\ L \in Nat
      /\ u = a + b - c /\ x = L - u /\ e = (a - oj) + (b - of)
      /\ EdgeCount = a + b /\ Cardinality(BranchBlocks) = c
  BY <1>1, <1>2, <1>3, <1>4, <1>5, <1>6, <1>7
<1> HIDE DEF a, b, c, u, x, oj, of, e
<1>10. EdgeCount - L + 2 = c - x + 2 /\ EdgeCount - e = oj + of
  BY <1>8
<1>11. blocks # <<>> => CyclomaticComplexity
                     = Cardinality(BranchBlocks) - Cardinality(ExitBlocks) + 2
  BY <1>8, <1>10 DEF CyclomaticComplexity, L, x
<1>12. EdgeCount - Len(edges) = Cardinality(OJ) + Cardinality(OF)
  BY <1>10 DEF e, oj, of
<1> QED
  BY <1>11, <1>12 DEF ComplexityAgrees, OJ, OF, outside, D

LEMMA GraphIsSound ==
  ASSUME GraphInv
  PROVE  GraphTypeOK /\ PredecessorsMirror /\ EdgesReachTheirTarget /\ ComplexityAgrees
  BY GraphTypes, NeighboursMirror, EdgesLead, CountsAgree

-----------------------------------------------------------------------------
(* The queries together                                                    *)

QueryInv ==
  GlobInv /\ MapDone /\ PagesInv /\ FindInv /\ GraphInv /\ AnalysisInv

(* One query moves and the others rest. *)
LEMMA OneQueryMoves ==
  ASSUME [QueryNext]_queryVars
  PROVE  /\ [GlobNext]_gmVars /\ [MapNext]_amVars /\ [PagesNext]_pgVars
         /\ [FindNext]_fdVars /\ [GraphNext]_fgVars /\ [AnalysisNext]_faVars
<1>1. CASE CallQuery \/ UNCHANGED queryVars
  BY <1>1 DEF CallQuery, queryVars
<1>2. CASE RunQuery
  <2>1. [GlobNext]_gmVars
    BY <1>2 DEF RunQuery, PartOf, Rests
  <2>2. [MapNext]_amVars
    BY <1>2 DEF RunQuery, PartOf, Rests
  <2>3. [PagesNext]_pgVars
    BY <1>2 DEF RunQuery, PartOf, Rests
  <2>4. [FindNext]_fdVars
    BY <1>2 DEF RunQuery, PartOf, Rests
  <2>5. [GraphNext]_fgVars
    BY <1>2 DEF RunQuery, PartOf, Rests
  <2>6. [AnalysisNext]_faVars
    BY <1>2 DEF RunQuery, PartOf, Rests
  <2> QED
    BY <2>1, <2>2, <2>3, <2>4, <2>5, <2>6
<1> QED
  BY <1>1, <1>2 DEF QueryNext

LEMMA QueryInvIsKept ==
  QueryInv /\ [QueryNext]_queryVars => QueryInv'
<1> SUFFICES ASSUME QueryInv, [QueryNext]_queryVars PROVE QueryInv'
  OBVIOUS
<1>1. GlobInv'
  BY OneQueryMoves, GlobNextInv DEF QueryInv
<1>2. MapDone'
  BY OneQueryMoves, MapNextInv DEF QueryInv
<1>3. PagesInv'
  BY OneQueryMoves, PagesNextInv DEF QueryInv
<1>4. FindInv'
  BY OneQueryMoves, FindNextInv DEF QueryInv
<1>5. GraphInv'
  BY OneQueryMoves, GraphNextInv DEF QueryInv
<1>6. AnalysisInv'
  BY OneQueryMoves, AnalysisNextInv DEF QueryInv
<1> QED
  BY <1>1, <1>2, <1>3, <1>4, <1>5, <1>6 DEF QueryInv

(* The invariants of the six queries are one of the tools together: a      *)
(* request moves one query and leaves the others where they are.           *)
THEOREM QueriesKeepTheirInvariants == QuerySpec => []QueryInv
<1>1. QueryInit => QueryInv
  BY GlobInitInv, MapInitInv, PagesInitInv, FindInitInv, GraphInitInv, AnalysisInitInv
     DEF QueryInit, QueryInv
<1> QED
  BY <1>1, QueryInvIsKept, PTL DEF QuerySpec

(* QueriesTypeOK: the state of every query, with the limits the code puts  *)
(* on pages, hits, callers and stars.                                      *)
THEOREM QueriesAreTyped == QuerySpec => []QueriesTypeOK
<1>1. QueryInv => QueriesTypeOK
  <2> SUFFICES ASSUME QueryInv PROVE QueriesTypeOK
    OBVIOUS
  <2>1. GlobTypeOK /\ FindTypeOK /\ PagesTypeOK /\ MapTypeOK
    BY DEF QueryInv, GlobInv, FindInv, PagesInv, MapDone
  <2>2. GraphTypeOK /\ AnalysisTypeOK
    BY GraphIsSound, AnalysisIsSound DEF QueryInv
  <2> QED
    BY <2>1, <2>2 DEF QueriesTypeOK
<1> QED
  BY <1>1, QueriesKeepTheirInvariants, PTL

(* GlobDecides: for every pattern and every name without a *, the loop of  *)
(* glob_match with its one remembered star decides what the glob means.    *)
THEOREM GlobIsDecided == QuerySpec => []GlobDecides
<1>1. QueryInv => GlobDecides
  BY DEF QueryInv, GlobInv, GlobDecides
<1> QED
  BY <1>1, QueriesKeepTheirInvariants, PTL

(* ListsAreWhole: the hits of r2_find_xrefs are the first matches in order *)
(* with none skipped, exact means whole for every hit radare2 answered     *)
(* about, and an analysis names each callee and each string once and       *)
(* counts every callee, of which it shows the first and leaves some out    *)
(* only above MAX_NEIGHBOURS, whatever radare2 lists.                      *)
THEOREM ListsAreWholeAlways == QuerySpec => []ListsAreWhole
<1>1. QueryInv => ListsAreWhole
  BY AnalysisIsSound DEF QueryInv, FindInv, ListsAreWhole
<1> QED
  BY <1>1, QueriesKeepTheirInvariants, PTL

(* FailuresAreTold: what is missing from an answer is missing for a call   *)
(* that failed, only a required one fails the whole, pdg's code is given   *)
(* whenever it is code, and a text with "Cannot" in it passes for code     *)
(* only when pdd printed it, whichever calls fail or time out.             *)
THEOREM FailuresAreToldAlways == QuerySpec => []FailuresAreTold
<1>1. QueryInv => FailuresAreTold
  <2> SUFFICES ASSUME QueryInv PROVE FailuresAreTold
    OBVIOUS
  <2>1. OnlyTheSearchFails
    BY DEF QueryInv, FindInv, OnlyTheSearchFails
  <2> QED
    BY <2>1, AnalysisIsSound DEF QueryInv, FailuresAreTold
<1> QED
  BY <1>1, QueriesKeepTheirInvariants, PTL

(* PagesAddUp: a client that follows truncated sees every row that passes  *)
(* the filters once, in order, for lists, limits and offsets of any size.  *)
THEOREM PagesAddUpAlways == QuerySpec => []PagesAddUp
<1>1. QueryInv => PagesAddUp
  BY DEF QueryInv, PagesInv, PagesAddUp
<1> QED
  BY <1>1, QueriesKeepTheirInvariants, PTL

(* GraphAgrees: edges, successors, predecessors and the counts of both     *)
(* files tell of one graph, for any list of blocks.                        *)
THEOREM GraphAgreesAlways == QuerySpec => []GraphAgrees
<1>1. QueryInv => GraphAgrees
  BY GraphIsSound DEF QueryInv, GraphAgrees
<1> QED
  BY <1>1, QueriesKeepTheirInvariants, PTL

(* OffsetKeepsDistance: an address is mapped to the file at the distance   *)
(* from its section's start it has in memory, for any sections.            *)
THEOREM OffsetKeepsDistanceAlways == QuerySpec => []OffsetKeepsDistance
<1>1. QueryInv => OffsetKeepsDistance
  BY DEF QueryInv, MapDone
<1> QED
  BY <1>1, QueriesKeepTheirInvariants, PTL

-----------------------------------------------------------------------------
(* What is left of a loop: the measures behind QueriesEnd                  *)

(***************************************************************************)
(* The cost of glob_match, which QueriesEnd has no word for: as long as    *)
(* the loop goes on every turn of it leaves less of GlobLeft, so going     *)
(* back to a star over and over takes at most (n + 1) * (m + 1) turns for a *)
(* text of n and a pattern of m characters, and never exponentially many.  *)
(***************************************************************************)
GlobLeft == (Len(text) - starT) * (Len(pattern) + 1) + (Len(pattern) - pi)

GlobGetsOn ==
  (gmPc = "match" /\ gmPc' = "match") => GlobLeft' < GlobLeft

(* What is left is never more than text and pattern multiplied.            *)
GlobIsQuadratic ==
  GlobLeft \in 0 .. (Len(text) + 1) * (Len(pattern) + 1)

(* Two counts, the first weighted, as one: its bound, and when it falls.   *)
LEMMA ProductBound ==
  ASSUME NEW a \in Nat, NEW b \in Nat, NEW s \in 0 .. a, NEW p \in 0 .. b
  PROVE  (a - s) * (b + 1) + (b - p) \in 0 .. (a + 1) * (b + 1)
<1>1. (a - s) * (b + 1) = a * (b + 1) - s * (b + 1)
  OBVIOUS
<1>2. (a + 1) * (b + 1) = a * (b + 1) + (b + 1)
  OBVIOUS
<1>3. s * (b + 1) \in Nat /\ (a - s) * (b + 1) \in Nat /\ a * (b + 1) \in Nat
  OBVIOUS
<1> QED
  BY <1>1, <1>2, <1>3

LEMMA ProductFalls ==
  ASSUME NEW a \in Nat, NEW b \in Nat, NEW s \in 0 .. a, NEW t \in 0 .. a,
         NEW p \in 0 .. b, NEW q \in 0 .. b, s < t \/ (s = t /\ p < q)
  PROVE  (a - t) * (b + 1) + (b - q) < (a - s) * (b + 1) + (b - p)
<1>1. CASE s = t /\ p < q
  <2>1. (a - s) * (b + 1) \in Int
    OBVIOUS
  <2> QED
    BY <1>1, <2>1
<1>2. CASE s < t
  <2> DEFINE d == t - s
  <2>1. d \in Nat /\ d >= 1
    BY <1>2
  <2>2. (a - s) * (b + 1) = (a - t) * (b + 1) + d * (b + 1)
    OBVIOUS
  <2>3. d * (b + 1) = (b + 1) + (d - 1) * (b + 1)
    OBVIOUS
  <2>4. (d - 1) * (b + 1) \in Nat
    BY <2>1
  <2>5. (a - t) * (b + 1) \in Int /\ d * (b + 1) \in Int
    OBVIOUS
  <2> QED
    BY <2>2, <2>3, <2>4, <2>5
<1> QED
  BY <1>1, <1>2

(* What is left of the loop, with the places of its invariant.             *)
LEMMA GlobBound ==
  ASSUME GlobInv
  PROVE  GlobIsQuadratic
<1>1. /\ Len(text) \in Nat /\ Len(pattern) \in Nat
      /\ starT \in 0 .. Len(text) /\ pi \in 0 .. Len(pattern)
  BY DEF GlobInv, GlobTypeOK
<1> QED
  BY <1>1, ProductBound DEF GlobIsQuadratic, GlobLeft

(* A star met or gone back to is tried further on in the text, or the     *)
(* pattern is further on with the star where it was.                       *)
LEMMA GlobStepGetsOn ==
  ASSUME GlobInv, GlobInv', GlobNext
  PROVE  GlobGetsOn
<1> SUFFICES ASSUME gmPc = "match", gmPc' = "match"
             PROVE  GlobLeft' < GlobLeft
  BY DEF GlobGetsOn
<1>1. UNCHANGED <<pattern, text>>
  BY DEF GlobNext, GlobStart, GlobStep, MatchChar, MeetStar, BackToStar, Mismatch, TextEnds
<1>2. /\ Len(text) \in Nat /\ Len(pattern) \in Nat
      /\ starT \in 0 .. Len(text) /\ pi \in 0 .. Len(pattern)
      /\ starT \in 0 .. ti
      /\ starT' \in 0 .. Len(text) /\ pi' \in 0 .. Len(pattern)
  BY <1>1 DEF GlobInv, GlobTypeOK
<1>3. starT < starT' \/ (starT = starT' /\ pi < pi')
  <2>1. CASE MatchChar
    BY <1>2, <2>1 DEF MatchChar
  <2>2. CASE MeetStar
    BY <1>2, <2>2 DEF MeetStar
  <2>3. CASE BackToStar
    BY <1>2, <2>3 DEF BackToStar
  <2> QED
    BY <2>1, <2>2, <2>3 DEF GlobNext, GlobStart, GlobStep, Mismatch, TextEnds
<1>4. (Len(text) - starT') * (Len(pattern) + 1) + (Len(pattern) - pi')
        < (Len(text) - starT) * (Len(pattern) + 1) + (Len(pattern) - pi)
  BY <1>2, <1>3, ProductFalls
<1> QED
  BY <1>1, <1>4 DEF GlobLeft

(* glob_match takes at most (n + 1) * (m + 1) turns, for every name of n   *)
(* and every pattern of m characters.                                      *)
THEOREM GlobTakesQuadraticTime ==
  QuerySpec => []GlobIsQuadratic /\ [][GlobGetsOn]_gmVars
<1>1. QueryInv /\ QueryInv' /\ [QueryNext]_queryVars => [GlobGetsOn]_gmVars
  BY OneQueryMoves, GlobStepGetsOn DEF QueryInv
<1>2. QueryInv => GlobIsQuadratic
  BY GlobBound DEF QueryInv
<1> QED
  BY <1>1, <1>2, QueriesKeepTheirInvariants, PTL DEF QuerySpec

(***************************************************************************)
(* The cost of following truncated: a page that announces more moved the   *)
(* client's offset on, by the limit it asked for, and not past the end of  *)
(* what the tool lists.  A client who asks on is never answered the same   *)
(* page twice, and an inventory that stays what it was takes at most as    *)
(* many pages as it has rows.                                              *)
(***************************************************************************)
PagesGetOn ==
  (pages' # pages /\ pgPc' = "ask") =>
    /\ offset' = offset + pageLimit /\ offset < offset'
    /\ offset' < Len(Filtered(mode, rows))

(* A page that announces more is full, and ends before the list does.      *)
LEMMA TruncatedGetsOn ==
  ASSUME PagesInv, PagesNext
  PROVE  PagesGetOn
<1> DEFINE all  == Filtered(mode, rows)
           page == IF Paginates(mode)
                   THEN PaginateWithCounts(all, offset, pageLimit)
                   ELSE [offset |-> 0, rows |-> all, total |-> Len(all),
                         returned |-> Len(all), truncated |-> FALSE]
<1> SUFFICES ASSUME pages' # pages, pgPc' = "ask"
             PROVE  /\ offset' = offset + pageLimit /\ offset < offset'
                    /\ offset' < Len(all)
  BY DEF PagesGetOn
<1>1. CASE AskPage
  <2>1. /\ offset' = offset + page.returned /\ page.truncated
        /\ rows \in Seq(Row) /\ offset \in Nat /\ pageLimit \in Nat /\ pgPc = "ask"
    BY <1>1 DEF AskPage, PagesInv, PagesShape
  <2>2. page = PaginateWithCounts(all, offset, pageLimit)
    BY <2>1
  <2>3. all \in Seq(Row)
    BY <2>1, FilteredIsSeq
  <2> HIDE DEF all, page
  <2>4. /\ page.offset = offset /\ page.total = Len(all)
        /\ page.truncated <=> pageLimit # 0 /\ offset + page.returned < page.total
        /\ page.truncated => page.returned = pageLimit
    BY <2>1, <2>2, <2>3, PageOfList
  <2> QED
    BY <2>1, <2>4
<1>2. CASE PagesStart \/ PageFails \/ InventoryChanges
  BY <1>2 DEF PagesStart, PageFails, InventoryChanges
<1> QED
  BY <1>1, <1>2 DEF PagesNext

(* Following truncated never asks for a page in vain, for every inventory, *)
(* limit and first offset, also when the inventory changes on the way.     *)
THEOREM TruncatedPagesGetOn == QuerySpec => [][PagesGetOn]_pgVars
<1>1. QueryInv /\ [QueryNext]_queryVars => [PagesGetOn]_pgVars
  BY OneQueryMoves, TruncatedGetsOn DEF QueryInv
<1> QED
  BY <1>1, QueriesKeepTheirInvariants, PTL DEF QuerySpec

=============================================================================
