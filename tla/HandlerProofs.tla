---------------------------- MODULE HandlerProofs ----------------------------
(***************************************************************************)
(* Proofs about the handlers' shared state, for any requests: AsmOverride  *)
(* for any settings, OutputGuard for any files and expiry, ExtractBytes    *)
(* for any paths and contents and whatever the file system refuses; and    *)
(* about HandlerSteps, which lets them all run.                            *)
(***************************************************************************)
EXTENDS HandlerSteps, SequenceTheorems, TLAPS

-----------------------------------------------------------------------------
(***************************************************************************)
(* AsmOverride: a handler decodes with the settings it asked for.          *)
(***************************************************************************)

(* The order in which handlers make their steps. *)
Rank(s) == CASE s = "e asm.arch"     -> 1
             [] s = "set asm.arch"   -> 2
             [] s = "e asm.bits"     -> 3
             [] s = "set asm.bits"   -> 4
             [] s = "pdj"            -> 5
             [] s = "reset asm.bits" -> 6
             [] s = "reset asm.arch" -> 7

Elements(seq) == {seq[i] : i \in 1 .. Len(seq)}

InOrder(seq) ==
  \A i, j \in 1 .. Len(seq) : i < j => Rank(seq[i]) < Rank(seq[j])

NeedOf(w) ==
  {"pdj"} \cup {s \in Steps : \E f \in Fields :
                  /\ w[f] # Unset
                  /\ s \in {ReadStep[f], SetStep[f], ResetStep[f]}}

(* Where the steps of each setting stand. *)
LEMMA FieldRanks ==
  /\ "pdj" \in Steps /\ Rank("pdj") = 5
  /\ \A f \in Fields :
       /\ ReadStep[f] \in Steps /\ SetStep[f] \in Steps /\ ResetStep[f] \in Steps
       /\ Rank(ReadStep[f]) \in {1, 3}
       /\ Rank(SetStep[f]) = Rank(ReadStep[f]) + 1
       /\ Rank(ResetStep[f]) \in {6, 7}
  /\ \A f, g \in Fields : f # g => /\ Rank(ReadStep[f]) # Rank(ReadStep[g])
                                   /\ Rank(ResetStep[f]) # Rank(ResetStep[g])
<1>1. "pdj" \in Steps /\ Rank("pdj") = 5
  BY DEF Steps, Rank
<1>2. ASSUME NEW f \in Fields
      PROVE  ReadStep[f] \in Steps /\ SetStep[f] \in Steps /\ ResetStep[f] \in Steps
  BY DEF Steps
<1>3. /\ Rank(ReadStep["arch"]) = 1 /\ Rank(ReadStep["bits"]) = 3
      /\ Rank(SetStep["arch"]) = 2 /\ Rank(SetStep["bits"]) = 4
      /\ Rank(ResetStep["arch"]) = 7 /\ Rank(ResetStep["bits"]) = 6
  BY DEF Rank, ReadStep, SetStep, ResetStep
<1>4. \A f \in Fields : f = "arch" \/ f = "bits"
  BY DEF Fields
<1>5. ASSUME NEW f \in Fields
      PROVE  /\ Rank(ReadStep[f]) \in {1, 3}
             /\ Rank(SetStep[f]) = Rank(ReadStep[f]) + 1
             /\ Rank(ResetStep[f]) \in {6, 7}
  BY <1>3, <1>4
<1>6. ASSUME NEW f \in Fields, NEW g \in Fields, f # g
      PROVE  /\ Rank(ReadStep[f]) # Rank(ReadStep[g])
             /\ Rank(ResetStep[f]) # Rank(ResetStep[g])
  BY <1>3, <1>4, <1>6
<1> QED
  BY <1>1, <1>2, <1>5, <1>6

(* A program put together from parts whose steps follow one another. *)
Part(seq, lo, hi) ==
  /\ seq \in Seq(Steps)
  /\ InOrder(seq)
  /\ \A s \in Elements(seq) : lo <= Rank(s) /\ Rank(s) <= hi

(* Two parts make a part, if the one ends before the other begins. *)
LEMMA Parts ==
  ASSUME NEW lo \in Int, NEW mid \in Int, NEW next \in Int, NEW hi \in Int,
         lo <= mid, mid < next, next <= hi,
         NEW s, NEW t, Part(s, lo, mid), Part(t, next, hi),
         \A x \in Steps : Rank(x) \in Int
  PROVE  Part(s \o t, lo, hi) /\ Elements(s \o t) = Elements(s) \cup Elements(t)
<1>1. /\ s \in Seq(Steps) /\ t \in Seq(Steps)
      /\ s \o t \in Seq(Steps)
      /\ Len(s) \in Nat /\ Len(t) \in Nat
      /\ Len(s \o t) = Len(s) + Len(t)
      /\ \A i \in 1 .. Len(s) + Len(t) :
           (s \o t)[i] = IF i <= Len(s) THEN s[i] ELSE t[i - Len(s)]
  BY ConcatProperties, LenProperties DEF Part
<1>2. \A s1 \in Steps : Rank(s1) \in Int
  OBVIOUS
<1>3. /\ \A i \in 1 .. Len(s) : /\ s[i] \in Steps /\ Rank(s[i]) \in Int
                                /\ lo <= Rank(s[i]) /\ Rank(s[i]) <= mid
      /\ \A i \in 1 .. Len(t) : /\ t[i] \in Steps /\ Rank(t[i]) \in Int
                                /\ next <= Rank(t[i]) /\ Rank(t[i]) <= hi
  BY <1>1, ElementOfSeq DEF Part, Elements
<1> DEFINE both == s \o t
<1>4. ASSUME NEW i \in 1 .. Len(s) + Len(t)
      PROVE  \/ i \in 1 .. Len(s) /\ both[i] = s[i]
             \/ i - Len(s) \in 1 .. Len(t) /\ both[i] = t[i - Len(s)]
                /\ i > Len(s)
  BY <1>1
<1>5. Elements(both) = Elements(s) \cup Elements(t)
  <2>1. ASSUME NEW x \in Elements(both)
        PROVE  x \in Elements(s) \cup Elements(t)
    BY <1>1, <1>4 DEF Elements
  <2>2. ASSUME NEW i \in 1 .. Len(s) PROVE s[i] \in Elements(both)
    <3>1. i \in 1 .. Len(both) /\ both[i] = s[i]
      BY <1>1
    <3> QED
      BY <3>1 DEF Elements
  <2>3. ASSUME NEW i \in 1 .. Len(t) PROVE t[i] \in Elements(both)
    <3>1. /\ Len(s) + i \in 1 .. Len(both)
          /\ ~ (Len(s) + i <= Len(s)) /\ (Len(s) + i) - Len(s) = i
      BY <1>1
    <3>2. both[Len(s) + i] = t[i]
      BY <1>1, <3>1
    <3> QED
      BY <3>1, <3>2 DEF Elements
  <2>4. Elements(s) \cup Elements(t) \subseteq Elements(both)
    BY <2>2, <2>3 DEF Elements
  <2> QED
    BY <2>1, <2>4
<1>6. InOrder(both)
  <2> SUFFICES ASSUME NEW i \in 1 .. Len(s) + Len(t),
                      NEW j \in 1 .. Len(s) + Len(t), i < j
               PROVE  Rank(both[i]) < Rank(both[j])
    BY <1>1 DEF InOrder
  <2>1. CASE j \in 1 .. Len(s)
    <3>1. i \in 1 .. Len(s) /\ both[i] = s[i] /\ both[j] = s[j]
      BY <1>1, <2>1
    <3> QED
      BY <2>1, <3>1 DEF Part, InOrder
  <2>2. CASE i - Len(s) \in 1 .. Len(t)
    <3>1. /\ j - Len(s) \in 1 .. Len(t) /\ i - Len(s) < j - Len(s)
          /\ i \notin 1 .. Len(s) /\ j \notin 1 .. Len(s)
      BY <1>1, <2>2
    <3>2. both[i] = t[i - Len(s)]
      BY <1>4, <3>1
    <3>3. both[j] = t[j - Len(s)]
      BY <1>4, <3>1
    <3> QED
      BY <2>2, <3>1, <3>2, <3>3 DEF Part, InOrder
  <2>3. CASE i \in 1 .. Len(s) /\ j - Len(s) \in 1 .. Len(t)
    <3>1. both[i] = s[i] /\ both[j] = t[j - Len(s)]
      BY <1>1, <2>3
    <3> QED
      BY <1>3, <2>3, <3>1
  <2> QED
    BY <1>4, <2>1, <2>2, <2>3
<1>7. \A x \in Elements(both) : lo <= Rank(x) /\ Rank(x) <= hi
  BY <1>3, <1>5 DEF Elements
<1> QED
  BY <1>1, <1>5, <1>6, <1>7 DEF Part

(* Two steps, one after the other, if a setting is overridden; one; none. *)
LEMMA SmallParts ==
  ASSUME NEW lo \in Int, NEW hi \in Int,
         \A x \in Steps : Rank(x) \in Int
  PROVE  /\ Part(<<>>, lo, hi) /\ Elements(<<>>) = {}
         /\ \A a \in Steps :
              /\ Elements(<<a>>) = {a}
              /\ lo <= Rank(a) /\ Rank(a) <= hi => Part(<<a>>, lo, hi)
         /\ \A a, b \in Steps :
              /\ Elements(<<a, b>>) = {a, b}
              /\ lo <= Rank(a) /\ Rank(a) < Rank(b) /\ Rank(b) <= hi
                   => Part(<<a, b>>, lo, hi)
<1>1. Part(<<>>, lo, hi) /\ Elements(<<>>) = {}
  BY DEF Part, Elements, InOrder
<1>2. ASSUME NEW a \in Steps
      PROVE  /\ Elements(<<a>>) = {a}
             /\ lo <= Rank(a) /\ Rank(a) <= hi => Part(<<a>>, lo, hi)
  BY DEF Part, Elements, InOrder
<1>3. ASSUME NEW a \in Steps, NEW b \in Steps
      PROVE  /\ Elements(<<a, b>>) = {a, b}
             /\ lo <= Rank(a) /\ Rank(a) < Rank(b) /\ Rank(b) <= hi
                  => Part(<<a, b>>, lo, hi)
  <2>1. Elements(<<a, b>>) = {a, b}
    BY DEF Elements
  <2>2. InOrder(<<a, b>>) <=> Rank(a) < Rank(b)
    BY DEF InOrder
  <2> QED
    BY <2>1, <2>2 DEF Part
<1> QED
  BY <1>1, <1>2, <1>3

(* A program is in order and consists of the steps its overrides need. *)
LEMMA ProgramIsInOrder ==
  ASSUME NEW w
  PROVE  /\ Program(w) \in Seq(Steps)
         /\ InOrder(Program(w))
         /\ Elements(Program(w)) = NeedOf(w)
<1>1. \A x \in Steps : Rank(x) \in Int
  <2>1. \A x \in Steps : x = "pdj" \/ \E f \in Fields :
                            x \in {ReadStep[f], SetStep[f], ResetStep[f]}
    BY DEF Steps
  <2> QED
    BY <2>1, FieldRanks
<1>2. "arch" \in Fields /\ "bits" \in Fields
      /\ \A f \in Fields : f = "arch" \/ f = "bits"
  BY DEF Fields
<1>3. /\ Rank(ReadStep["arch"]) = 1 /\ Rank(ReadStep["bits"]) = 3
      /\ Rank(SetStep["arch"]) = 2 /\ Rank(SetStep["bits"]) = 4
      /\ Rank(ResetStep["arch"]) = 7 /\ Rank(ResetStep["bits"]) = 6
  BY DEF Rank, ReadStep, SetStep, ResetStep
<1> DEFINE begin(f) == Opt(w[f] # Unset, <<ReadStep[f], SetStep[f]>>)
           end(f) == Opt(w[f] # Unset, <<ResetStep[f]>>)
           begins == begin("arch") \o begin("bits")
           body == begins \o <<"pdj">>
           ends == body \o end("bits")
<1>4. Program(w) = ends \o end("arch")
  BY DEF Program, Opt
<1>5. /\ Part(begin("arch"), 1, 2) /\ Part(begin("bits"), 3, 4)
      /\ Part(<<"pdj">>, 5, 5)
      /\ Part(end("bits"), 6, 6) /\ Part(end("arch"), 7, 7)
  <2>1. ASSUME NEW f \in Fields, NEW n \in Int, Rank(ReadStep[f]) = n
        PROVE  Part(begin(f), n, n + 1)
    <3>1. /\ ReadStep[f] \in Steps /\ SetStep[f] \in Steps
          /\ Rank(SetStep[f]) = n + 1 /\ n + 1 \in Int
          /\ n <= n /\ n < n + 1 /\ n + 1 <= n + 1
      BY <2>1, FieldRanks
    <3>2. Part(<<>>, n, n + 1) /\ Part(<<ReadStep[f], SetStep[f]>>, n, n + 1)
      BY <1>1, <2>1, <3>1, SmallParts
    <3> QED
      BY <3>2 DEF Opt
  <2>2. ASSUME NEW f \in Fields, NEW n \in Int, Rank(ResetStep[f]) = n
        PROVE  Part(end(f), n, n)
    <3>1. ResetStep[f] \in Steps /\ n <= n
      BY <2>2, FieldRanks
    <3>2. Part(<<>>, n, n) /\ Part(<<ResetStep[f]>>, n, n)
      BY <1>1, <2>2, <3>1, SmallParts
    <3> QED
      BY <3>2 DEF Opt
  <2>3. Part(<<"pdj">>, 5, 5)
    BY <1>1, FieldRanks, SmallParts
  <2> HIDE DEF begin, end
  <2>4. Part(begin("arch"), 1, 1 + 1) /\ Part(begin("bits"), 3, 3 + 1)
    BY <1>2, <1>3, <2>1
  <2>5. Part(end("bits"), 6, 6) /\ Part(end("arch"), 7, 7)
    BY <1>2, <1>3, <2>2
  <2>6. 1 + 1 = 2 /\ 3 + 1 = 4
    OBVIOUS
  <2> QED
    BY <2>3, <2>4, <2>5, <2>6
<1>6. \A f \in Fields :
        /\ Elements(begin(f)) = IF w[f] # Unset THEN {ReadStep[f], SetStep[f]} ELSE {}
        /\ Elements(end(f)) = IF w[f] # Unset THEN {ResetStep[f]} ELSE {}
  <2> SUFFICES ASSUME NEW f \in Fields
               PROVE  /\ Elements(begin(f)) = IF w[f] # Unset
                                              THEN {ReadStep[f], SetStep[f]} ELSE {}
                      /\ Elements(end(f)) = IF w[f] # Unset THEN {ResetStep[f]} ELSE {}
    OBVIOUS
  <2>1. /\ Elements(<<>>) = {}
        /\ Elements(<<ReadStep[f], SetStep[f]>>) = {ReadStep[f], SetStep[f]}
        /\ Elements(<<ResetStep[f]>>) = {ResetStep[f]}
    BY <1>1, FieldRanks, SmallParts
  <2> QED
    BY <2>1 DEF Opt
<1>7. Elements(<<"pdj">>) = {"pdj"}
  BY <1>1, FieldRanks, SmallParts
<1> HIDE DEF begin, end
<1>8. /\ Part(begins, 1, 4)
      /\ Elements(begins) = Elements(begin("arch")) \cup Elements(begin("bits"))
  BY <1>1, <1>5, Parts
<1> HIDE DEF begins
<1>9. /\ Part(body, 1, 5)
      /\ Elements(body) = Elements(begins) \cup {"pdj"}
  BY <1>1, <1>5, <1>7, <1>8, Parts
<1> HIDE DEF body
<1>10. /\ Part(ends, 1, 6)
       /\ Elements(ends) = Elements(body) \cup Elements(end("bits"))
  BY <1>1, <1>5, <1>9, Parts
<1> HIDE DEF ends
<1>11. /\ Part(Program(w), 1, 7)
       /\ Elements(Program(w)) = Elements(ends) \cup Elements(end("arch"))
  BY <1>1, <1>4, <1>5, <1>10, Parts
<1>12. \A f \in Fields : {ReadStep[f], SetStep[f], ResetStep[f]} \subseteq Steps
  BY FieldRanks
<1>13. Elements(Program(w)) = NeedOf(w)
  BY <1>2, <1>6, <1>8, <1>9, <1>10, <1>11, <1>12 DEF NeedOf
<1> QED
  BY <1>11, <1>13 DEF Part

(* Which steps a handler needs. *)
LEMMA Needs ==
  ASSUME NEW w, NEW f \in Fields
  PROVE  /\ "pdj" \in NeedOf(w)
         /\ w[f] # Unset => /\ ReadStep[f] \in NeedOf(w)
                            /\ SetStep[f] \in NeedOf(w)
                            /\ ResetStep[f] \in NeedOf(w)
         /\ SetStep[f] \in NeedOf(w) => w[f] # Unset
         /\ ReadStep[f] \in NeedOf(w) => w[f] # Unset
         /\ ResetStep[f] \in NeedOf(w) => w[f] # Unset
<1>1. "pdj" \in NeedOf(w)
  BY DEF NeedOf
<1>2. w[f] # Unset => /\ ReadStep[f] \in NeedOf(w)
                      /\ SetStep[f] \in NeedOf(w)
                      /\ ResetStep[f] \in NeedOf(w)
  BY FieldRanks DEF NeedOf
<1>3. ASSUME NEW x \in {ReadStep[f], SetStep[f], ResetStep[f]}, x \in NeedOf(w)
      PROVE  w[f] # Unset
  <2>1. x # "pdj"
    BY <1>3, FieldRanks
  <2>2. PICK g \in Fields : w[g] # Unset /\ x \in {ReadStep[g], SetStep[g], ResetStep[g]}
    BY <1>3, <2>1 DEF NeedOf
  <2>3. f = g
    BY <1>3, <2>2, FieldRanks
  <2> QED
    BY <2>2, <2>3
<1> QED
  BY <1>1, <1>2, <1>3

-----------------------------------------------------------------------------
(* The invariant. *)

Ran(h, s) == Session!HasRun(<<h, s>>)

Outcomes == {"unmade", "waiting", "ok", "err", "timeout"}

Types ==
  /\ todo \in Seq(Handlers \X Steps)
  /\ effects \in Seq(Handlers \X Steps)
  /\ outcome \in [Handlers \X Steps -> Outcomes]
  /\ stopped = FALSE
  /\ asm \in Captures
  /\ want \in [Handlers -> Wishes \cup {NoWish}]
  /\ program \in [Handlers -> Seq(Steps)]
  /\ value \in [Handlers -> Captures]
  /\ snapshot \in [Handlers -> Captures]
  /\ decoded \in [Handlers -> Captures]
  /\ overlapped \in BOOLEAN
  /\ failed \in BOOLEAN

Quiet == ~overlapped /\ ~failed

Alone == \A g, h \in Handlers : Running(g) /\ Running(h) => g = h

Ahead(h) == Elements(program[h])

Need(h) == IF Idle(h) THEN {} ELSE NeedOf(want[h])

(* What a handler has still to do comes after what it has done. *)
Ordered ==
  \A h \in Handlers :
    /\ InOrder(program[h])
    /\ Ahead(h) \subseteq Need(h)
    /\ \A s \in Need(h) \ Ahead(h), t \in Ahead(h) : Rank(s) < Rank(t)

(* What a handler has done it was answered; only its next step may be out. *)
Told ==
  \A h \in Handlers, s \in Steps :
    /\ outcome[<<h, s>>] \in {"unmade", "waiting", "ok"}
    /\ outcome[<<h, s>>] = "ok" <=> s \in Need(h) \ Ahead(h)
    /\ outcome[<<h, s>>] = "waiting" => Running(h) /\ s = program[h][1]
    /\ outcome[<<h, s>>] = "ok" => Ran(h, s)
    /\ Ran(h, s) => outcome[<<h, s>>] # "unmade"

(* The session has one call to run at most, and has not run it before. *)
OneCall ==
  /\ Len(todo) <= 1
  /\ Len(todo) = 1 => /\ outcome[todo[1]] = "waiting"
                      /\ ~ Session!HasRun(todo[1])

(* A setting is overridden while a handler is between setting it and setting
   it back, and only then. *)
Touches(h, f) == Ran(h, SetStep[f]) /\ ~ Ran(h, ResetStep[f])

SettingsFollow ==
  \A f \in Fields :
    /\ (\A h \in Handlers : ~ Touches(h, f)) => asm[f] = Original[f]
    /\ \A h \in Handlers : Touches(h, f) => asm[f] = want[h][f]

(* What a handler reads, and later captures, is the original. *)
Captured ==
  \A h \in Handlers, f \in Fields :
    /\ Ran(h, ReadStep[f]) => value[h][f] = Original[f]
    /\ outcome[<<h, ReadStep[f]>>] = "ok" => snapshot[h][f] = Original[f]

Decodes ==
  \A h \in Handlers :
    decoded[h] = IF Ran(h, "pdj") THEN Asked(h) ELSE NoWish

QuietInv ==
  /\ Alone /\ Ordered /\ Told /\ OneCall
  /\ SettingsFollow /\ Captured /\ Decodes

(* As long as handlers take turns and no call has failed. *)
AsmInv == Types /\ (Quiet => QuietInv)

-----------------------------------------------------------------------------

(* Every step of the session keeps the types. *)
LEMMA TypesKept ==
  ASSUME Types, [AsmNext]_asmVars
  PROVE  Types'
<1> USE OverrideAssumption
<1>1. CASE \E h \in Handlers, w \in Wishes : StartHandler(h, w)
  <2>1. PICK h \in Handlers, w \in Wishes : StartHandler(h, w)
    BY <1>1
  <2>2. Program(w) \in Seq(Steps)
    BY ProgramIsInOrder
  <2> QED
    BY <2>1, <2>2 DEF StartHandler, Types, execVars
<1>2. CASE \E h \in Handlers : SendCall(h)
  <2>1. PICK h \in Handlers : SendCall(h)
    BY <1>2
  <2>2. program[h] \in Seq(Steps) /\ program[h] # <<>>
    BY <2>1 DEF SendCall, Running, Types
  <2>3. Head(program[h]) \in Steps
    BY <2>2, HeadTailProperties
  <2>4. /\ todo' = Append(todo, <<h, Head(program[h])>>)
        /\ outcome' = [outcome EXCEPT ![<<h, Head(program[h])>>] = "waiting"]
        /\ UNCHANGED <<effects, stopped>>
    BY <2>1 DEF SendCall, Session!Submit, Types
  <2>5. todo' \in Seq(Handlers \X Steps)
    BY <2>3, <2>4, AppendProperties DEF Types
  <2> QED
    BY <2>1, <2>4, <2>5 DEF SendCall, Types, history, Outcomes
<1>3. CASE \E h \in Handlers : StepSucceeds(h)
  <2>1. PICK h \in Handlers : StepSucceeds(h)
    BY <1>3
  <2>2. program[h] \in Seq(Steps) /\ program[h] # <<>>
    BY <2>1 DEF StepSucceeds, Running, Types
  <2>3. Tail(program[h]) \in Seq(Steps)
    BY <2>2, HeadTailProperties
  <2>4. /\ outcome' = [outcome EXCEPT ![<<h, Head(program[h])>>] = "ok"]
        /\ UNCHANGED <<todo, effects, stopped>>
    BY <2>1 DEF StepSucceeds, Session!Reply, Session!Tell
  <2>5. snapshot' \in [Handlers -> Captures]
    <3>1. [f \in Fields |-> IF Head(program[h]) = ReadStep[f]
                            THEN value[h][f] ELSE snapshot[h][f]] \in Captures
      BY DEF Types, Captures, Fields
    <3>2. snapshot' = [snapshot EXCEPT ![h] =
            [f \in Fields |-> IF Head(program[h]) = ReadStep[f]
                              THEN value[h][f] ELSE snapshot[h][f]]]
      BY <2>1 DEF StepSucceeds, Types
    <3> QED
      BY <3>1, <3>2 DEF Types
  <2> QED
    BY <2>1, <2>3, <2>4, <2>5 DEF StepSucceeds, Types, history, Outcomes
<1>4. CASE \E h \in Handlers, how \in Failures : StepFails(h, how)
  <2>1. PICK h \in Handlers, how \in Failures : StepFails(h, how)
    BY <1>4
  <2>2. program[h] \in Seq(Steps) /\ program[h] # <<>>
    BY <2>1 DEF StepFails, Running, Types
  <2>3. Tail(program[h]) \in Seq(Steps) /\ <<>> \in Seq(Steps)
    BY <2>2, HeadTailProperties
  <2>4. \E x \in {"err", "timeout"} :
          /\ outcome' = [outcome EXCEPT ![<<h, Head(program[h])>>] = x]
          /\ UNCHANGED <<todo, effects, stopped>>
    BY <2>1 DEF StepFails, Session!Reply, Session!GiveUp, Session!Tell
  <2>5. program' \in [Handlers -> Seq(Steps)]
    BY <2>1, <2>3 DEF StepFails, Types
  <2> QED
    BY <2>1, <2>4, <2>5 DEF StepFails, Types, Outcomes
<1>5. CASE R2Runs
  <2>1. /\ todo # <<>>
        /\ todo' = Tail(todo)
        /\ effects' = Append(effects, Head(todo))
        /\ UNCHANGED <<outcome, stopped, want, program, snapshot, overlapped, failed>>
    BY <1>5 DEF R2Runs, Session!Run
  <2>2. /\ Head(todo) \in Handlers \X Steps
        /\ todo' \in Seq(Handlers \X Steps)
        /\ effects' \in Seq(Handlers \X Steps)
    BY <2>1, HeadTailProperties, AppendProperties DEF Types
  <2>3. asm' \in Captures /\ value' \in [Handlers -> Captures]
        /\ decoded' \in [Handlers -> Captures]
    <3> DEFINE h == Head(todo)[1]
               s == Head(todo)[2]
    <3>1. h \in Handlers
      BY <2>2
    <3>2. want[h] \in Captures /\ snapshot[h] \in Captures /\ value[h] \in Captures
          /\ asm \in Captures
      <4>1. want[h] \in Partial
        BY <3>1 DEF Types, NoWish, Partial
      <4>2. want[h] \in Captures
        BY <4>1 DEF Partial, Captures
      <4> QED
        BY <3>1, <4>2 DEF Types
    <3> HIDE DEF h, s
    <3>3. ASSUME NEW f \in Fields
          PROVE  /\ [asm EXCEPT ![f] = want[h][f]] \in Captures
                 /\ [asm EXCEPT ![f] = snapshot[h][f]] \in Captures
                 /\ [value[h] EXCEPT ![f] = asm[f]] \in Captures
      BY <3>2 DEF Captures, Fields
    <3>4. \/ /\ \E f \in Fields : value' = [value EXCEPT ![h][f] = asm[f]]
             /\ UNCHANGED <<asm, decoded>>
          \/ /\ \E f \in Fields : \/ asm' = [asm EXCEPT ![f] = want[h][f]]
                                  \/ asm' = [asm EXCEPT ![f] = snapshot[h][f]]
             /\ UNCHANGED <<value, decoded>>
          \/ /\ decoded' = [decoded EXCEPT ![h] = asm]
             /\ UNCHANGED <<asm, value>>
      BY <1>5 DEF R2Runs, h, s
    <3>5. ASSUME NEW f \in Fields
          PROVE  [value EXCEPT ![h][f] = asm[f]] \in [Handlers -> Captures]
      BY <3>1, <3>3 DEF Types
    <3> QED
      BY <3>1, <3>2, <3>3, <3>4, <3>5 DEF Types
  <2> QED
    BY <2>1, <2>2, <2>3 DEF Types
<1>6. CASE \E h \in Handlers : StepIsGarbled(h)
  <2>1. PICK h \in Handlers : StepIsGarbled(h)
    BY <1>6
  <2>2. program[h] \in Seq(Steps) /\ program[h] # <<>>
    BY <2>1 DEF StepIsGarbled, Running, Types
  <2>3. Tail(program[h]) \in Seq(Steps)
    BY <2>2, HeadTailProperties
  <2>4. PICK f \in Fields :
          /\ outcome' = [outcome EXCEPT ![<<h, ReadStep[f]>>] = "ok"]
          /\ UNCHANGED <<todo, effects, stopped>>
          /\ snapshot' = [snapshot EXCEPT ![h][f] = Garbled]
    BY <2>1 DEF StepIsGarbled, Session!Reply, Session!Tell
  <2>5. snapshot' \in [Handlers -> Captures]
    <3>1. [snapshot[h] EXCEPT ![f] = Garbled] \in Captures
      BY DEF Types, Captures, Fields
    <3> QED
      BY <2>4, <3>1 DEF Types
  <2>6. program' = [program EXCEPT ![h] = Tail(program[h])] /\ failed' = TRUE
        /\ UNCHANGED <<asm, want, value, decoded, overlapped>>
    BY <2>1 DEF StepIsGarbled
  <2> QED
    BY <2>3, <2>4, <2>5, <2>6 DEF Types, Outcomes
<1>7. CASE \E h \in Handlers : RefuseRestore(h)
  <2>1. PICK h \in Handlers : RefuseRestore(h)
    BY <1>7
  <2>2. program[h] \in Seq(Steps) /\ program[h] # <<>>
    BY <2>1 DEF RefuseRestore, Running, Types
  <2>3. Tail(program[h]) \in Seq(Steps)
    BY <2>2, HeadTailProperties
  <2> QED
    BY <2>1, <2>3 DEF RefuseRestore, Types, execVars
<1>8. CASE UNCHANGED asmVars
  BY <1>8 DEF asmVars, execVars, history, Types
<1> QED
  BY <1>1, <1>2, <1>3, <1>4, <1>5, <1>6, <1>7, <1>8 DEF AsmNext

(* The first step of a program, and what is left without it. *)
LEMMA FirstStep ==
  ASSUME Types, NEW h \in Handlers, Running(h)
  PROVE  /\ program[h] \in Seq(Steps) /\ Len(program[h]) \in Nat
         /\ 1 \in 1 .. Len(program[h])
         /\ program[h][1] \in Steps /\ Head(program[h]) = program[h][1]
         /\ program[h][1] \in Ahead(h)
<1>1. program[h] \in Seq(Steps) /\ program[h] # <<>>
  BY DEF Types, Running
<1>2. Len(program[h]) \in Nat \ {0}
  BY <1>1, EmptySeq
<1>3. Head(program[h]) = program[h][1] /\ Head(program[h]) \in Steps
  BY <1>1, HeadTailProperties
<1> QED
  BY <1>1, <1>2, <1>3 DEF Ahead, Elements

(* What was run was needed, and is answered or the handler's next step. *)
LEMMA RanIsNeeded ==
  ASSUME Types, Ordered, Told, NEW h \in Handlers, NEW s \in Steps, Ran(h, s)
  PROVE  /\ s \in Need(h)
         /\ \/ s \notin Ahead(h)
            \/ Running(h) /\ s = program[h][1]
<1>1. outcome[<<h, s>>] \in {"waiting", "ok"}
  BY DEF Told
<1>2. CASE outcome[<<h, s>>] = "ok"
  BY <1>2 DEF Told
<1>3. CASE outcome[<<h, s>>] = "waiting"
  <2>1. Running(h) /\ s = program[h][1]
    BY <1>3 DEF Told
  <2>2. s \in Ahead(h)
    BY <2>1, FirstStep
  <2> QED
    BY <2>1, <2>2 DEF Ordered
<1> QED
  BY <1>1, <1>2, <1>3

(* Whoever has overridden a setting is still at work. *)
LEMMA TouchesRuns ==
  ASSUME Types, Ordered, Told, NEW h \in Handlers, NEW f \in Fields, Touches(h, f)
  PROVE  Running(h) /\ ~ Idle(h) /\ want[h][f] # Unset
<1>1. SetStep[f] \in Steps /\ ResetStep[f] \in Steps
  BY FieldRanks
<1>2. SetStep[f] \in Need(h)
  BY <1>1, RanIsNeeded DEF Touches
<1>3. ~ Idle(h) /\ want[h][f] # Unset /\ ResetStep[f] \in Need(h)
  BY <1>2, Needs DEF Need
<1>4. ResetStep[f] \in Ahead(h)
  BY <1>1, <1>3 DEF Told, Touches
<1>5. program[h] # <<>>
  BY <1>4, EmptySeq DEF Ahead, Elements, Types
<1> QED
  BY <1>3, <1>5 DEF Running

(* When no handler is at work the settings are the original ones. *)
LEMMA RestIsOriginal ==
  ASSUME Types, QuietInv, AllDone
  PROVE  asm = Original
<1>1. \A h \in Handlers, f \in Fields : ~ Touches(h, f)
  BY TouchesRuns DEF QuietInv, AllDone
<1>2. \A f \in Fields : asm[f] = Original[f]
  BY <1>1 DEF QuietInv, SettingsFollow
<1>3. asm \in Captures /\ Original \in Captures
  BY OverrideAssumption DEF Types, Settings, Captures
<1> QED
  BY <1>2, <1>3 DEF Captures, Fields

(* A handler starts when no other is at work. *)
LEMMA StartKeeps ==
  ASSUME Types, QuietInv, NEW h \in Handlers, NEW w \in Wishes,
         StartHandler(h, w), Quiet'
  PROVE  QuietInv'
<1> USE DEF QuietInv
<1>1. /\ Idle(h)
      /\ want' = [want EXCEPT ![h] = w]
      /\ program' = [program EXCEPT ![h] = Program(w)]
      /\ \A g \in Handlers : ~ Running(g)
      /\ UNCHANGED <<execVars, asm, value, snapshot, decoded>>
  BY DEF StartHandler, Quiet, Types
<1>2. /\ want'[h] = w /\ program'[h] = Program(w)
      /\ \A g \in Handlers : g # h => want'[g] = want[g] /\ program'[g] = program[g]
  BY <1>1 DEF Types
<1>3. /\ Program(w) \in Seq(Steps) /\ InOrder(Program(w))
      /\ Elements(Program(w)) = NeedOf(w)
  BY ProgramIsInOrder
<1>4. Ahead(h)' = NeedOf(w) /\ Need(h)' = NeedOf(w)
  <2>1. w # NoWish
    BY OverrideAssumption
  <2> QED
    BY <1>2, <1>3, <2>1 DEF Ahead, Need, Idle
<1>5. \A g \in Handlers : g # h => /\ Ahead(g)' = Ahead(g) /\ Need(g)' = Need(g)
                                   /\ Asked(g)' = Asked(g)
  BY <1>2 DEF Ahead, Need, Idle, Asked
<1>6. \A g \in Handlers, s \in Steps : Ran(g, s)' <=> Ran(g, s)
  BY <1>1 DEF execVars, Ran, Session!HasRun
<1>7. \A s \in Steps : outcome[<<h, s>>] = "unmade" /\ ~ Ran(h, s)
  BY <1>1 DEF Told, Need
<1>8. Alone'
  BY <1>1, <1>2 DEF Alone, Running
<1>9. Ordered'
  BY <1>2, <1>3, <1>4, <1>5 DEF Ordered
<1>10. Told'
  <2> SUFFICES ASSUME NEW g \in Handlers, NEW s \in Steps
               PROVE  /\ outcome[<<g, s>>] \in {"unmade", "ok"}
                      /\ outcome[<<g, s>>] = "ok" <=> s \in Need(g)' \ Ahead(g)'
                      /\ outcome[<<g, s>>] = "ok" => Ran(g, s)
                      /\ Ran(g, s) => outcome[<<g, s>>] # "unmade"
    BY <1>1, <1>6 DEF Told, execVars
  <2>1. CASE g = h
    BY <1>4, <1>7, <2>1
  <2>2. CASE g # h
    BY <1>1, <1>5, <2>2 DEF Told
  <2> QED
    BY <2>1, <2>2
<1>11. OneCall'
  BY <1>1 DEF OneCall, execVars, Session!HasRun
<1>12. SettingsFollow' /\ Captured'
  <2>1. \A g \in Handlers, f \in Fields : /\ ~ Touches(g, f)
                                          /\ Touches(g, f)' <=> Touches(g, f)
    BY <1>1, <1>6, FieldRanks, TouchesRuns DEF Touches
  <2>2. SettingsFollow'
    BY <1>1, <2>1 DEF SettingsFollow
  <2>3. Captured'
    BY <1>1, <1>6, FieldRanks DEF Captured, execVars
  <2> QED
    BY <2>2, <2>3
<1>13. Decodes'
  BY <1>1, <1>5, <1>6, <1>7, FieldRanks DEF Decodes
<1> QED
  BY <1>8, <1>9, <1>10, <1>11, <1>12, <1>13

(* The session had nothing to do before a handler sends its next call. *)
LEMMA SendKeeps ==
  ASSUME Types, QuietInv, NEW h \in Handlers, SendCall(h)
  PROVE  QuietInv'
<1> USE DEF QuietInv
<1> DEFINE c == <<h, program[h][1]>>
<1>1. /\ Running(h) /\ ~ Awaiting(h)
      /\ program[h][1] \in Steps /\ program[h][1] \in Ahead(h)
      /\ Head(program[h]) = program[h][1]
      /\ UNCHANGED <<asm, want, program, value, snapshot, history>>
  BY FirstStep DEF SendCall
<1>2. /\ outcome[c] = "unmade"
      /\ outcome' = [outcome EXCEPT ![c] = "waiting"]
      /\ todo' = Append(todo, c)
      /\ UNCHANGED <<effects, stopped>>
  BY <1>1 DEF SendCall, Session!Submit, Types
<1>3. c \in Handlers \X Steps /\ todo \in Seq(Handlers \X Steps)
  BY <1>1 DEF Types
<1>4. Len(todo) = 0
  <2>1. ASSUME NEW g \in Handlers, NEW x \in Steps, outcome[<<g, x>>] = "waiting"
        PROVE  FALSE
    <3>1. g = h
      BY <1>1, <2>1 DEF Told, Alone
    <3> QED
      BY <1>1, <2>1, <3>1 DEF Awaiting
  <2>2. Len(todo) \in Nat /\ Len(todo) <= 1
    BY <1>3, LenProperties DEF OneCall
  <2>3. CASE Len(todo) = 1
    <3>1. todo[1] \in Handlers \X Steps /\ outcome[todo[1]] = "waiting"
      <4>1. 1 \in 1 .. Len(todo)
        BY <2>3
      <4> QED
        BY <1>3, <2>3, <4>1, ElementOfSeq DEF OneCall
    <3>2. PICK g \in Handlers, x \in Steps : todo[1] = <<g, x>>
      BY <3>1
    <3> QED
      BY <2>1, <3>1, <3>2
  <2>4. Len(todo) = 0 \/ Len(todo) = 1
    <3>1. \A n \in Nat : n <= 1 => n = 0 \/ n = 1
      OBVIOUS
    <3> HIDE DEF QuietInv
    <3> QED
      BY <2>2, <3>1
  <2> QED
    BY <2>3, <2>4
<1>5. Len(todo') = 1 /\ todo'[1] = c
  BY <1>2, <1>3, <1>4, AppendProperties
<1>6. /\ outcome'[c] = "waiting"
      /\ \A d \in Handlers \X Steps : d # c => outcome'[d] = outcome[d]
  BY <1>2, <1>3 DEF Types
<1>7. \A g \in Handlers, x \in Steps : Ran(g, x)' <=> Ran(g, x)
  BY <1>2 DEF Ran, Session!HasRun
<1>8. ~ Ran(h, program[h][1])
  BY <1>1, <1>2 DEF Told
<1>9. Alone' /\ Ordered'
  BY <1>1 DEF Alone, Running, Ordered, Ahead, Need, Idle
<1>10. Told'
  <2>3. /\ program' = program
        /\ \A g \in Handlers : /\ Need(g)' = Need(g) /\ Ahead(g)' = Ahead(g)
                               /\ Running(g)' <=> Running(g)
    BY <1>1 DEF Need, Idle, Ahead, Running
  <2> HIDE DEF QuietInv
  <2> SUFFICES ASSUME NEW g \in Handlers, NEW x \in Steps
               PROVE  /\ outcome'[<<g, x>>] \in {"unmade", "waiting", "ok"}
                      /\ outcome'[<<g, x>>] = "ok" <=> x \in Need(g) \ Ahead(g)
                      /\ outcome'[<<g, x>>] = "waiting" =>
                           Running(g) /\ x = program[g][1]
                      /\ outcome'[<<g, x>>] = "ok" => Ran(g, x)
                      /\ Ran(g, x) => outcome'[<<g, x>>] # "unmade"
    BY <1>7, <2>3 DEF Told
  <2> USE DEF QuietInv
  <2>1. CASE <<g, x>> = c
    <3>1. g = h /\ x = program[h][1]
      BY <2>1
    <3>2. outcome'[<<g, x>>] = "waiting"
      BY <1>6, <2>1
    <3> HIDE DEF QuietInv
    <3> QED
      BY <1>1, <1>8, <3>1, <3>2
  <2>2. CASE <<g, x>> # c
    BY <1>6, <2>2 DEF Told
  <2> QED
    BY <2>1, <2>2
<1>11. OneCall'
  <2>1. ~ Session!HasRun(c)
    BY <1>8 DEF Ran
  <2> QED
    BY <1>2, <1>5, <1>6, <2>1 DEF OneCall, Session!HasRun
<1>12. SettingsFollow' /\ Decodes'
  BY <1>1, <1>7, FieldRanks DEF SettingsFollow, Touches, Decodes, Asked, history
<1>13. Captured'
  <2>1. \A g \in Handlers, x \in Steps :
          outcome'[<<g, x>>] = "ok" => outcome[<<g, x>>] = "ok"
    BY <1>6
  <2> QED
    BY <1>1, <1>7, <2>1, FieldRanks DEF Captured
<1> QED
  BY <1>9, <1>10, <1>11, <1>12, <1>13

(* Which steps are which, and which comes first. *)
LEMMA StepsApart ==
  /\ \A x \in Steps : Rank(x) \in Int
  /\ \A f \in Fields :
       /\ Rank(ReadStep[f]) < Rank(SetStep[f]) /\ Rank(SetStep[f]) < Rank("pdj")
       /\ Rank("pdj") < Rank(ResetStep[f])
       /\ ReadStep[f] # "pdj" /\ SetStep[f] # "pdj" /\ ResetStep[f] # "pdj"
  /\ \A f, g \in Fields :
       /\ ReadStep[f] # SetStep[g] /\ ReadStep[f] # ResetStep[g]
       /\ SetStep[f] # ResetStep[g]
       /\ f # g => /\ ReadStep[f] # ReadStep[g] /\ SetStep[f] # SetStep[g]
                   /\ ResetStep[f] # ResetStep[g]
<1>1. \A x \in Steps : x = "pdj" \/ \E f \in Fields :
                          x \in {ReadStep[f], SetStep[f], ResetStep[f]}
  BY DEF Steps
<1>2. \A x \in Steps : Rank(x) \in Int
  BY <1>1, FieldRanks
<1>3. ASSUME NEW f \in Fields
      PROVE  /\ Rank(ReadStep[f]) < Rank(SetStep[f])
             /\ Rank(SetStep[f]) < Rank("pdj")
             /\ Rank("pdj") < Rank(ResetStep[f])
             /\ ReadStep[f] # "pdj" /\ SetStep[f] # "pdj" /\ ResetStep[f] # "pdj"
  BY FieldRanks
<1>4. ASSUME NEW f \in Fields, NEW g \in Fields
      PROVE  /\ ReadStep[f] # SetStep[g] /\ ReadStep[f] # ResetStep[g]
             /\ SetStep[f] # ResetStep[g]
             /\ f # g => /\ ReadStep[f] # ReadStep[g] /\ SetStep[f] # SetStep[g]
                         /\ ResetStep[f] # ResetStep[g]
  <2>1. ReadStep[f] # SetStep[g] /\ ReadStep[f] # ResetStep[g]
        /\ SetStep[f] # ResetStep[g]
    BY FieldRanks
  <2>2. ASSUME f # g
        PROVE  /\ ReadStep[f] # ReadStep[g] /\ SetStep[f] # SetStep[g]
               /\ ResetStep[f] # ResetStep[g]
    <3>1. /\ Rank(ReadStep[f]) # Rank(ReadStep[g])
          /\ Rank(ResetStep[f]) # Rank(ResetStep[g])
      BY <2>2, FieldRanks
    <3>2. /\ Rank(ReadStep[f]) \in Int /\ Rank(ReadStep[g]) \in Int
          /\ Rank(SetStep[f]) = Rank(ReadStep[f]) + 1
          /\ Rank(SetStep[g]) = Rank(ReadStep[g]) + 1
      BY FieldRanks
    <3>3. Rank(SetStep[f]) # Rank(SetStep[g])
      BY <3>1, <3>2
    <3> QED
      BY <3>1, <3>3
  <2> QED
    BY <2>1, <2>2
<1> QED
  BY <1>2, <1>3, <1>4

(* Settings are functions of the two fields. *)
LEMMA CaptureUpdate ==
  ASSUME NEW p \in Captures
  PROVE  /\ p = [f \in Fields |-> p[f]]
         /\ \A f \in Fields : \A v :
              /\ [p EXCEPT ![f] = v][f] = v
              /\ \A k \in Fields : k # f => [p EXCEPT ![f] = v][k] = p[k]
<1>1. DOMAIN p = Fields
  BY DEF Captures, Fields
<1>2. p = [f \in DOMAIN p |-> p[f]]
  BY DEF Captures
<1> QED
  BY <1>1, <1>2

(* The session runs the next step of the one handler at work. *)
LEMMA RunKeeps ==
  ASSUME Types, QuietInv, R2Runs
  PROVE  QuietInv'
<1>1. /\ Alone /\ Ordered /\ Told /\ OneCall
      /\ SettingsFollow /\ Captured /\ Decodes
  BY DEF QuietInv
<1>2. /\ todo \in Seq(Handlers \X Steps) /\ todo # <<>>
      /\ todo' = Tail(todo) /\ effects' = Append(effects, Head(todo))
      /\ UNCHANGED <<outcome, stopped, want, program, snapshot, overlapped, failed>>
  BY DEF Types, R2Runs, Session!Run
<1>3. /\ Len(todo) = 1 /\ Head(todo) = todo[1] /\ Len(todo') = 0
      /\ todo[1] \in Handlers \X Steps
  <2>1. Len(todo) \in Nat \ {0} /\ Head(todo) = todo[1]
        /\ Head(todo) \in Handlers \X Steps /\ Len(todo') = Len(todo) - 1
    BY <1>2, EmptySeq, HeadTailProperties
  <2>2. Len(todo) <= 1
    BY <1>1 DEF OneCall
  <2>3. \A n \in Nat \ {0} : n <= 1 => n = 1
    OBVIOUS
  <2>4. Len(todo) = 1
    BY <2>1, <2>2, <2>3
  <2>5. Head(todo) = todo[1] /\ todo[1] \in Handlers \X Steps
    BY <2>1
  <2>6. Len(todo') = 0
    BY <2>1, <2>4
  <2> QED
    BY <2>4, <2>5, <2>6
<1>4. PICK h \in Handlers, s \in Steps : todo[1] = <<h, s>>
  BY <1>3
<1>5. outcome[<<h, s>>] = "waiting" /\ ~ Ran(h, s)
  BY <1>1, <1>3, <1>4 DEF OneCall, Ran
<1>6. Running(h) /\ s = program[h][1] /\ s \in Ahead(h) /\ s \in Need(h)
  BY <1>1, <1>5, FirstStep DEF Told, Ordered
<1>7. \A g \in Handlers, x \in Steps :
        Ran(g, x)' <=> Ran(g, x) \/ (g = h /\ x = s)
  <2>1. effects \in Seq(Handlers \X Steps) /\ effects' = Append(effects, <<h, s>>)
    BY <1>2, <1>3, <1>4 DEF Types
  <2>2. /\ DOMAIN effects = 1 .. Len(effects) /\ Len(effects) \in Nat
        /\ DOMAIN effects' = 1 .. Len(effects) + 1
        /\ \A i \in 1 .. Len(effects) : effects'[i] = effects[i]
        /\ effects'[Len(effects) + 1] = <<h, s>>
    BY <2>1, AppendProperties, LenProperties
  <2>3. ASSUME NEW d
        PROVE  (\E i \in DOMAIN effects' : effects'[i] = d)
                 <=> (\E i \in DOMAIN effects : effects[i] = d) \/ d = <<h, s>>
    <3> DEFINE n == Len(effects)
    <3>1. /\ n \in Nat /\ n + 1 \in 1 .. n + 1
          /\ \A i \in 1 .. n : i \in 1 .. n + 1
          /\ \A i \in 1 .. n + 1 : i \in 1 .. n \/ i = n + 1
      BY <2>2
    <3> QED
      BY <2>2, <3>1
  <2> QED
    BY <2>3 DEF Ran, Session!HasRun
<1>8. \A t \in Need(h) : Rank(t) < Rank(s) => Ran(h, t) /\ outcome[<<h, t>>] = "ok"
  <2> SUFFICES ASSUME NEW t \in Need(h), Rank(t) < Rank(s)
               PROVE  Ran(h, t) /\ outcome[<<h, t>>] = "ok"
    OBVIOUS
  <2>1. t \in Steps
    BY StepsApart, FieldRanks DEF Need, NeedOf
  <2>2. t \notin Ahead(h)
    <3>1. ASSUME NEW i \in 1 .. Len(program[h]), program[h][i] = t
          PROVE  FALSE
      <4>1. /\ Len(program[h]) \in Nat /\ 1 \in 1 .. Len(program[h])
            /\ InOrder(program[h])
        BY <1>1, <1>6, FirstStep DEF Ordered
      <4>2. CASE i = 1
        BY <1>6, <2>1, <3>1, <4>2, StepsApart
      <4>3. CASE i > 1
        <5>1. Rank(s) < Rank(t)
          BY <1>6, <3>1, <4>1, <4>3 DEF InOrder
        <5> QED
          BY <2>1, <5>1, StepsApart
      <4> QED
        BY <4>1, <4>2, <4>3
    <3> QED
      BY <3>1 DEF Ahead, Elements
  <2> QED
    BY <1>1, <2>1, <2>2 DEF Told
<1>9. \A t \in Steps : Rank(s) < Rank(t) => ~ Ran(h, t)
  <2> SUFFICES ASSUME NEW t \in Steps, Rank(s) < Rank(t), Ran(h, t)
               PROVE  FALSE
    OBVIOUS
  <2>1. t # s
    BY StepsApart
  <2>2. t \in Need(h) \ Ahead(h)
    BY <1>1, <1>6, <2>1, RanIsNeeded
  <2>3. Rank(t) < Rank(s)
    BY <1>1, <1>6, <2>2 DEF Ordered
  <2> QED
    BY <2>3, StepsApart
<1>10. \A g \in Handlers, f \in Fields : g # h => ~ Touches(g, f) /\ ~ Touches(g, f)'
  <2> SUFFICES ASSUME NEW g \in Handlers, NEW f \in Fields, g # h
               PROVE  ~ Touches(g, f) /\ ~ Touches(g, f)'
    OBVIOUS
  <2>1. ~ Touches(g, f)
    BY <1>1, <1>6, TouchesRuns DEF Alone
  <2> QED
    BY <1>7, <2>1, FieldRanks DEF Touches
<1>11. Alone' /\ Ordered'
  BY <1>1, <1>2 DEF Alone, Running, Ordered, Ahead, Need, Idle
<1>12. Told'
  <2> SUFFICES ASSUME NEW g \in Handlers, NEW x \in Steps
               PROVE  /\ outcome[<<g, x>>] \in {"unmade", "waiting", "ok"}
                      /\ outcome[<<g, x>>] = "ok" <=> x \in Need(g) \ Ahead(g)
                      /\ outcome[<<g, x>>] = "waiting" =>
                           Running(g) /\ x = program[g][1]
                      /\ outcome[<<g, x>>] = "ok" => Ran(g, x)'
                      /\ Ran(g, x)' => outcome[<<g, x>>] # "unmade"
    BY <1>2 DEF Told, Need, Idle, Ahead, Running
  <2> QED
    BY <1>1, <1>5, <1>7 DEF Told
<1>13. OneCall'
  BY <1>3 DEF OneCall
<1>14. CASE \E f \in Fields : s = ReadStep[f] /\ value' = [value EXCEPT ![h][f] = asm[f]]
                                /\ UNCHANGED <<asm, decoded>>
  <2>1. PICK f \in Fields : s = ReadStep[f] /\ value' = [value EXCEPT ![h][f] = asm[f]]
                                /\ UNCHANGED <<asm, decoded>>
    BY <1>14
  <2>2. asm[f] = Original[f]
    <3>1. ~ Touches(h, f)
      BY <1>9, <2>1, FieldRanks, StepsApart DEF Touches
    <3> QED
      BY <1>1, <1>10, <3>1 DEF SettingsFollow
  <2>3. SettingsFollow'
    <3>1. \A g \in Handlers, k \in Fields : Touches(g, k)' <=> Touches(g, k)
      BY <1>7, <2>1, FieldRanks, StepsApart DEF Touches
    <3> QED
      BY <1>1, <1>2, <2>1, <3>1 DEF SettingsFollow
  <2>4. Captured'
    <3>1. /\ value'[h][f] = Original[f]
          /\ \A g \in Handlers, k \in Fields : g # h \/ k # f => value'[g][k] = value[g][k]
      BY <2>1, <2>2, CaptureUpdate DEF Types
    <3>2. \A g \in Handlers, k \in Fields :
            Ran(g, ReadStep[k])' <=> Ran(g, ReadStep[k]) \/ (g = h /\ k = f)
      BY <1>7, <2>1, FieldRanks, StepsApart
    <3> QED
      BY <1>1, <1>2, <3>1, <3>2 DEF Captured
  <2>5. Decodes'
    <3>1. \A g \in Handlers : Ran(g, "pdj")' <=> Ran(g, "pdj")
      BY <1>7, <2>1, FieldRanks, StepsApart
    <3> QED
      BY <1>1, <1>2, <2>1, <3>1 DEF Decodes, Asked
  <2> QED
    BY <1>11, <1>12, <1>13, <2>3, <2>4, <2>5 DEF QuietInv
<1>15. ASSUME NEW f \in Fields, s \in {SetStep[f], ResetStep[f]},
              UNCHANGED <<value, decoded>>
       PROVE  Captured' /\ Decodes'
  <2>1. \A g \in Handlers : /\ Ran(g, "pdj")' <=> Ran(g, "pdj")
                            /\ \A k \in Fields :
                                 Ran(g, ReadStep[k])' <=> Ran(g, ReadStep[k])
    BY <1>7, <1>15, FieldRanks, StepsApart
  <2> QED
    BY <1>1, <1>2, <1>15, <2>1 DEF Captured, Decodes, Asked
<1>16. CASE \E f \in Fields : s = SetStep[f] /\ asm' = [asm EXCEPT ![f] = want[h][f]]
                                /\ UNCHANGED <<value, decoded>>
  <2>1. PICK f \in Fields : s = SetStep[f] /\ asm' = [asm EXCEPT ![f] = want[h][f]]
                                /\ UNCHANGED <<value, decoded>>
    BY <1>16
  <2>2. /\ Touches(h, f)'
        /\ \A k \in Fields : k # f => (Touches(h, k)' <=> Touches(h, k))
    <3>1. ~ Ran(h, ResetStep[f])
      BY <1>9, <2>1, FieldRanks, StepsApart
    <3> QED
      BY <1>7, <2>1, <3>1, FieldRanks, StepsApart DEF Touches
  <2>3. asm'[f] = want[h][f] /\ \A k \in Fields : k # f => asm'[k] = asm[k]
    BY <2>1, CaptureUpdate DEF Types
  <2>4. SettingsFollow'
    BY <1>1, <1>2, <1>10, <2>2, <2>3 DEF SettingsFollow
  <2> QED
    BY <1>11, <1>12, <1>13, <1>15, <2>1, <2>4 DEF QuietInv
<1>17. CASE \E f \in Fields : s = ResetStep[f] /\ asm' = [asm EXCEPT ![f] = snapshot[h][f]]
                                /\ UNCHANGED <<value, decoded>>
  <2>1. PICK f \in Fields : s = ResetStep[f] /\ asm' = [asm EXCEPT ![f] = snapshot[h][f]]
                                /\ UNCHANGED <<value, decoded>>
    BY <1>17
  <2>2. /\ ~ Touches(h, f)'
        /\ \A k \in Fields : k # f => (Touches(h, k)' <=> Touches(h, k))
    BY <1>7, <2>1, FieldRanks, StepsApart DEF Touches
  <2>3. snapshot[h][f] = Original[f]
    <3>1. ReadStep[f] \in Need(h)
      BY <1>6, <2>1, Needs DEF Need
    <3>2. Rank(ReadStep[f]) < Rank(s)
      BY <2>1, FieldRanks
    <3> QED
      BY <1>1, <1>8, <3>1, <3>2 DEF Captured
  <2>4. asm'[f] = Original[f] /\ \A k \in Fields : k # f => asm'[k] = asm[k]
    BY <2>1, <2>3, CaptureUpdate DEF Types
  <2>5. SettingsFollow'
    BY <1>1, <1>2, <1>10, <2>2, <2>4 DEF SettingsFollow
  <2> QED
    BY <1>11, <1>12, <1>13, <1>15, <2>1, <2>5 DEF QuietInv
<1>18. CASE s = "pdj" /\ decoded' = [decoded EXCEPT ![h] = asm] /\ UNCHANGED <<asm, value>>
  <2>1. \A f \in Fields :
          asm[f] = IF want[h][f] = Unset THEN Original[f] ELSE want[h][f]
    <3> SUFFICES ASSUME NEW f \in Fields
                 PROVE  asm[f] = IF want[h][f] = Unset THEN Original[f] ELSE want[h][f]
      OBVIOUS
    <3>1. CASE want[h][f] = Unset
      <4>1. ~ Touches(h, f)
        BY <1>1, <3>1, TouchesRuns
      <4> QED
        BY <1>1, <1>10, <3>1, <4>1 DEF SettingsFollow
    <3>2. CASE want[h][f] # Unset
      <4>1. SetStep[f] \in Need(h)
        BY <1>6, <3>2, Needs DEF Need
      <4>2. Ran(h, SetStep[f]) /\ ~ Ran(h, ResetStep[f])
        BY <1>8, <1>9, <1>18, <4>1, FieldRanks, StepsApart
      <4> QED
        BY <1>1, <3>2, <4>2 DEF SettingsFollow, Touches
    <3> QED
      BY <3>1, <3>2
  <2>2. asm = Asked(h)
    <3>1. asm \in Captures /\ asm = [f \in Fields |-> asm[f]]
      BY CaptureUpdate DEF Types
    <3> QED
      BY <2>1, <3>1 DEF Asked
  <2>3. /\ \A g \in Handlers : Ran(g, "pdj")' <=> Ran(g, "pdj") \/ g = h
        /\ \A g \in Handlers, k \in Fields :
             /\ Ran(g, ReadStep[k])' <=> Ran(g, ReadStep[k])
             /\ Touches(g, k)' <=> Touches(g, k)
    BY <1>7, <1>18, FieldRanks, StepsApart DEF Touches
  <2>4. SettingsFollow' /\ Captured'
    BY <1>1, <1>2, <1>18, <2>3 DEF SettingsFollow, Captured
  <2>5. Decodes'
    <3>1. \A g \in Handlers : Asked(g)' = Asked(g)
      BY <1>2 DEF Asked
    <3>2. decoded'[h] = asm /\ \A g \in Handlers : g # h => decoded'[g] = decoded[g]
      BY <1>18 DEF Types
    <3> QED
      BY <1>1, <2>2, <2>3, <3>1, <3>2 DEF Decodes
  <2> QED
    BY <1>11, <1>12, <1>13, <2>4, <2>5 DEF QuietInv
<1>19. Head(todo)[1] = h /\ Head(todo)[2] = s
  BY <1>3, <1>4
<1> QED
  BY <1>14, <1>16, <1>17, <1>18, <1>19 DEF R2Runs

(* The handler at work has its answer and goes on to its next step. *)
LEMMA SucceedsKeeps ==
  ASSUME Types, QuietInv, NEW h \in Handlers, StepSucceeds(h)
  PROVE  QuietInv'
<1>1. /\ Alone /\ Ordered /\ Told /\ OneCall
      /\ SettingsFollow /\ Captured /\ Decodes
  BY DEF QuietInv
<1> DEFINE s == program[h][1]
           c == <<h, s>>
<1>2. /\ Running(h) /\ s \in Steps /\ s \in Ahead(h) /\ Head(program[h]) = s
      /\ program[h] \in Seq(Steps) /\ program[h] # <<>>
  BY FirstStep DEF StepSucceeds, Running
<1>3. /\ outcome[c] = "waiting" /\ Ran(h, s)
      /\ outcome' = [outcome EXCEPT ![c] = "ok"]
      /\ program' = [program EXCEPT ![h] = Tail(@)]
      /\ snapshot' = [snapshot EXCEPT ![h] =
           [f \in Fields |-> IF s = ReadStep[f] THEN value[h][f] ELSE @[f]]]
      /\ UNCHANGED <<todo, effects, stopped, asm, want, value, history>>
  BY <1>2 DEF StepSucceeds, Session!Reply, Session!Tell, Ran
<1> HIDE DEF s, c
<1>4. /\ Len(program[h]) \in Nat /\ Len(program[h]) >= 1
      /\ Tail(program[h]) \in Seq(Steps)
      /\ Len(Tail(program[h])) = Len(program[h]) - 1
      /\ \A i \in 1 .. Len(program[h]) - 1 : Tail(program[h])[i] = program[h][i + 1]
  BY <1>2, FirstStep, HeadTailProperties
<1>5. /\ program'[h] = Tail(program[h])
      /\ \A g \in Handlers : g # h => program'[g] = program[g]
  BY <1>3 DEF Types
<1>6. \A g \in Handlers : Need(g)' = Need(g)
  BY <1>3 DEF Need, Idle
<1>7. \A g \in Handlers : g # h => program[g] = <<>> /\ Ahead(g) = {} /\ Ahead(g)' = {}
  BY <1>1, <1>2, <1>5 DEF Alone, Running, Ahead, Elements
<1>8. InOrder(Tail(program[h])) /\ \A t \in Ahead(h)' : Rank(s) < Rank(t)
  <2>1. InOrder(program[h])
    BY <1>1 DEF Ordered
  <2>2. \A i \in 1 .. Len(program[h]) - 1 : Rank(s) < Rank(program[h][i + 1])
    BY <1>4, <2>1 DEF InOrder, s
  <2> QED
    BY <1>4, <1>5, <2>1, <2>2 DEF InOrder, Ahead, Elements
<1>9. Ahead(h)' = Ahead(h) \ {s}
  <2>1. ASSUME NEW t \in Ahead(h)' PROVE t \in Ahead(h)
    BY <1>4, <1>5 DEF Ahead, Elements
  <2>2. s \notin Ahead(h)'
    BY <1>2, <1>8, StepsApart
  <2>3. ASSUME NEW t \in Ahead(h), t # s PROVE t \in Ahead(h)'
    <3>1. PICK i \in 1 .. Len(program[h]) : t = program[h][i]
      BY DEF Ahead, Elements
    <3>2. i # 1
      BY <2>3, <3>1 DEF s
    <3>3. i - 1 \in 1 .. Len(program[h]) - 1 /\ (i - 1) + 1 = i
      BY <1>4, <3>2
    <3>4. Tail(program[h])[i - 1] = t
      BY <1>4, <3>1, <3>3
    <3> QED
      BY <1>4, <1>5, <3>3, <3>4 DEF Ahead, Elements
  <2> QED
    BY <2>1, <2>2, <2>3
<1>10. \A g \in Handlers, x \in Steps : Ran(g, x)' <=> Ran(g, x)
  BY <1>3 DEF Ran, Session!HasRun
<1>11. /\ outcome'[c] = "ok"
       /\ \A d \in Handlers \X Steps : d # c => outcome'[d] = outcome[d]
  BY <1>2, <1>3 DEF Types, c
<1>12. Alone'
  BY <1>5, <1>7 DEF Alone, Running
<1>13. Ordered'
  <2> SUFFICES ASSUME NEW g \in Handlers
               PROVE  /\ InOrder(program'[g])
                      /\ Ahead(g)' \subseteq Need(g)
                      /\ \A x \in Need(g) \ Ahead(g)', t \in Ahead(g)' : Rank(x) < Rank(t)
    BY <1>6 DEF Ordered
  <2>1. CASE g = h
    BY <1>1, <1>5, <1>8, <1>9, <2>1 DEF Ordered
  <2>2. CASE g # h
    BY <1>1, <1>5, <1>7, <2>2 DEF Ordered
  <2> QED
    BY <2>1, <2>2
<1>14. Told'
  <2> SUFFICES ASSUME NEW g \in Handlers, NEW x \in Steps
               PROVE  /\ outcome'[<<g, x>>] \in {"unmade", "waiting", "ok"}
                      /\ outcome'[<<g, x>>] = "ok" <=> x \in Need(g) \ Ahead(g)'
                      /\ outcome'[<<g, x>>] = "waiting" =>
                           Running(g)' /\ x = program'[g][1]
                      /\ outcome'[<<g, x>>] = "ok" => Ran(g, x)
                      /\ Ran(g, x) => outcome'[<<g, x>>] # "unmade"
    BY <1>6, <1>10 DEF Told
  <2>1. CASE g = h /\ x = s
    <3>1. x \in Need(g)
      BY <1>1, <1>2, <2>1 DEF Ordered
    <3> QED
      BY <1>3, <1>9, <1>11, <2>1, <3>1 DEF c
  <2>2. CASE g = h /\ x # s
    <3>1. outcome'[<<g, x>>] = outcome[<<g, x>>]
      BY <1>11, <2>2 DEF c
    <3>2. outcome[<<g, x>>] # "waiting"
      BY <1>1, <2>2 DEF Told, s
    <3> QED
      BY <1>1, <1>9, <2>2, <3>1, <3>2 DEF Told
  <2>3. CASE g # h
    <3>1. outcome'[<<g, x>>] = outcome[<<g, x>>]
      BY <1>11, <2>3 DEF c
    <3>2. outcome[<<g, x>>] # "waiting"
      BY <1>1, <1>7, <2>3 DEF Told, Running
    <3> QED
      BY <1>1, <1>7, <2>3, <3>1, <3>2 DEF Told
  <2> QED
    BY <2>1, <2>2, <2>3
<1>15. OneCall'
  <2>1. CASE Len(todo) = 1
    <3>1. ~ Session!HasRun(todo[1])
      BY <1>1, <2>1 DEF OneCall
    <3>2. todo[1] # c
      BY <1>3, <3>1 DEF Ran, c
    <3>3. todo[1] \in Handlers \X Steps
      <4>1. todo \in Seq(Handlers \X Steps) /\ 1 \in 1 .. Len(todo)
        BY <2>1 DEF Types
      <4> QED
        BY <4>1, ElementOfSeq
    <3> QED
      BY <1>1, <1>3, <1>11, <3>2, <3>3 DEF OneCall, Session!HasRun
  <2>2. CASE Len(todo) # 1
    BY <1>1, <1>3, <2>2 DEF OneCall
  <2> QED
    BY <2>1, <2>2
<1>16. SettingsFollow' /\ Decodes'
  BY <1>1, <1>3, <1>10, FieldRanks DEF SettingsFollow, Touches, Decodes, Asked, history
<1>17. Captured'
  <2> SUFFICES ASSUME NEW g \in Handlers, NEW f \in Fields
               PROVE  /\ Ran(g, ReadStep[f]) => value[g][f] = Original[f]
                      /\ outcome'[<<g, ReadStep[f]>>] = "ok"
                           => snapshot'[g][f] = Original[f]
    BY <1>3, <1>10, FieldRanks DEF Captured
  <2>1. Ran(g, ReadStep[f]) => value[g][f] = Original[f]
    BY <1>1 DEF Captured
  <2>2. CASE g = h /\ ReadStep[f] = s
    <3>1. snapshot'[g][f] = value[g][f]
      BY <1>3, <2>2 DEF Types
    <3> QED
      BY <1>3, <2>1, <2>2, <3>1
  <2>3. CASE ~ (g = h /\ ReadStep[f] = s)
    <3>1. outcome'[<<g, ReadStep[f]>>] = outcome[<<g, ReadStep[f]>>]
      BY <1>11, <2>3, FieldRanks DEF c
    <3>2. snapshot'[g][f] = snapshot[g][f]
      BY <1>3, <2>3 DEF Types
    <3> QED
      BY <1>1, <2>1, <3>1, <3>2 DEF Captured
  <2> QED
    BY <2>2, <2>3
<1> QED
  BY <1>12, <1>13, <1>14, <1>15, <1>16, <1>17 DEF QuietInv

(* The invariant holds at the start. *)
LEMMA AsmInitInv == AsmInit => AsmInv
<1> SUFFICES ASSUME AsmInit PROVE AsmInv
  OBVIOUS
<1> USE OverrideAssumption
<1>1. /\ todo = <<>> /\ effects = <<>> /\ stopped = FALSE
      /\ outcome = [c \in Handlers \X Steps |-> "unmade"]
      /\ asm = Original /\ overlapped = FALSE /\ failed = FALSE
      /\ want = [h \in Handlers |-> NoWish]
      /\ program = [h \in Handlers |-> <<>>]
      /\ value = [h \in Handlers |-> NoWish]
      /\ snapshot = [h \in Handlers |-> NoWish]
      /\ decoded = [h \in Handlers |-> NoWish]
  BY DEF AsmInit, Session!Init
<1>2. Types
  <2>1. Original \in Captures /\ NoWish \in Captures
    BY DEF Settings, Captures, NoWish
  <2>2. /\ todo \in Seq(Handlers \X Steps) /\ effects \in Seq(Handlers \X Steps)
        /\ \A h \in Handlers : program[h] \in Seq(Steps)
    BY <1>1
  <2>3. program \in [Handlers -> Seq(Steps)]
    BY <1>1, <2>2
  <2>4. outcome \in [Handlers \X Steps -> Outcomes]
    BY <1>1 DEF Outcomes
  <2>5. /\ want \in [Handlers -> Wishes \cup {NoWish}]
        /\ value \in [Handlers -> Captures] /\ snapshot \in [Handlers -> Captures]
        /\ decoded \in [Handlers -> Captures]
    BY <1>1, <2>1
  <2> QED
    BY <1>1, <2>1, <2>2, <2>3, <2>4, <2>5 DEF Types
<1>3. \A h \in Handlers : ~ Running(h) /\ Idle(h) /\ Ahead(h) = {} /\ Need(h) = {}
  BY <1>1 DEF Running, Idle, Ahead, Elements, Need
<1>4. \A h \in Handlers, s \in Steps : ~ Ran(h, s) /\ outcome[<<h, s>>] = "unmade"
  BY <1>1 DEF Ran, Session!HasRun
<1>5. Alone /\ Ordered
  BY <1>1, <1>3 DEF Alone, Ordered, InOrder
<1>6. Told
  BY <1>3, <1>4 DEF Told
<1>7. OneCall
  BY <1>1 DEF OneCall
<1>8. SettingsFollow /\ Captured /\ Decodes
  BY <1>1, <1>4, FieldRanks DEF SettingsFollow, Touches, Captured, Decodes
<1> QED
  BY <1>2, <1>5, <1>6, <1>7, <1>8 DEF AsmInv, QuietInv

(* Every step keeps the invariant. *)
LEMMA AsmNextInv == AsmInv /\ [AsmNext]_asmVars => AsmInv'
<1> SUFFICES ASSUME AsmInv, [AsmNext]_asmVars PROVE AsmInv'
  OBVIOUS
<1>1. Types /\ Types'
  BY TypesKept DEF AsmInv
<1> SUFFICES ASSUME Quiet' PROVE QuietInv'
  BY <1>1 DEF AsmInv
<1>2. CASE \E h \in Handlers, w \in Wishes : StartHandler(h, w)
  <2>1. Quiet
    BY <1>1, <1>2 DEF StartHandler, Quiet, Types
  <2> QED
    BY <1>1, <1>2, <2>1, StartKeeps DEF AsmInv
<1>3. CASE \E h \in Handlers : SendCall(h)
  <2>1. Quiet
    BY <1>3 DEF SendCall, Quiet, history
  <2> QED
    BY <1>1, <1>3, <2>1, SendKeeps DEF AsmInv
<1>4. CASE \E h \in Handlers : StepSucceeds(h)
  <2>1. Quiet
    BY <1>4 DEF StepSucceeds, Quiet, history
  <2> QED
    BY <1>1, <1>4, <2>1, SucceedsKeeps DEF AsmInv
<1>5. CASE \E h \in Handlers, how \in Failures : StepFails(h, how)
  BY <1>5 DEF StepFails, Quiet
<1>6. CASE \E h \in Handlers : StepIsGarbled(h) \/ RefuseRestore(h)
  BY <1>6 DEF StepIsGarbled, RefuseRestore, Quiet
<1>7. CASE R2Runs
  <2>1. Quiet
    BY <1>7 DEF R2Runs, Quiet
  <2> QED
    BY <1>1, <1>7, <2>1, RunKeeps DEF AsmInv
<1>8. CASE UNCHANGED asmVars
  <2>1. QuietInv
    BY <1>8 DEF asmVars, history, Quiet, AsmInv
  <2> QED
    BY <1>8, <2>1 DEF asmVars, execVars, history, QuietInv, Alone, Running,
         Ordered, Ahead, Need, Idle, Told, Ran, Session!HasRun, OneCall,
         SettingsFollow, Touches, Captured, Decodes, Asked
<1> QED
  BY <1>2, <1>3, <1>4, <1>5, <1>6, <1>7, <1>8 DEF AsmNext

(* The inductive invariant holds throughout. *)
THEOREM AsmInvariant == AsmSpec => []AsmInv
BY AsmInitInv, AsmNextInv, PTL DEF AsmSpec

(* Handlers that take turns decode under the settings they asked for and leave
   those they found, whatever the overrides and however many handlers. *)
THEOREM HandlersKeepSettings == AsmSpec => []TurnsKeepSettings
<1>1. AsmInv => TurnsKeepSettings
  <2> SUFFICES ASSUME AsmInv, Quiet PROVE TurnsKeepSettings
    BY DEF TurnsKeepSettings, TurnsRestore, TurnsDecodeAsAsked, Quiet
  <2>1. Types /\ QuietInv
    BY DEF AsmInv
  <2>2. TurnsRestore
    BY <2>1, RestIsOriginal DEF TurnsRestore
  <2>3. TurnsDecodeAsAsked
    BY <2>1 DEF TurnsDecodeAsAsked, QuietInv, Decodes
  <2> QED
    BY <2>2, <2>3 DEF TurnsKeepSettings
<1> QED
  BY <1>1, AsmInvariant, PTL

-----------------------------------------------------------------------------
(* What r2's settings are, whatever fails and however handlers overlap.    *)

(* What leaves a program is its first step. *)
LEMMA TailLosesFirst ==
  ASSUME Types, NEW h \in Handlers, Running(h)
  PROVE  \A t \in Ahead(h) : t = program[h][1] \/ t \in Elements(Tail(program[h]))
<1>1. /\ program[h] \in Seq(Steps) /\ program[h] # <<>>
      /\ Len(program[h]) \in Nat
      /\ Len(Tail(program[h])) = Len(program[h]) - 1
      /\ \A i \in 1 .. Len(program[h]) - 1 : Tail(program[h])[i] = program[h][i + 1]
  BY FirstStep, HeadTailProperties DEF Running
<1> SUFFICES ASSUME NEW i \in 1 .. Len(program[h]), i # 1
             PROVE  program[h][i] \in Elements(Tail(program[h]))
  BY DEF Ahead, Elements
<1>2. i - 1 \in 1 .. Len(program[h]) - 1 /\ (i - 1) + 1 = i
  BY <1>1
<1>3. Tail(program[h])[i - 1] = program[h][i]
  BY <1>1, <1>2
<1> QED
  BY <1>1, <1>2, <1>3 DEF Elements

(***************************************************************************)
(* A handler sends only what it needs, in order; what it has read is a     *)
(* setting, and it restores only what it has captured and not refused.     *)
(***************************************************************************)
Void == {Unset, Garbled}

Prepared(h) ==
  /\ InOrder(program[h]) /\ Ahead(h) \subseteq Need(h)
  /\ \A s \in Steps :
       /\ outcome[<<h, s>>] # "unmade" => s \in Need(h)
       /\ Ran(h, s) => outcome[<<h, s>>] # "unmade"
  /\ \A f \in Fields :
       /\ Ran(h, ReadStep[f]) => value[h][f] \notin Void
       /\ snapshot[h][f] # Unset => outcome[<<h, ReadStep[f]>>] = "ok"
       /\ ResetStep[f] \in Ahead(h) =>
            ReadStep[f] \in Ahead(h) \/ snapshot[h][f] # Unset
       /\ outcome[<<h, ResetStep[f]>>] # "unmade" => snapshot[h][f] \notin Void

SettingsHold ==
  /\ \A f \in Fields : asm[f] \notin Void
  /\ \A i \in 1 .. Len(todo) : outcome[todo[i]] # "unmade"
  /\ \A h \in Handlers : Prepared(h)

(* A step that changes nothing of a handler but what is still to be sent of *)
(* its program leaves it prepared.                                          *)
LEMMA StaysPrepared ==
  ASSUME NEW g \in Handlers, Prepared(g), want'[g] = want[g],
         program'[g] = program[g], value'[g] = value[g], snapshot'[g] = snapshot[g],
         \A s \in Steps : outcome'[<<g, s>>] = outcome[<<g, s>>],
         \A s \in Steps : Ran(g, s)' <=> Ran(g, s)
  PROVE  Prepared(g)'
<1>1. Ahead(g)' = Ahead(g) /\ Need(g)' = Need(g)
  BY DEF Ahead, Need, Idle
<1> QED
  BY <1>1, FieldRanks DEF Prepared

(* In an ordered sequence the first element has the least rank. *)
LEMMA FirstIsLeast ==
  ASSUME Types, NEW h \in Handlers, Running(h), InOrder(program[h])
  PROVE  /\ \A t \in Ahead(h) : t = program[h][1] \/ Rank(program[h][1]) < Rank(t)
         /\ InOrder(Tail(program[h]))
         /\ Elements(Tail(program[h])) \subseteq Ahead(h)
<1>1. /\ program[h] \in Seq(Steps) /\ program[h] # <<>>
      /\ Len(program[h]) \in Nat /\ Len(program[h]) >= 1
      /\ Len(Tail(program[h])) = Len(program[h]) - 1
      /\ \A i \in 1 .. Len(program[h]) - 1 : Tail(program[h])[i] = program[h][i + 1]
  BY FirstStep, HeadTailProperties DEF Running
<1> DEFINE n == Len(program[h])
<1>2. \A i \in 1 .. n : i = 1 \/ 1 < i
  BY <1>1
<1>3. 1 \in 1 .. n
  BY <1>1
<1>4. \A t \in Ahead(h) : t = program[h][1] \/ Rank(program[h][1]) < Rank(t)
  BY <1>2, <1>3 DEF Ahead, Elements, InOrder
<1>5. \A i \in 1 .. n - 1 : i + 1 \in 1 .. n
  BY <1>1
<1>6. \A i, j \in 1 .. n - 1 : i < j => i + 1 < j + 1
  BY <1>1
<1>7. InOrder(Tail(program[h]))
  BY <1>1, <1>5, <1>6 DEF InOrder
<1>8. Elements(Tail(program[h])) \subseteq Ahead(h)
  BY <1>1, <1>5 DEF Elements, Ahead
<1> QED
  BY <1>4, <1>7, <1>8

LEMMA SettingsHoldKept ==
  ASSUME Types, SettingsHold, [AsmNext]_asmVars
  PROVE  SettingsHold'
<1>1. ASSUME NEW h \in Handlers, NEW w \in Wishes, StartHandler(h, w)
      PROVE  SettingsHold'
  <2>1. /\ Idle(h) /\ want' = [want EXCEPT ![h] = w]
        /\ program' = [program EXCEPT ![h] = Program(w)]
        /\ UNCHANGED <<execVars, asm, value, snapshot>>
    BY <1>1 DEF StartHandler
  <2>2. /\ want'[h] = w /\ program'[h] = Program(w)
        /\ \A g \in Handlers : g # h => want'[g] = want[g] /\ program'[g] = program[g]
    BY <2>1 DEF Types
  <2>3. \A g \in Handlers, s \in Steps : Ran(g, s)' <=> Ran(g, s)
    BY <2>1 DEF execVars, Ran, Session!HasRun
  <2>4. \A g \in Handlers : g # h => Prepared(g)'
    BY <2>1, <2>2, <2>3, StaysPrepared DEF SettingsHold, execVars
  <2>5. \A s \in Steps : outcome[<<h, s>>] = "unmade" /\ ~ Ran(h, s)
    BY <2>1 DEF SettingsHold, Prepared, Need
  <2>6. Need(h)' = NeedOf(w) /\ Ahead(h)' = NeedOf(w) /\ InOrder(program'[h])
    <3>1. w # NoWish
      BY OverrideAssumption
    <3> QED
      BY <2>2, <3>1, ProgramIsInOrder DEF Ahead, Need, Idle
  <2>7. \A f \in Fields : ResetStep[f] \in NeedOf(w) => ReadStep[f] \in NeedOf(w)
    BY Needs
  <2>8. Prepared(h)'
    <3>1. \A f \in Fields : snapshot[h][f] = Unset
      BY <2>5, FieldRanks DEF SettingsHold, Prepared
    <3> QED
      BY <2>1, <2>3, <2>5, <2>6, <2>7, <3>1, FieldRanks DEF Prepared, execVars
  <2> QED
    BY <2>1, <2>4, <2>8 DEF SettingsHold, execVars
<1>2. ASSUME NEW h \in Handlers, SendCall(h)
      PROVE  SettingsHold'
  <2> DEFINE s == program[h][1]
             c == <<h, s>>
  <2>1. /\ Running(h) /\ Head(program[h]) = s /\ s \in Steps /\ s \in Ahead(h)
        /\ c \in Handlers \X Steps
        /\ UNCHANGED <<asm, want, program, value, snapshot>>
    BY <1>2, FirstStep DEF SendCall
  <2>2. /\ outcome' = [outcome EXCEPT ![c] = "waiting"]
        /\ todo' = Append(todo, c) /\ UNCHANGED effects
    BY <1>2, <2>1 DEF SendCall, Session!Submit, Types
  <2>3. \A d \in Handlers \X Steps :
          outcome'[d] = IF d = c THEN "waiting" ELSE outcome[d]
    BY <2>1, <2>2 DEF Types
  <2>4. \A g \in Handlers, x \in Steps : Ran(g, x)' <=> Ran(g, x)
    BY <2>2 DEF Ran, Session!HasRun
  <2>5. \A g \in Handlers : /\ Ahead(g)' = Ahead(g) /\ Need(g)' = Need(g)
                            /\ Need(g) \subseteq Steps
    BY <2>1, FieldRanks DEF Ahead, Need, Idle, NeedOf
  <2>6. \A i \in 1 .. Len(todo') : outcome'[todo'[i]] # "unmade"
    <3>1. /\ Len(todo) \in Nat /\ Len(todo') = Len(todo) + 1
          /\ todo'[Len(todo) + 1] = c
          /\ \A i \in 1 .. Len(todo) : todo'[i] = todo[i] /\ todo[i] \in Handlers \X Steps
      BY <2>1, <2>2, AppendProperties, LenProperties, ElementOfSeq DEF Types
    <3>2. \A i \in 1 .. Len(todo') : i \in 1 .. Len(todo) \/ i = Len(todo) + 1
      BY <3>1
    <3>3. \A i \in 1 .. Len(todo) : outcome[todo[i]] # "unmade"
      BY DEF SettingsHold
    <3> QED
      BY <2>1, <2>3, <3>1, <3>2, <3>3
  <2>7. \A g \in Handlers : g # h => Prepared(g)'
    BY <2>1, <2>3, <2>4, StaysPrepared DEF SettingsHold
  <2>8. \A f \in Fields : s = ResetStep[f] => snapshot[h][f] \notin Void
    <3> SUFFICES ASSUME NEW f \in Fields, s = ResetStep[f]
                 PROVE  snapshot[h][f] \notin Void
      OBVIOUS
    <3>2. snapshot[h][f] # Garbled
      BY <1>2, <2>1 DEF SendCall, RestoreIsRefused
    <3>1. ReadStep[f] \notin Ahead(h)
      <4>1. InOrder(program[h])
        BY DEF SettingsHold, Prepared
      <4>2. /\ ReadStep[f] # s /\ Rank(ReadStep[f]) \in Int /\ Rank(s) \in Int
            /\ Rank(ReadStep[f]) < Rank(s)
        BY StepsApart, FieldRanks
      <4> QED
        BY <2>1, <4>1, <4>2, FirstIsLeast
    <3> QED
      BY <2>1, <3>1, <3>2 DEF SettingsHold, Prepared, Void
  <2>9. Prepared(h)'
    <3>1. Prepared(h) /\ program'[h] = program[h] /\ value'[h] = value[h]
          /\ snapshot'[h] = snapshot[h]
      BY <2>1 DEF SettingsHold
    <3>2. \A x \in Steps : outcome'[<<h, x>>] # "unmade" => x = s \/ outcome[<<h, x>>] # "unmade"
      BY <2>3
    <3>3. \A x \in Steps : outcome[<<h, x>>] # "unmade" => outcome'[<<h, x>>] # "unmade"
      BY <2>3
    <3>4. Ahead(h)' = Ahead(h) /\ Need(h)' = Need(h)
      BY <2>5
    <3>5. outcome[c] = "unmade"
      BY <1>2, <2>1 DEF SendCall, Session!Submit
    <3>6. \A x \in Steps : outcome[<<h, x>>] = "ok" => outcome'[<<h, x>>] = "ok"
      BY <2>3, <3>5
    <3> HIDE DEF s, c
    <3> QED
      BY <2>1, <2>4, <2>8, <3>1, <3>2, <3>3, <3>4, <3>6, FieldRanks DEF Prepared
  <2> QED
    BY <2>1, <2>6, <2>7, <2>9 DEF SettingsHold
<1>3. ASSUME NEW h \in Handlers, NEW result \in {"ok", "err", "timeout"}, NEW left,
             Running(h),
             \/ outcome' = outcome
             \/ /\ outcome[<<h, program[h][1]>>] = "waiting"
                /\ outcome' = [outcome EXCEPT ![<<h, program[h][1]>>] = result],
             program' = [program EXCEPT ![h] = left],
             left = Tail(program[h]) \/ left = <<>>,
             UNCHANGED <<todo, effects, asm, want, value>>,
             \A g \in Handlers : g # h => snapshot'[g] = snapshot[g],
             \A f \in Fields :
               \/ snapshot'[h][f] = snapshot[h][f]
               \/ /\ program[h][1] = ReadStep[f] /\ snapshot'[h][f] # Unset
                  /\ outcome[<<h, program[h][1]>>] = "waiting"
                  /\ outcome' = [outcome EXCEPT ![<<h, program[h][1]>>] = "ok"],
             \A f \in Fields : (program[h][1] = ReadStep[f] /\ left # <<>>) =>
               snapshot'[h][f] # Unset
      PROVE  SettingsHold'
  <2> DEFINE s == program[h][1]
             c == <<h, s>>
  <2>1. s \in Steps /\ c \in Handlers \X Steps /\ s \in Ahead(h)
    BY <1>3, FirstStep
  <2>2. /\ \A d \in Handlers \X Steps : outcome'[d] = "unmade" <=> outcome[d] = "unmade"
        /\ \A d \in Handlers \X Steps : outcome[d] = "ok" => outcome'[d] = "ok"
        /\ \A d \in Handlers \X Steps : d # c => outcome'[d] = outcome[d]
    BY <1>3, <2>1 DEF Types
  <2>3. \A g \in Handlers, x \in Steps : Ran(g, x)' <=> Ran(g, x)
    BY <1>3 DEF Ran, Session!HasRun
  <2>4. \A g \in Handlers : g # h => Prepared(g)'
    <3>1. \A g \in Handlers : g # h => program'[g] = program[g]
      BY <1>3 DEF Types
    <3>2. \A g \in Handlers, x \in Steps : g # h => outcome'[<<g, x>>] = outcome[<<g, x>>]
      BY <2>2
    <3>3. \A g \in Handlers : g # h =>
            /\ Prepared(g) /\ want'[g] = want[g] /\ program'[g] = program[g]
            /\ value'[g] = value[g] /\ snapshot'[g] = snapshot[g]
      BY <1>3, <3>1 DEF SettingsHold
    <3> QED
      BY <2>3, <3>2, <3>3, StaysPrepared
  <2>5. \A i \in 1 .. Len(todo) : outcome'[todo[i]] # "unmade"
    BY <2>2, LenProperties, ElementOfSeq DEF SettingsHold, Types
  <2>6. program'[h] = left /\ Need(h)' = Need(h) /\ Ahead(h)' = Elements(left)
    BY <1>3 DEF Types, Need, Idle, Ahead
  <2>7. Prepared(h) /\ InOrder(program[h])
    BY DEF SettingsHold, Prepared
  <2>8. InOrder(left) /\ Elements(left) \subseteq Ahead(h)
    <3>1. CASE left = <<>>
      BY <3>1 DEF InOrder, Elements
    <3>2. CASE left = Tail(program[h])
      BY <1>3, <2>7, <3>2, FirstIsLeast
    <3> QED
      BY <1>3, <3>1, <3>2
  <2>9. \A f \in Fields : ResetStep[f] \in Elements(left) =>
          ReadStep[f] \in Elements(left) \/ snapshot'[h][f] # Unset
    <3> SUFFICES ASSUME NEW f \in Fields, ResetStep[f] \in Elements(left),
                        snapshot'[h][f] = Unset
                 PROVE  ReadStep[f] \in Elements(left)
      OBVIOUS
    <3>1. left # <<>> /\ left = Tail(program[h])
      BY <1>3 DEF Elements
    <3>2. s # ReadStep[f] /\ snapshot[h][f] = Unset
      BY <1>3, <3>1
    <3>3. ReadStep[f] \in Ahead(h)
      BY <2>7, <2>8, <3>2 DEF Prepared
    <3> QED
      BY <1>3, <3>1, <3>2, <3>3, TailLosesFirst
  <2>10. ASSUME NEW f \in Fields
         PROVE  /\ snapshot'[h][f] # Unset => outcome'[<<h, ReadStep[f]>>] = "ok"
                /\ outcome'[<<h, ResetStep[f]>>] # "unmade" => snapshot'[h][f] \notin Void
    <3>1. <<h, ReadStep[f]>> \in Handlers \X Steps /\ <<h, ResetStep[f]>> \in Handlers \X Steps
      BY FieldRanks
    <3>2. CASE snapshot'[h][f] = snapshot[h][f]
      BY <2>2, <2>7, <3>1, <3>2 DEF Prepared
    <3>3. CASE /\ s = ReadStep[f] /\ outcome[c] = "waiting"
               /\ outcome' = [outcome EXCEPT ![c] = "ok"]
      <4>1. outcome'[<<h, ReadStep[f]>>] = "ok"
        BY <2>1, <3>3 DEF Types
      <4>2. snapshot[h][f] = Unset
        BY <2>7, <3>3 DEF Prepared
      <4>3. outcome[<<h, ResetStep[f]>>] = "unmade"
        BY <2>7, <4>2 DEF Prepared, Void
      <4> QED
        BY <2>2, <3>1, <4>1, <4>3
    <3> QED
      BY <1>3, <3>2, <3>3
  <2>11. Prepared(h)'
    <3>1. \A x \in Steps : outcome'[<<h, x>>] = "unmade" <=> outcome[<<h, x>>] = "unmade"
      BY <2>2
    <3>2. value'[h] = value[h]
      BY <1>3
    <3> HIDE DEF s, c
    <3> QED
      BY <2>3, <2>6, <2>7, <2>8, <2>9, <2>10, <3>1, <3>2, FieldRanks DEF Prepared
  <2> QED
    BY <1>3, <2>4, <2>5, <2>11 DEF SettingsHold
<1>4. ASSUME NEW h \in Handlers, StepSucceeds(h)
      PROVE  SettingsHold'
  <2> DEFINE s == program[h][1]
  <2>1. Running(h) /\ Head(program[h]) = s /\ s \in Steps
    BY <1>4, FirstStep DEF StepSucceeds
  <2>2. /\ outcome[<<h, s>>] = "waiting" /\ Ran(h, s)
        /\ outcome' = [outcome EXCEPT ![<<h, s>>] = "ok"]
        /\ program' = [program EXCEPT ![h] = Tail(program[h])]
        /\ UNCHANGED <<todo, effects, asm, want, value>>
    BY <1>4, <2>1 DEF StepSucceeds, Session!Reply, Session!Tell, Ran
  <2>3. snapshot' = [snapshot EXCEPT ![h] =
          [f \in Fields |-> IF s = ReadStep[f] THEN value[h][f] ELSE snapshot[h][f]]]
    BY <1>4, <2>1 DEF StepSucceeds, Types
  <2>4. /\ \A g \in Handlers : g # h => snapshot'[g] = snapshot[g]
        /\ \A f \in Fields :
             snapshot'[h][f] = IF s = ReadStep[f] THEN value[h][f] ELSE snapshot[h][f]
    BY <2>3 DEF Types
  <2>5. \A f \in Fields : s = ReadStep[f] => value[h][f] # Unset
    BY <2>2 DEF SettingsHold, Prepared, Void
  <2> DEFINE left == Tail(program[h])
  <2>6. \A f \in Fields :
          \/ snapshot'[h][f] = snapshot[h][f]
          \/ /\ program[h][1] = ReadStep[f] /\ snapshot'[h][f] # Unset
             /\ outcome[<<h, program[h][1]>>] = "waiting"
             /\ outcome' = [outcome EXCEPT ![<<h, program[h][1]>>] = "ok"]
    BY <2>2, <2>4, <2>5
  <2>7. \A f \in Fields : (program[h][1] = ReadStep[f] /\ left # <<>>) => snapshot'[h][f] # Unset
    BY <2>4, <2>5
  <2>8. \A g \in Handlers : g # h => snapshot'[g] = snapshot[g]
    BY <2>4
  <2>9. /\ outcome[<<h, program[h][1]>>] = "waiting"
        /\ outcome' = [outcome EXCEPT ![<<h, program[h][1]>>] = "ok"]
        /\ program' = [program EXCEPT ![h] = left]
        /\ UNCHANGED <<todo, effects, asm, want, value>>
        /\ left = Tail(program[h]) \/ left = <<>>
    BY <2>2
  <2> HIDE DEF left, s
  <2> QED
    BY <1>3, <2>1, <2>6, <2>7, <2>8, <2>9
<1>5. ASSUME NEW h \in Handlers, NEW how \in Failures, StepFails(h, how)
      PROVE  SettingsHold'
  <2> DEFINE left == IF program[h][1] \in ApplySteps THEN <<>> ELSE Tail(program[h])
  <2>1. Running(h) /\ Head(program[h]) = program[h][1] /\ program[h][1] \in Steps
    BY <1>5, FirstStep DEF StepFails
  <2>2. how \in {"ok", "err", "timeout"}
    BY <1>5 DEF StepFails
  <2>3. /\ outcome[<<h, program[h][1]>>] = "waiting"
        /\ outcome' = [outcome EXCEPT ![<<h, program[h][1]>>] = how]
        /\ UNCHANGED <<todo, effects>>
    BY <1>5, <2>1 DEF StepFails, Session!Reply, Session!GiveUp, Session!Tell
  <2>4. /\ program' = [program EXCEPT ![h] = left]
        /\ UNCHANGED <<asm, want, value, snapshot>>
    BY <1>5, <2>1 DEF StepFails
  <2>5. left = Tail(program[h]) \/ left = <<>>
    OBVIOUS
  <2>6. \A f \in Fields : program[h][1] = ReadStep[f] => left = <<>>
    <3>1. \A f, g \in Fields : ReadStep[f] # ResetStep[g] /\ ReadStep[f] # "pdj"
      BY StepsApart
    <3> QED
      BY <2>1, <3>1 DEF ApplySteps
  <2> HIDE DEF left
  <2> QED
    BY <1>3, <2>1, <2>2, <2>3, <2>4, <2>5, <2>6
<1>6. ASSUME NEW h \in Handlers, StepIsGarbled(h)
      PROVE  SettingsHold'
  <2> DEFINE left == Tail(program[h])
  <2>1. Running(h) /\ Head(program[h]) = program[h][1] /\ program[h][1] \in Steps
    BY <1>6, FirstStep DEF StepIsGarbled
  <2>2. PICK f \in Fields :
          /\ program[h][1] = ReadStep[f]
          /\ outcome[<<h, ReadStep[f]>>] = "waiting"
          /\ outcome' = [outcome EXCEPT ![<<h, ReadStep[f]>>] = "ok"]
          /\ UNCHANGED <<todo, effects>>
          /\ snapshot' = [snapshot EXCEPT ![h][f] = Garbled]
    BY <1>6, <2>1 DEF StepIsGarbled, Session!Reply, Session!Tell
  <2>3. /\ program' = [program EXCEPT ![h] = left]
        /\ UNCHANGED <<asm, want, value>>
    BY <1>6 DEF StepIsGarbled
  <2>4. /\ \A g \in Handlers : g # h => snapshot'[g] = snapshot[g]
        /\ snapshot'[h] = [snapshot[h] EXCEPT ![f] = Garbled]
    BY <2>2 DEF Types
  <2>5. /\ snapshot'[h][f] = Garbled /\ Garbled # Unset
        /\ \A k \in Fields : k # f => snapshot'[h][k] = snapshot[h][k]
    BY <2>4, CaptureUpdate, OverrideAssumption DEF Types
  <2>6. \A k \in Fields : k # f => ReadStep[k] # program[h][1]
    BY <2>2, StepsApart
  <2>7. \A k \in Fields :
          \/ snapshot'[h][k] = snapshot[h][k]
          \/ /\ program[h][1] = ReadStep[k] /\ snapshot'[h][k] # Unset
             /\ outcome[<<h, program[h][1]>>] = "waiting"
             /\ outcome' = [outcome EXCEPT ![<<h, program[h][1]>>] = "ok"]
    BY <2>2, <2>5
  <2>8. \A k \in Fields : (program[h][1] = ReadStep[k] /\ left # <<>>) => snapshot'[h][k] # Unset
    BY <2>5, <2>6
  <2>9. /\ outcome[<<h, program[h][1]>>] = "waiting"
        /\ outcome' = [outcome EXCEPT ![<<h, program[h][1]>>] = "ok"]
        /\ left = Tail(program[h]) \/ left = <<>>
    BY <2>2
  <2>10. \A g \in Handlers : g # h => snapshot'[g] = snapshot[g]
    BY <2>4
  <2>11. UNCHANGED <<todo, effects, asm, want, value>>
    BY <2>2, <2>3
  <2> HIDE DEF left
  <2> QED
    BY <1>3, <2>1, <2>3, <2>7, <2>8, <2>9, <2>10, <2>11
<1>7. ASSUME NEW h \in Handlers, RefuseRestore(h)
      PROVE  SettingsHold'
  <2> DEFINE left == Tail(program[h])
  <2>1. Running(h) /\ Head(program[h]) = program[h][1] /\ program[h][1] \in Steps
    BY <1>7, FirstStep DEF RefuseRestore
  <2>2. \E f \in Fields : program[h][1] = ResetStep[f]
    BY <1>7, <2>1 DEF RefuseRestore, RestoreIsRefused
  <2>3. \A f \in Fields : program[h][1] # ReadStep[f]
    BY <2>2, StepsApart
  <2>4. /\ outcome' = outcome /\ program' = [program EXCEPT ![h] = left]
        /\ UNCHANGED <<todo, effects, asm, want, value, snapshot>>
        /\ left = Tail(program[h]) \/ left = <<>>
    BY <1>7 DEF RefuseRestore, execVars
  <2> HIDE DEF left
  <2> QED
    BY <1>3, <2>1, <2>3, <2>4
<1>8. ASSUME R2Runs
      PROVE  SettingsHold'
  <2> DEFINE h == Head(todo)[1]
             s == Head(todo)[2]
  <2>1. /\ todo \in Seq(Handlers \X Steps) /\ todo # <<>>
        /\ todo' = Tail(todo) /\ effects' = Append(effects, Head(todo))
        /\ UNCHANGED <<outcome, want, program, snapshot>>
    BY <1>8 DEF Types, R2Runs, Session!Run
  <2>2. /\ Len(todo) \in Nat \ {0} /\ Head(todo) = todo[1]
        /\ Head(todo) \in Handlers \X Steps /\ Len(todo') = Len(todo) - 1
        /\ \A i \in 1 .. Len(todo) - 1 : todo'[i] = todo[i + 1]
    BY <2>1, EmptySeq, HeadTailProperties
  <2>3. h \in Handlers /\ s \in Steps /\ Head(todo) = <<h, s>>
    BY <2>2
  <2>4. outcome[<<h, s>>] # "unmade"
    <3>1. 1 \in 1 .. Len(todo)
      BY <2>2
    <3> QED
      BY <2>2, <2>3, <3>1 DEF SettingsHold
  <2>5. \A i \in 1 .. Len(todo') : outcome'[todo'[i]] # "unmade"
    <3>1. \A i \in 1 .. Len(todo) - 1 : i + 1 \in 1 .. Len(todo)
      BY <2>2
    <3> QED
      BY <2>1, <2>2, <3>1 DEF SettingsHold
  <2>6. \A g \in Handlers, x \in Steps :
          Ran(g, x)' <=> Ran(g, x) \/ (g = h /\ x = s)
    <3>1. /\ Len(effects) \in Nat /\ Len(effects') = Len(effects) + 1
          /\ effects'[Len(effects) + 1] = <<h, s>>
          /\ \A i \in 1 .. Len(effects) : effects'[i] = effects[i]
          /\ DOMAIN effects = 1 .. Len(effects) /\ DOMAIN effects' = 1 .. Len(effects')
      BY <2>1, <2>2, <2>3, AppendProperties, LenProperties DEF Types
    <3>2. \A i \in 1 .. Len(effects') : i \in 1 .. Len(effects) \/ i = Len(effects) + 1
      BY <3>1
    <3>3. /\ \A i \in 1 .. Len(effects) : i \in 1 .. Len(effects')
          /\ Len(effects) + 1 \in 1 .. Len(effects')
      BY <3>1
    <3> HIDE DEF h, s
    <3> QED
      BY <3>1, <3>2, <3>3 DEF Ran, Session!HasRun
  <2>7. \A f \in Fields : /\ s = SetStep[f] => want[h][f] \notin Void
                          /\ s = ResetStep[f] => snapshot[h][f] \notin Void
    <3>1. s \in Need(h)
      BY <2>3, <2>4 DEF SettingsHold, Prepared
    <3>2. ~ Idle(h) /\ s \in NeedOf(want[h])
      BY <3>1 DEF Need
    <3>3. want[h] \in Partial
      BY <2>3, OverrideAssumption DEF Types, NoWish, Partial
    <3>4. \A f \in Fields : want[h][f] # Garbled
      BY <3>3, OverrideAssumption DEF Partial, Fields
    <3> HIDE DEF h, s
    <3>5. \A f \in Fields : s = SetStep[f] => want[h][f] \notin Void
      BY <2>3, <3>2, <3>4, Needs DEF Void
    <3>6. \A f \in Fields : s = ResetStep[f] => snapshot[h][f] \notin Void
      BY <2>3, <2>4 DEF SettingsHold, Prepared
    <3> QED
      BY <3>5, <3>6
  <2> HIDE DEF h, s
  <2>8. \/ /\ \E f \in Fields : s = ReadStep[f] /\ value' = [value EXCEPT ![h][f] = asm[f]]
           /\ UNCHANGED asm
        \/ /\ \E f \in Fields : \/ asm' = [asm EXCEPT ![f] = want[h][f]] /\ s = SetStep[f]
                                \/ asm' = [asm EXCEPT ![f] = snapshot[h][f]] /\ s = ResetStep[f]
           /\ UNCHANGED value /\ \A f \in Fields : s # ReadStep[f]
        \/ UNCHANGED <<asm, value>> /\ s = "pdj"
    BY <1>8, StepsApart DEF R2Runs, h, s
  <2>9. \A f \in Fields : asm'[f] \notin Void
    <3>1. ASSUME NEW f \in Fields, NEW v, v \notin Void, asm' = [asm EXCEPT ![f] = v]
          PROVE  \A k \in Fields : asm'[k] \notin Void
      <4>1. asm \in Captures
        BY DEF Types
      <4> QED
        BY <3>1, <4>1, CaptureUpdate DEF SettingsHold
    <3> QED
      BY <2>7, <2>8, <3>1 DEF SettingsHold
  <2>10. \A g \in Handlers, f \in Fields :
           value'[g][f] \notin Void \/ (value'[g][f] = value[g][f] /\ ~ (g = h /\ s = ReadStep[f]))
    <3>1. ASSUME NEW k \in Fields, s = ReadStep[k], value' = [value EXCEPT ![h][k] = asm[k]],
                 NEW g \in Handlers, NEW f \in Fields
          PROVE  value'[g][f] \notin Void \/ (value'[g][f] = value[g][f] /\ ~ (g = h /\ s = ReadStep[f]))
      <4>1. value[h] \in Captures /\ value \in [Handlers -> Captures]
        BY <2>3 DEF Types
      <4>2. g # h => value'[g] = value[g]
        BY <3>1, <4>1
      <4>3. value'[h] = [value[h] EXCEPT ![k] = asm[k]]
        BY <2>3, <3>1, <4>1
      <4>4. value'[h][k] = asm[k] /\ (f # k => value'[h][f] = value[h][f])
        BY <4>1, <4>3, CaptureUpdate
      <4>5. f # k => s # ReadStep[f]
        BY <3>1, StepsApart
      <4> QED
        BY <4>2, <4>4, <4>5 DEF SettingsHold
    <3>2. \A f \in Fields : "pdj" # ReadStep[f]
      BY StepsApart
    <3> QED
      BY <2>8, <3>1, <3>2
  <2>11. ASSUME NEW g \in Handlers PROVE Prepared(g)'
    <3>1. Prepared(g)
      BY DEF SettingsHold
    <3>2. Ahead(g)' = Ahead(g) /\ Need(g)' = Need(g)
      BY <2>1 DEF Ahead, Need, Idle
    <3>3. \A x \in Steps : outcome'[<<g, x>>] = outcome[<<g, x>>]
      BY <2>1
    <3>4. \A x \in Steps : Ran(g, x)' => outcome'[<<g, x>>] # "unmade"
      BY <2>4, <2>6, <3>1, <3>3 DEF Prepared
    <3>5. \A f \in Fields : Ran(g, ReadStep[f])' => value'[g][f] \notin Void
      BY <2>6, <2>10, <3>1, FieldRanks DEF Prepared
    <3>6. program'[g] = program[g] /\ snapshot'[g] = snapshot[g]
      BY <2>1
    <3> QED
      BY <3>1, <3>2, <3>3, <3>4, <3>5, <3>6, FieldRanks DEF Prepared
  <2> QED
    BY <2>5, <2>9, <2>11 DEF SettingsHold
<1>9. CASE UNCHANGED asmVars
  <2>1. UNCHANGED <<todo, effects, outcome, asm, want, program, value, snapshot>>
    BY <1>9 DEF asmVars, execVars
  <2>2. \A g \in Handlers, s \in Steps : Ran(g, s)' <=> Ran(g, s)
    BY <2>1 DEF Ran, Session!HasRun
  <2> QED
    BY <2>1, <2>2, StaysPrepared DEF SettingsHold
<1> QED
  BY <1>1, <1>2, <1>4, <1>5, <1>6, <1>7, <1>8, <1>9 DEF AsmNext

LEMMA SettingsHoldInit == AsmInit => SettingsHold
<1> SUFFICES ASSUME AsmInit PROVE SettingsHold
  OBVIOUS
<1>1. /\ todo = <<>> /\ effects = <<>> /\ asm = Original
      /\ outcome = [c \in Handlers \X Steps |-> "unmade"]
      /\ program = [h \in Handlers |-> <<>>]
      /\ snapshot = [h \in Handlers |-> NoWish]
  BY DEF AsmInit, Session!Init
<1>2. \A f \in Fields : asm[f] \notin Void
  BY <1>1, OverrideAssumption DEF Settings, Fields, Void
<1>3. \A h \in Handlers, s \in Steps : outcome[<<h, s>>] = "unmade" /\ ~ Ran(h, s)
  BY <1>1 DEF Ran, Session!HasRun
<1>4. \A h \in Handlers : Ahead(h) = {} /\ InOrder(program[h])
  BY <1>1 DEF Ahead, Elements, InOrder
<1>5. \A h \in Handlers, f \in Fields : snapshot[h][f] = Unset
  BY <1>1 DEF NoWish, Fields
<1>6. \A h \in Handlers : Prepared(h)
  BY <1>3, <1>4, <1>5, FieldRanks DEF Prepared
<1> QED
  BY <1>1, <1>2, <1>6 DEF SettingsHold

(* AsmTypeOK: whatever fails and however handlers overlap, r2 is never told *)
(* a setting that is none: a restore is sent only with a value that was     *)
(* captured and is one.                                                     *)
LEMMA SettingsAreTyped == Types /\ SettingsHold => AsmTypeOK
<1> SUFFICES ASSUME Types, SettingsHold PROVE AsmTypeOK
  OBVIOUS
<1>1. asm \in Settings
  <2>1. asm \in Captures /\ \A f \in Fields : asm[f] \notin Void
    BY DEF Types, SettingsHold
  <2> QED
    BY <2>1 DEF Captures, Settings, Fields, Void
<1> QED
  BY <1>1 DEF Types, AsmTypeOK

THEOREM SettingsAreAlwaysSettings == AsmSpec => []AsmTypeOK
<1>1. AsmInv => Types
  BY DEF AsmInv
<1> QED
  BY <1>1, SettingsHoldInit, SettingsHoldKept, SettingsAreTyped, AsmInvariant, PTL DEF AsmSpec

-----------------------------------------------------------------------------
(* What becomes of a handler whose calls fail. *)

(* A restore that restore_asm_settings does not send. *)
Refused(h, s) == \E f \in Fields : s = ResetStep[f] /\ snapshot[h][f] = Garbled

(* Either setting up failed, or each step that is behind was sent or refused. *)
Tried ==
  \A h \in Handlers :
    \/ \E s \in ApplySteps : outcome[<<h, s>>] \in Failures
    \/ \A s \in Need(h) \ Ahead(h) : outcome[<<h, s>>] # "unmade" \/ Refused(h, s)

(* A handler is answered and goes on, or ends if the step set it up. *)
LEMMA AnsweredKeepsTried ==
  ASSUME Types, SettingsHold, Tried, NEW h \in Handlers, Running(h),
         NEW result \in {"ok", "err", "timeout"},
         outcome' = [outcome EXCEPT ![<<h, program[h][1]>>] = result],
         outcome[<<h, program[h][1]>>] = "waiting",
         \A g \in Handlers, f \in Fields :
           \/ snapshot'[g][f] = snapshot[g][f]
           \/ g = h /\ program[h][1] = ReadStep[f],
         UNCHANGED want, NEW left,
         program' = [program EXCEPT ![h] = left],
         \/ left = Tail(program[h])
         \/ program[h][1] \in ApplySteps /\ result \in Failures
  PROVE  Tried'
<1> DEFINE s == program[h][1]
           c == <<h, s>>
<1>1. s \in Steps /\ program'[h] = left
      /\ \A g \in Handlers : g # h => program'[g] = program[g]
  BY FirstStep DEF Types
<1>2. /\ outcome'[c] = result
      /\ \A d \in Handlers \X Steps : d # c => outcome'[d] = outcome[d]
  BY <1>1 DEF Types
<1>3. "waiting" \notin Failures /\ result # "unmade"
  BY OverrideAssumption
<1> SUFFICES ASSUME NEW g \in Handlers
             PROVE  \/ \E x \in ApplySteps : outcome'[<<g, x>>] \in Failures
                    \/ \A x \in Need(g)' \ Ahead(g)' :
                         outcome'[<<g, x>>] # "unmade" \/ Refused(g, x)'
  BY DEF Tried
<1>4. Need(g)' = Need(g)
  BY DEF Need, Idle
<1>5. Need(g) \subseteq Steps /\ ApplySteps \subseteq Steps
  BY FieldRanks DEF Need, NeedOf, ApplySteps
<1>6. ASSUME NEW x, Refused(g, x)
      PROVE  Refused(g, x)'
  <2>1. PICK f \in Fields : x = ResetStep[f] /\ snapshot[g][f] = Garbled
    BY <1>6 DEF Refused
  <2>2. outcome[<<g, ReadStep[f]>>] = "ok"
    <3>1. Garbled # Unset
      BY OverrideAssumption
    <3>2. Prepared(g)
      BY DEF SettingsHold
    <3> QED
      BY <2>1, <3>1, <3>2 DEF Prepared
  <2>3. snapshot'[g][f] = snapshot[g][f]
    BY <2>2
  <2> QED
    BY <2>1, <2>3 DEF Refused
<1>7. CASE \E x \in ApplySteps : outcome[<<g, x>>] \in Failures
  <2>1. PICK x \in ApplySteps : outcome[<<g, x>>] \in Failures
    BY <1>7
  <2>2. <<g, x>> # c
    BY <1>3, <2>1
  <2>3. outcome'[<<g, x>>] = outcome[<<g, x>>]
    BY <1>2, <1>5, <2>2
  <2> QED
    BY <2>1, <2>3
<1>8. CASE s \in ApplySteps /\ result \in Failures /\ g = h
  BY <1>2, <1>8
<1>9. CASE /\ \A x \in Need(g) \ Ahead(g) : outcome[<<g, x>>] # "unmade" \/ Refused(g, x)
           /\ g = h /\ left = Tail(program[h])
  <2> SUFFICES ASSUME NEW x \in Need(g) \ Ahead(g)' 
               PROVE  outcome'[<<g, x>>] # "unmade" \/ Refused(g, x)'
    BY <1>4
  <2>1. CASE x = s
    BY <1>2, <1>3, <1>9, <2>1
  <2>2. CASE x # s
    <3>1. x \notin Ahead(g)
      BY <1>1, <1>9, <2>2, TailLosesFirst DEF Ahead
    <3> QED
      BY <1>2, <1>5, <1>6, <1>9, <2>2, <3>1
  <2> QED
    BY <2>1, <2>2
<1>10. CASE /\ g # h
           /\ \A x \in Need(g) \ Ahead(g) : outcome[<<g, x>>] # "unmade" \/ Refused(g, x)
  <2>1. Ahead(g)' = Ahead(g)
    BY <1>1, <1>10 DEF Ahead
  <2> QED
    BY <1>2, <1>4, <1>5, <1>6, <1>10, <2>1
<1> QED
  BY <1>7, <1>8, <1>9, <1>10 DEF Tried

(* Every step keeps it so. *)
LEMMA TriedKept ==
  ASSUME Types, SettingsHold, Tried, [AsmNext]_asmVars
  PROVE  Tried'
<1>1. ASSUME NEW h \in Handlers, NEW w \in Wishes, StartHandler(h, w)
      PROVE  Tried'
  <2>1. /\ outcome' = outcome /\ snapshot' = snapshot
        /\ want'[h] = w /\ program'[h] = Program(w)
        /\ \A g \in Handlers : g # h => want'[g] = want[g] /\ program'[g] = program[g]
    BY <1>1 DEF StartHandler, execVars, Types
  <2>2. Ahead(h)' = NeedOf(w) /\ (Need(h)' = NeedOf(w) \/ Need(h)' = {})
    BY <2>1, ProgramIsInOrder DEF Ahead, Need, Idle
  <2>3. \A g \in Handlers : g # h => Ahead(g)' = Ahead(g) /\ Need(g)' = Need(g)
    BY <2>1 DEF Ahead, Need, Idle
  <2> QED
    BY <2>1, <2>2, <2>3 DEF Tried, Refused
<1>2. ASSUME NEW h \in Handlers, SendCall(h)
      PROVE  Tried'
  <2> DEFINE c == <<h, program[h][1]>>
  <2>1. Running(h) /\ Head(program[h]) = program[h][1] /\ c \in Handlers \X Steps
        /\ UNCHANGED <<want, program, snapshot>>
    BY <1>2, FirstStep DEF SendCall
  <2>2. outcome[c] = "unmade" /\ outcome' = [outcome EXCEPT ![c] = "waiting"]
    BY <1>2, <2>1 DEF SendCall, Session!Submit
  <2>3. \A d \in Handlers \X Steps :
          outcome'[d] = IF d = c THEN "waiting" ELSE outcome[d]
    BY <2>1, <2>2 DEF Types
  <2>4. "unmade" \notin Failures
    BY OverrideAssumption
  <2>5. \A g \in Handlers : /\ Ahead(g)' = Ahead(g) /\ Need(g)' = Need(g)
                            /\ Need(g) \subseteq Steps
    BY <2>1, FieldRanks DEF Ahead, Need, Idle, NeedOf
  <2>6. \A d \in Handlers \X Steps :
          /\ outcome[d] \in Failures => outcome'[d] \in Failures
          /\ outcome[d] # "unmade" => outcome'[d] # "unmade"
    BY <2>2, <2>3, <2>4
  <2>7. ApplySteps \subseteq Steps
    BY DEF ApplySteps
  <2> HIDE DEF c
  <2> QED
    BY <2>1, <2>5, <2>6, <2>7 DEF Tried, Refused
<1>3. ASSUME NEW h \in Handlers, StepSucceeds(h)
      PROVE  Tried'
  <2>1. Running(h) /\ Head(program[h]) = program[h][1]
    BY <1>3, FirstStep DEF StepSucceeds
  <2>2. /\ outcome[<<h, program[h][1]>>] = "waiting"
        /\ outcome' = [outcome EXCEPT ![<<h, program[h][1]>>] = "ok"]
        /\ program' = [program EXCEPT ![h] = Tail(program[h])]
        /\ UNCHANGED want
    BY <1>3, <2>1 DEF StepSucceeds, Session!Reply, Session!Tell
  <2>3. \A g \in Handlers, f \in Fields :
          \/ snapshot'[g][f] = snapshot[g][f]
          \/ g = h /\ program[h][1] = ReadStep[f]
    BY <1>3, <2>1 DEF StepSucceeds, Types
  <2> QED
    BY <2>1, <2>2, <2>3, AnsweredKeepsTried
<1>4. ASSUME NEW h \in Handlers, NEW how \in Failures, StepFails(h, how)
      PROVE  Tried'
  <2> DEFINE left == IF program[h][1] \in ApplySteps THEN <<>> ELSE Tail(program[h])
  <2>1. Running(h) /\ Head(program[h]) = program[h][1]
    BY <1>4, FirstStep DEF StepFails
  <2>2. how \in {"ok", "err", "timeout"}
    BY <1>4 DEF StepFails
  <2>3. /\ outcome[<<h, program[h][1]>>] = "waiting"
        /\ outcome' = [outcome EXCEPT ![<<h, program[h][1]>>] = how]
    BY <1>4, <2>1 DEF StepFails, Session!Reply, Session!GiveUp, Session!Tell
  <2>4. program' = [program EXCEPT ![h] = left] /\ UNCHANGED <<want, snapshot>>
    BY <1>4, <2>1 DEF StepFails
  <2> QED
    BY <2>1, <2>2, <2>3, <2>4, AnsweredKeepsTried
<1>5. ASSUME NEW h \in Handlers, StepIsGarbled(h)
      PROVE  Tried'
  <2>1. Running(h) /\ Head(program[h]) = program[h][1]
    BY <1>5, FirstStep DEF StepIsGarbled
  <2>2. PICK f \in Fields :
          /\ program[h][1] = ReadStep[f]
          /\ outcome[<<h, ReadStep[f]>>] = "waiting"
          /\ outcome' = [outcome EXCEPT ![<<h, ReadStep[f]>>] = "ok"]
          /\ snapshot' = [snapshot EXCEPT ![h][f] = Garbled]
    BY <1>5, <2>1 DEF StepIsGarbled, Session!Reply, Session!Tell
  <2>3. program' = [program EXCEPT ![h] = Tail(program[h])] /\ UNCHANGED want
    BY <1>5 DEF StepIsGarbled
  <2>4. /\ \A g \in Handlers : g # h => snapshot'[g] = snapshot[g]
        /\ \A k \in Fields : k # f => snapshot'[h][k] = snapshot[h][k]
    BY <2>2, CaptureUpdate DEF Types
  <2>5. \A g \in Handlers, k \in Fields :
          \/ snapshot'[g][k] = snapshot[g][k]
          \/ g = h /\ program[h][1] = ReadStep[k]
    BY <2>2, <2>4
  <2> QED
    BY <2>1, <2>2, <2>3, <2>5, AnsweredKeepsTried
<1>6. ASSUME NEW h \in Handlers, RefuseRestore(h)
      PROVE  Tried'
  <2>1. Running(h) /\ Head(program[h]) = program[h][1]
    BY <1>6, FirstStep DEF RefuseRestore
  <2>2. /\ program' = [program EXCEPT ![h] = Tail(program[h])]
        /\ UNCHANGED <<outcome, want, snapshot>>
    BY <1>6 DEF RefuseRestore, execVars
  <2>3. Refused(h, program[h][1])
    BY <1>6, <2>1 DEF RefuseRestore, RestoreIsRefused, Refused
  <2>4. \A g \in Handlers : Need(g)' = Need(g) /\ (g # h => Ahead(g)' = Ahead(g))
    BY <2>2 DEF Need, Idle, Ahead, Types
  <2>5. Ahead(h)' = Elements(Tail(program[h]))
    BY <2>2 DEF Ahead, Types
  <2>6. \A s \in Need(h) \ Ahead(h)' : s \in Need(h) \ Ahead(h) \/ s = program[h][1]
    BY <2>1, <2>5, TailLosesFirst
  <2>7. \A g \in Handlers : \A s : Refused(g, s)' <=> Refused(g, s)
    BY <2>2 DEF Refused
  <2> QED
    BY <2>2, <2>3, <2>4, <2>6, <2>7 DEF Tried
<1>7. CASE R2Runs \/ UNCHANGED asmVars
  BY <1>7 DEF R2Runs, Session!Run, asmVars, execVars, Tried, Refused, Need, Ahead, Idle
<1> QED
  BY <1>1, <1>2, <1>3, <1>4, <1>5, <1>6, <1>7 DEF AsmNext

(* A handler that was set up sends each restore whose captured value is not
   refused, and none whose value is, whatever fails then and whatever other
   handlers do. *)
THEOREM RestoresAreSent == AsmSpec => []RestoreIsTried
<1>1. AsmInit => Tried
  BY DEF AsmInit, Tried, Need, Idle
<1>2. Types /\ SettingsHold /\ Tried /\ [AsmNext]_asmVars => Tried'
  BY TriedKept
<1>3. Types /\ SettingsHold /\ Tried => RestoreIsTried
  <2> SUFFICES ASSUME Types, SettingsHold, Tried,
                      NEW h \in Handlers, ~ Idle(h), ~ Running(h),
                      \A s \in ApplySteps : outcome[<<h, s>>] \notin Failures,
                      NEW f \in Fields, want[h][f] # Unset
               PROVE  outcome[<<h, ResetStep[f]>>] # "unmade" <=> snapshot[h][f] # Garbled
    BY DEF RestoreIsTried
  <2>1. ResetStep[f] \in Need(h)
    BY Needs DEF Need
  <2>2. Ahead(h) = {}
    BY DEF Ahead, Elements, Running
  <2>3. outcome[<<h, ResetStep[f]>>] # "unmade" \/ Refused(h, ResetStep[f])
    BY <2>1, <2>2 DEF Tried
  <2>4. Refused(h, ResetStep[f]) => snapshot[h][f] = Garbled
    BY StepsApart DEF Refused
  <2>5. outcome[<<h, ResetStep[f]>>] # "unmade" => snapshot[h][f] # Garbled
    BY DEF SettingsHold, Prepared, Void
  <2> QED
    BY <2>3, <2>4, <2>5
<1>4. AsmInv => Types
  BY DEF AsmInv
<1> QED
  BY <1>1, <1>2, <1>3, <1>4, SettingsHoldInit, SettingsHoldKept, AsmInvariant, PTL DEF AsmSpec

-----------------------------------------------------------------------------
(***************************************************************************)
(* OutputGuard: overflow files are whole, and expire.                      *)
(***************************************************************************)

InCall == {"create", "write", "keep", "list", "sweep", "report"}

(* The labels of a call whose file has been made and not given up. *)
Filed == {"write", "keep", "list", "sweep", "report", "reported"}

(* A call that has not begun has no file, and nobody is removing one. *)
IdleIsClean ==
  \A g \in Guards : pc[g] = "idle" =>
    files[g] = None /\ \A h \in Guards : doomed[h] # g

(* No file is older than the call that made it, no time read lies ahead of
   the clock, and a call in progress is not too old. *)
Times ==
  \A g \in Guards :
    /\ files[g] # None => began[g] <= files[g] /\ files[g] <= clock
    /\ began[g] <= clock
    /\ now[g] <= clock
    /\ pc[g] \in InCall => clock - began[g] <= MaxCall

(* Only files of calls that began more than TTL ago are being removed. *)
DoomedIsOld ==
  \A g \in Guards : doomed[g] # None =>
    pc[g] = "sweep" /\ clock - began[doomed[g]] > TTL

(* The file of a younger call is there. *)
YoungIsThere ==
  \A g \in Guards :
    (pc[g] \in Filed /\ clock - began[g] <= TTL) => files[g] # None

(* A clean-up keeps track of the entries it has yet to deal with. *)
SweepInv ==
  \A g \in Guards :
    /\ pc[g] \notin {"sweep", "report"} => swept[g] = {}
    /\ pc[g] = "report" => listed[g] = {} /\ doomed[g] = None
    /\ \A f \in swept[g] :
         f \in listed[g] \/ f = doomed[g] \/ ~Expired(f, now[g])

IInv ==
  /\ TypeOK
  /\ IdleIsClean
  /\ Times
  /\ DoomedIsOld
  /\ YoungIsThere
  /\ SweepInv

(***************************************************************************)
(* Every step keeps the invariant: one lemma per action, one step per      *)
(* conjunct.                                                               *)
(***************************************************************************)

(* The clock ticks, while no call has taken MaxCall. *)
LEMMA TickStep ==
  ASSUME IInv, Tick
  PROVE  IInv'
<1> USE DEF Tick, Labels
<1>1. TypeOK'
  BY GuardAssumption DEF IInv, TypeOK
<1>2. IdleIsClean'
  BY DEF IInv, IdleIsClean
<1>3. Times'
  BY GuardAssumption DEF IInv, Times, TypeOK, InCall
<1>4. DoomedIsOld'
  BY GuardAssumption DEF IInv, DoomedIsOld, TypeOK
<1>5. YoungIsThere'
  BY GuardAssumption DEF IInv, YoungIsThere, TypeOK
<1>6. SweepInv'
  BY DEF IInv, SweepInv, Expired
<1>7. QED
  BY <1>1, <1>2, <1>3, <1>4, <1>5, <1>6 DEF IInv

(* guard_str is called. *)
LEMMA CallStep ==
  ASSUME IInv, NEW g \in Guards, NEW t \in Texts, Call(g, t)
  PROVE  IInv'
<1> USE DEF Call, Goto, Labels
<1>1. TypeOK'
  BY DEF IInv, TypeOK
<1>2. IdleIsClean'
  BY DEF IInv, IdleIsClean
<1>3. Times'
  BY GuardAssumption DEF IInv, Times, TypeOK, IdleIsClean
<1>4. DoomedIsOld'
  BY DEF IInv, DoomedIsOld, IdleIsClean
<1>5. YoungIsThere'
  BY DEF IInv, YoungIsThere, Filed
<1>6. SweepInv'
  BY DEF IInv, SweepInv, Expired
<1>7. QED
  BY <1>1, <1>2, <1>3, <1>4, <1>5, <1>6 DEF IInv

(* The file is made. *)
LEMMA CreateStep ==
  ASSUME IInv, NEW g \in Guards, Create(g)
  PROVE  IInv'
<1> USE DEF Create, Goto, Labels
<1>1. TypeOK'
  BY DEF IInv, TypeOK
<1>2. IdleIsClean'
  BY DEF IInv, IdleIsClean
<1>3. Times'
  BY DEF IInv, Times, TypeOK, InCall
<1>4. DoomedIsOld'
  BY DEF IInv, DoomedIsOld
<1>5. YoungIsThere'
  BY GuardAssumption DEF IInv, YoungIsThere, TypeOK
<1>6. SweepInv'
  BY GuardAssumption DEF IInv, SweepInv, TypeOK, Times, Expired
<1>7. QED
  BY <1>1, <1>2, <1>3, <1>4, <1>5, <1>6 DEF IInv

(* The text is written to it. *)
LEMMA WriteStep ==
  ASSUME IInv, NEW g \in Guards, Write(g)
  PROVE  IInv'
<1> USE DEF Write, Goto, Labels
<1>1. TypeOK'
  BY DEF IInv, TypeOK
<1>2. IdleIsClean'
  BY GuardAssumption DEF IInv, IdleIsClean, TypeOK, DoomedIsOld
<1>3. Times'
  BY DEF IInv, Times, TypeOK, InCall
<1>4. DoomedIsOld'
  BY DEF IInv, DoomedIsOld
<1>5. YoungIsThere'
  BY GuardAssumption DEF IInv, YoungIsThere, TypeOK, Filed
<1>6. SweepInv'
  BY GuardAssumption DEF IInv, SweepInv, TypeOK, Times, Expired
<1>7. QED
  BY <1>1, <1>2, <1>3, <1>4, <1>5, <1>6 DEF IInv

(* The file outlives its handle. *)
LEMMA KeepStep ==
  ASSUME IInv, NEW g \in Guards, Keep(g)
  PROVE  IInv'
<1> USE DEF Keep, Goto, Labels
<1>1. TypeOK'
  BY DEF IInv, TypeOK
<1>2. IdleIsClean'
  BY DEF IInv, IdleIsClean
<1>3. Times'
  BY DEF IInv, Times, InCall
<1>4. DoomedIsOld'
  BY DEF IInv, DoomedIsOld
<1>5. YoungIsThere'
  BY DEF IInv, YoungIsThere, Filed
<1>6. SweepInv'
  BY DEF IInv, SweepInv, Expired
<1>7. QED
  BY <1>1, <1>2, <1>3, <1>4, <1>5, <1>6 DEF IInv

(* A system call fails and the file goes with its handle. *)
LEMMA FaultStep ==
  ASSUME IInv, NEW g \in Guards, Fault(g)
  PROVE  IInv'
<1> USE DEF Fault, Goto, Labels
<1>1. TypeOK'
  BY DEF IInv, TypeOK
<1>2. IdleIsClean'
  BY DEF IInv, IdleIsClean
<1>3. Times'
  BY DEF IInv, Times, InCall
<1>4. DoomedIsOld'
  BY DEF IInv, DoomedIsOld
<1>5. YoungIsThere'
  BY DEF IInv, YoungIsThere, TypeOK, Filed
<1>6. SweepInv'
  BY DEF IInv, SweepInv, Expired
<1>7. QED
  BY <1>1, <1>2, <1>3, <1>4, <1>5, <1>6 DEF IInv

(* cleanup_expired reads the time and the directory. *)
LEMMA ListStep ==
  ASSUME IInv, NEW g \in Guards, List(g)
  PROVE  IInv'
<1> USE DEF List, Goto, Labels, Present
<1>1. TypeOK'
  <2>1. now' \in [Guards -> 0 .. MaxTime]
    BY DEF IInv, TypeOK
  <2>2. CASE UNCHANGED <<listed, swept>>
    BY <2>1, <2>2 DEF IInv, TypeOK
  <2>3. CASE listed' = [listed EXCEPT ![g] = Present] /\ swept' = [swept EXCEPT ![g] = Present]
    <3>1. Present \in SUBSET Guards
      OBVIOUS
    <3>2. listed' \in [Guards -> SUBSET Guards] /\ swept' \in [Guards -> SUBSET Guards]
      BY <2>3, <3>1 DEF IInv, TypeOK
    <3>3. QED
      BY <2>1, <3>2 DEF IInv, TypeOK
  <2>4. QED
    BY <2>2, <2>3
<1>2. IdleIsClean'
  BY DEF IInv, IdleIsClean
<1>3. Times'
  BY DEF IInv, Times, TypeOK, InCall
<1>4. DoomedIsOld'
  BY DEF IInv, DoomedIsOld
<1>5. YoungIsThere'
  BY DEF IInv, YoungIsThere, Filed
<1>6. SweepInv'
  BY DEF IInv, SweepInv, TypeOK, Expired
<1>7. QED
  BY <1>1, <1>2, <1>3, <1>4, <1>5, <1>6 DEF IInv

(* It looks at an entry. *)
LEMMA ExamineStep ==
  ASSUME IInv, NEW g \in Guards, NEW f \in Guards, Examine(g, f)
  PROVE  IInv'
<1>1. /\ pc[g] = "sweep" /\ doomed[g] = None /\ f \in listed[g]
      /\ listed' = [listed EXCEPT ![g] = @ \ {f}]
      /\ UNCHANGED <<clock, files, pc, text, began, now>>
  BY DEF Examine
<1>2. CASE /\ doomed' = [doomed EXCEPT ![g] = IF Expired(f, now[g]) THEN f ELSE None]
           /\ UNCHANGED swept
  <2>1. TypeOK'
    BY <1>1, <1>2 DEF IInv, TypeOK, Labels
  <2>2. IdleIsClean'
    BY <1>1, <1>2 DEF IInv, IdleIsClean, Expired
  <2>3. Times'
    BY <1>1 DEF IInv, Times
  <2>4. DoomedIsOld'
    BY <1>1, <1>2, GuardAssumption DEF IInv, DoomedIsOld, TypeOK, Times, Expired
  <2>5. YoungIsThere'
    BY <1>1 DEF IInv, YoungIsThere
  <2>6. SweepInv'
    BY <1>1, <1>2, GuardAssumption DEF IInv, SweepInv, TypeOK, Expired
  <2> QED
    BY <2>1, <2>2, <2>3, <2>4, <2>5, <2>6 DEF IInv
<1>3. CASE swept' = [swept EXCEPT ![g] = @ \ {f}] /\ UNCHANGED doomed
  <2>1. TypeOK'
    BY <1>1, <1>3 DEF IInv, TypeOK, Labels
  <2>2. IdleIsClean'
    BY <1>1, <1>3 DEF IInv, IdleIsClean
  <2>3. Times'
    BY <1>1 DEF IInv, Times
  <2>4. DoomedIsOld'
    BY <1>1, <1>3 DEF IInv, DoomedIsOld
  <2>5. YoungIsThere'
    BY <1>1 DEF IInv, YoungIsThere
  <2>6. SweepInv'
    BY <1>1, <1>3, GuardAssumption DEF IInv, SweepInv, TypeOK, Expired
  <2> QED
    BY <2>1, <2>2, <2>3, <2>4, <2>5, <2>6 DEF IInv
<1> QED
  BY <1>2, <1>3 DEF Examine

(* It removes one that has expired. *)
LEMMA RemoveFileStep ==
  ASSUME IInv, NEW g \in Guards, RemoveFile(g)
  PROVE  IInv'
<1> USE DEF RemoveFile, Labels
<1>1. TypeOK'
  <2>1. doomed[g] \in Guards
    BY DEF IInv, TypeOK
  <2>2. CASE UNCHANGED swept
    BY <2>1, <2>2 DEF IInv, TypeOK
  <2>3. CASE swept' = [swept EXCEPT ![g] = @ \ {doomed[g]}] /\ UNCHANGED files
    <3>1. swept[g] \ {doomed[g]} \in SUBSET Guards
      BY DEF IInv, TypeOK
    <3>2. swept' \in [Guards -> SUBSET Guards]
      BY <2>3, <3>1 DEF IInv, TypeOK
    <3>3. QED
      BY <2>3, <3>2 DEF IInv, TypeOK
  <2>4. QED
    BY <2>2, <2>3
<1>2. IdleIsClean'
  BY DEF IInv, IdleIsClean, TypeOK, DoomedIsOld
<1>3. Times'
  BY DEF IInv, Times, TypeOK
<1>4. DoomedIsOld'
  BY DEF IInv, DoomedIsOld
<1>5. YoungIsThere'
  BY GuardAssumption DEF IInv, YoungIsThere, TypeOK, DoomedIsOld
<1>6. SweepInv'
  <2>1. PICK f \in Guards : f = doomed[g] /\ pc[g] = "sweep"
    BY DEF IInv, TypeOK, DoomedIsOld
  <2>2. \A h, e \in Guards : ~Expired(e, now[h]) => ~Expired(e, now[h])'
    BY <2>1 DEF IInv, TypeOK, Expired
  <2>3. CASE files' = [files EXCEPT ![f] = None] /\ UNCHANGED swept
    <3>1. ~Expired(f, now[g])'
      BY <2>1, <2>3 DEF IInv, TypeOK, Expired
    <3>2. QED
      BY <2>1, <2>2, <2>3, <3>1 DEF IInv, TypeOK, SweepInv
  <2>4. CASE swept' = [swept EXCEPT ![g] = @ \ {f}] /\ UNCHANGED files
    <3>1. f \notin swept'[g] /\ \A h \in Guards : swept'[h] \subseteq swept[h]
      BY <2>1, <2>4 DEF IInv, TypeOK
    <3>2. QED
      BY <2>1, <2>2, <2>4, <3>1 DEF IInv, TypeOK, SweepInv
  <2>5. QED
    BY <2>1, <2>3, <2>4
<1>7. QED
  BY <1>1, <1>2, <1>3, <1>4, <1>5, <1>6 DEF IInv

(* It ends. *)
LEMMA SweptStep ==
  ASSUME IInv, NEW g \in Guards, Swept(g)
  PROVE  IInv'
<1> USE DEF Swept, Goto, Labels
<1>1. TypeOK'
  BY DEF IInv, TypeOK
<1>2. IdleIsClean'
  BY DEF IInv, IdleIsClean
<1>3. Times'
  BY DEF IInv, Times, InCall
<1>4. DoomedIsOld'
  BY DEF IInv, DoomedIsOld
<1>5. YoungIsThere'
  BY DEF IInv, YoungIsThere, Filed
<1>6. SweepInv'
  BY DEF IInv, SweepInv, Expired
<1>7. QED
  BY <1>1, <1>2, <1>3, <1>4, <1>5, <1>6 DEF IInv

(* guard_str returns. *)
LEMMA ReportStep ==
  ASSUME IInv, NEW g \in Guards, Report(g)
  PROVE  IInv'
<1> USE DEF Report, Goto, Labels
<1>1. TypeOK'
  BY GuardAssumption DEF IInv, TypeOK
<1>2. IdleIsClean'
  BY DEF IInv, IdleIsClean
<1>3. Times'
  BY DEF IInv, Times, TypeOK, InCall
<1>4. DoomedIsOld'
  BY DEF IInv, DoomedIsOld
<1>5. YoungIsThere'
  BY DEF IInv, YoungIsThere, Filed
<1>6. SweepInv'
  BY DEF IInv, SweepInv, TypeOK, Expired
<1>7. QED
  BY <1>1, <1>2, <1>3, <1>4, <1>5, <1>6 DEF IInv

(***************************************************************************)
(* The invariant, and what it promises                                     *)
(***************************************************************************)

(* At the start there is no call and no file. *)
LEMMA InitInv == Init => IInv
<1> SUFFICES ASSUME Init PROVE IInv
  OBVIOUS
<1> USE GuardAssumption DEF Init, Labels
<1>1. TypeOK
  BY DEF TypeOK
<1>2. IdleIsClean /\ Times /\ DoomedIsOld /\ YoungIsThere /\ SweepInv
  BY DEF IdleIsClean, Times, DoomedIsOld, YoungIsThere, SweepInv, InCall, Filed
<1>3. QED
  BY <1>1, <1>2 DEF IInv

(* A step that changes nothing keeps it. *)
LEMMA StutterStep ==
  ASSUME IInv, UNCHANGED vars
  PROVE  IInv'
<1> USE DEF IInv, vars
<1>1. TypeOK' /\ IdleIsClean' /\ Times'
  BY DEF TypeOK, IdleIsClean, Times
<1>2. DoomedIsOld' /\ YoungIsThere'
  BY DEF DoomedIsOld, YoungIsThere
<1>3. SweepInv'
  BY DEF SweepInv, Expired
<1>4. QED
  BY <1>1, <1>2, <1>3

(* Every step keeps it. *)
LEMMA NextInv == IInv /\ [Next]_vars => IInv'
<1> SUFFICES ASSUME IInv, [Next]_vars PROVE IInv'
  OBVIOUS
<1>1. ASSUME Tick PROVE IInv'
  BY <1>1, TickStep
<1>2. ASSUME NEW g \in Guards, NEW t \in Texts, Call(g, t) PROVE IInv'
  BY <1>2, CallStep
<1>3. ASSUME NEW g \in Guards,
             Create(g) \/ Write(g) \/ Keep(g) \/ Fault(g)
      PROVE  IInv'
  BY <1>3, CreateStep, WriteStep, KeepStep, FaultStep
<1>4. ASSUME NEW g \in Guards, NEW f \in Guards, Examine(g, f) PROVE IInv'
  BY <1>4, ExamineStep
<1>5. ASSUME NEW g \in Guards,
             List(g) \/ RemoveFile(g) \/ Swept(g) \/ Report(g)
      PROVE  IInv'
  BY <1>5, ListStep, RemoveFileStep, SweptStep, ReportStep
<1>6. ASSUME UNCHANGED vars PROVE IInv'
  BY <1>6, StutterStep
<1>7. QED
  BY <1>1, <1>2, <1>3, <1>4, <1>5, <1>6 DEF Next

(* Every behaviour of the guard keeps the invariant. *)
LEMMA SpecInv == Spec => []IInv
<1>1. QED
  BY InitInv, NextInv, PTL DEF Spec

(* OutputGuard's state is well formed. *)
THEOREM GuardType == Spec => []TypeOK
<1>1. IInv => TypeOK
  BY DEF IInv
<1>2. QED
  BY <1>1, SpecInv, PTL

(* The file guard_str reports is there for its time to live, however many
   calls clean the directory meanwhile. *)
THEOREM GuardReportedStays == Spec => []ReportedStays
<1>1. IInv => ReportedStays
  BY DEF IInv, YoungIsThere, ReportedStays, Filed
<1>2. QED
  BY <1>1, SpecInv, PTL

(* cleanup_expired leaves nothing that had expired when it began, except for
   entries it could not list, read or remove. *)
THEOREM GuardSweepIsThorough == Spec => []SweepIsThorough
<1>1. IInv => SweepIsThorough
  BY GuardAssumption DEF IInv, TypeOK, SweepInv, SweepIsThorough
<1>2. QED
  BY <1>1, SpecInv, PTL

-----------------------------------------------------------------------------
(***************************************************************************)
(* ExtractBytes and HandlerSteps: files are whole, and all of it at once.  *)
(***************************************************************************)

Busies == {"test", "parent", "open", "write"}

(* Requests for a path that is not crossed take turns on it. *)
OneBusy ==
  \A r, q \in Requests :
    (exPc[r] \in Busies /\ exPc[q] \in Busies /\ path[r] = path[q]
       /\ path[r] \notin crossed) => r = q

(* Who is about to write has a file to write to, ... *)
Made == \A r \in Requests : exPc[r] = "write" => file[path[r]] \in Seq(Nat)

(* ... and an empty one if the path is not crossed. *)
Emptied ==
  \A r \in Requests :
    (exPc[r] = "write" /\ path[r] \notin crossed) => file[path[r]] = <<>>

(* What a request saw is still so until it opens the file, ... *)
Looked ==
  \A r \in Requests :
    (exPc[r] \in {"parent", "open"} /\ path[r] \notin crossed) =>
      (existed[r] <=> file[path[r]] # Nothing)

(* ... allows it to go on, ... *)
Allowed ==
  \A r \in Requests :
    exPc[r] \in {"parent", "open", "write", "written"} => (existed[r] => clobber[r])

(* ... and is afterwards what it did. *)
Did ==
  \A r \in Requests :
    /\ exPc[r] \in {"idle", "test", "parent", "open"} => r \notin replaced
    /\ (exPc[r] \in {"write", "written"} /\ path[r] \notin crossed) =>
         (existed[r] <=> r \in replaced)

(* Unless somebody is about to write, a file holds what was reported. *)
Holds ==
  \A p \in Paths \ crossed :
    (/\ \A r \in Requests : ~ (exPc[r] = "write" /\ path[r] = p)
     /\ \E r \in Requests : exPc[r] = "written" /\ path[r] = p)
      => \E r \in Requests :
           exPc[r] = "written" /\ path[r] = p /\ file[p] = bytes[r]

XInv ==
  /\ ExtractTypeOK
  /\ OneBusy /\ Made /\ Emptied /\ Looked /\ Allowed /\ Did /\ Holds

(* Writing over an empty file leaves what was written; what any write leaves
   is a file. *)
LEMMA WriteOver ==
  ASSUME NEW new \in Seq(Nat), NEW old \in Seq(Nat)
  PROVE  Over(new, old) \in Seq(Nat) /\ Over(new, <<>>) = new
<1>1. SubSeq(old, Len(new) + 1, Len(old)) \in Seq(Nat)
  <2>1. Len(new) \in Nat /\ Len(old) \in Nat
    BY LenProperties
  <2>2. \A i \in Len(new) + 1 .. Len(old) : i \in 1 .. Len(old)
    BY <2>1
  <2>3. \A i \in Len(new) + 1 .. Len(old) : old[i] \in Nat
    BY <2>2, ElementOfSeq
  <2> QED
    BY <2>1, <2>3, SubSeqProperties
<1>2. Over(new, old) \in Seq(Nat)
  BY <1>1, ConcatProperties DEF Over
<1>3. SubSeq(<<>>, Len(new) + 1, Len(<<>>)) = <<>>
  OBVIOUS
<1>4. new \o <<>> = new
  BY ConcatEmptySeq
<1> QED
  BY <1>2, <1>3, <1>4 DEF Over

(* A request starts. *)
LEMMA ExtractKeeps ==
  ASSUME XInv, NEW r \in Requests, NEW p \in Paths \cup {Nothing},
         NEW flag \in BOOLEAN, NEW data \in Data, Extract(r, p, flag, data)
  PROVE  XInv'
<1> USE ExtractAssumption
<1>1. /\ exPc[r] = "idle"
      /\ path'[r] = p /\ clobber'[r] = flag /\ bytes'[r] = data
      /\ exPc'[r] = IF p = Nothing THEN "extracted" ELSE "test"
      /\ UNCHANGED <<file, parent, existed, replaced>>
  BY DEF XInv, ExtractTypeOK, Extract, GoesTo
<1>2. \A q \in Requests : q # r =>
        /\ exPc'[q] = exPc[q] /\ path'[q] = path[q]
        /\ clobber'[q] = clobber[q] /\ bytes'[q] = bytes[q]
  BY DEF XInv, ExtractTypeOK, Extract, GoesTo
<1>3. crossed' = IF p # Nothing /\ Busy(p) # {} THEN crossed \cup {p} ELSE crossed
  BY DEF Extract
<1>4. crossed \subseteq crossed' /\ crossed' \subseteq Paths
  BY <1>3 DEF XInv, ExtractTypeOK
<1>5. ExtractTypeOK'
  <2>1. /\ path' \in [Requests -> Paths \cup {Nothing}]
        /\ clobber' \in [Requests -> BOOLEAN]
        /\ bytes' \in [Requests -> Data \cup {<<>>}]
        /\ exPc' \in [Requests -> {"idle", "test", "parent", "open", "write",
                          "extracted", "written", "refused", "error"}]
    BY DEF XInv, ExtractTypeOK, Extract, GoesTo
  <2> QED
    BY <1>1, <1>2, <1>4, <2>1 DEF XInv, ExtractTypeOK
<1>6. OneBusy'
  <2>1. ASSUME NEW q \in Requests, q # r, exPc[q] \in Busies, path[q] = p,
               p # Nothing
        PROVE  p \in crossed'
    BY <1>3, <2>1 DEF Busy, Busies
  <2> QED
    BY <1>1, <1>2, <1>4, <2>1 DEF XInv, OneBusy, Busies
<1>7. Made' /\ Emptied' /\ Looked' /\ Allowed'
  BY <1>1, <1>2, <1>4 DEF XInv, Made, Emptied, Looked, Allowed
<1>8. Did'
  BY <1>1, <1>2, <1>4 DEF XInv, Did
<1>9. Holds'
  BY <1>1, <1>2, <1>4 DEF XInv, Holds
<1> QED
  BY <1>5, <1>6, <1>7, <1>8, <1>9 DEF XInv

(* A request goes on, or ends, without touching a file. *)
LEMMA QuietStepKeeps ==
  ASSUME XInv, NEW r \in Requests, NEW label, GoesTo(r, label),
         UNCHANGED <<file, request, crossed, replaced>>,
         parent' \in [Paths -> {"missing", "there", "blocked"}],
         existed' \in [Requests -> BOOLEAN],
         \A q \in Requests : q # r => existed'[q] = existed[q],
         \/ exPc[r] = "idle" /\ label = "error"
         \/ exPc[r] = "test" /\ label \in {"refused", "parent"}
            /\ (existed'[r] <=> file[path[r]] # Nothing)
            /\ (label = "parent" => (existed'[r] => clobber[r]))
         \/ exPc[r] = "parent" /\ label \in {"error", "open"} /\ UNCHANGED existed
         \/ exPc[r] = "open" /\ label = "error" /\ UNCHANGED existed
  PROVE  XInv'
<1>1. /\ exPc'[r] = label /\ label \in {"error", "refused", "parent", "open"}
      /\ exPc[r] \in {"idle", "test", "parent", "open"}
      /\ \A q \in Requests : q # r => exPc'[q] = exPc[q]
      /\ UNCHANGED <<file, path, clobber, bytes, crossed, replaced>>
  BY DEF XInv, ExtractTypeOK, GoesTo, request
<1>2. label \in Busies => exPc[r] \in Busies
  BY DEF Busies
<1>3. ExtractTypeOK'
  <2>1. exPc' \in [Requests -> {"idle", "test", "parent", "open", "write",
                          "extracted", "written", "refused", "error"}]
    BY <1>1 DEF XInv, ExtractTypeOK, GoesTo
  <2> QED
    BY <1>1, <2>1 DEF XInv, ExtractTypeOK
<1>4. OneBusy'
  BY <1>1, <1>2 DEF XInv, OneBusy
<1>5. Made' /\ Emptied'
  BY <1>1 DEF XInv, Made, Emptied
<1>6. Looked' /\ Allowed'
  BY <1>1 DEF XInv, Looked, Allowed
<1>7. Did'
  BY <1>1 DEF XInv, Did
<1>8. Holds'
  BY <1>1 DEF XInv, Holds
<1> QED
  BY <1>3, <1>4, <1>5, <1>6, <1>7, <1>8 DEF XInv

(* A request opens its file. *)
LEMMA TruncateKeeps ==
  ASSUME XInv, NEW r \in Requests, Truncate(r)
  PROVE  XInv'
<1>1. /\ exPc[r] = "open" /\ exPc'[r] = "write" /\ path[r] \in Paths
      /\ \A q \in Requests : q # r => exPc'[q] = exPc[q]
      /\ file'[path[r]] = <<>>
      /\ \A p \in Paths : p # path[r] => file'[p] = file[p]
      /\ replaced' = IF file[path[r]] = Nothing THEN replaced ELSE replaced \cup {r}
      /\ UNCHANGED <<parent, path, clobber, bytes, existed, crossed>>
  BY DEF XInv, ExtractTypeOK, Truncate, GoesTo, request
<1>2. <<>> \in Seq(Nat)
  BY EmptySeq
<1>3. \A q \in Requests : q # r /\ exPc[q] \in Busies /\ path[q] = path[r]
                            => path[r] \in crossed
  BY <1>1 DEF XInv, OneBusy, Busies
<1>4. ExtractTypeOK'
  <2>1. /\ exPc' \in [Requests -> {"idle", "test", "parent", "open", "write",
                          "extracted", "written", "refused", "error"}]
        /\ file' \in [Paths -> Seq(Nat) \cup {Nothing}]
    BY <1>2 DEF XInv, ExtractTypeOK, Truncate, GoesTo
  <2> QED
    BY <1>1, <2>1 DEF XInv, ExtractTypeOK
<1>5. OneBusy'
  BY <1>1 DEF XInv, OneBusy, Busies
<1>6. Made' /\ Emptied'
  <2>1. \A q \in Requests : exPc'[q] = "write" => path[q] \in Paths
    BY <1>1 DEF XInv, ExtractTypeOK
  <2> QED
    BY <1>1, <1>2, <2>1 DEF XInv, Made, Emptied
<1>7. Looked'
  <2> SUFFICES ASSUME NEW q \in Requests, exPc'[q] \in {"parent", "open"},
                      path[q] \notin crossed
               PROVE  existed[q] <=> file'[path[q]] # Nothing
    BY <1>1 DEF Looked
  <2>1. q # r /\ exPc[q] \in {"parent", "open"} /\ path[q] \in Paths
    BY <1>1 DEF XInv, ExtractTypeOK
  <2>2. path[q] # path[r]
    BY <1>3, <2>1 DEF Busies
  <2> QED
    BY <1>1, <2>1, <2>2 DEF XInv, Looked
<1>8. Allowed'
  BY <1>1 DEF XInv, Allowed
<1>9. Did'
  BY <1>1 DEF XInv, Did, Looked
<1>10. Holds'
  <2> SUFFICES ASSUME NEW p \in Paths \ crossed,
                      \A q \in Requests : ~ (exPc'[q] = "write" /\ path[q] = p),
                      \E q \in Requests : exPc'[q] = "written" /\ path[q] = p
               PROVE  \E q \in Requests :
                        exPc'[q] = "written" /\ path[q] = p /\ file'[p] = bytes[q]
    BY <1>1 DEF Holds
  <2>1. p # path[r]
    BY <1>1
  <2>2. /\ \A q \in Requests : ~ (exPc[q] = "write" /\ path[q] = p)
        /\ \E q \in Requests : exPc[q] = "written" /\ path[q] = p
    BY <1>1, <2>1
  <2>3. PICK q \in Requests : exPc[q] = "written" /\ path[q] = p /\ file[p] = bytes[q]
    BY <2>2 DEF XInv, Holds
  <2> QED
    BY <1>1, <2>1, <2>3
<1> QED
  BY <1>4, <1>5, <1>6, <1>7, <1>8, <1>9, <1>10 DEF XInv

(* A request writes its bytes, or some of them, and ends. *)
LEMMA WriteKeeps ==
  ASSUME XInv, NEW r \in Requests, exPc[r] = "write",
         NEW new \in Seq(Nat),
         file' = [file EXCEPT ![path[r]] = Over(new, @)],
         NEW label, GoesTo(r, label),
         UNCHANGED <<parent, request, existed, replaced>>,
         \/ label = "written" /\ new = bytes[r] /\ UNCHANGED crossed
         \/ label = "error" /\ crossed' = crossed \cup {path[r]}
  PROVE  XInv'
<1> USE ExtractAssumption
<1>1. /\ exPc'[r] = label /\ label \in {"error", "written"} /\ path[r] \in Paths
      /\ \A q \in Requests : q # r => exPc'[q] = exPc[q]
      /\ UNCHANGED <<parent, path, clobber, bytes, existed, replaced>>
      /\ crossed \subseteq crossed' /\ crossed' \subseteq Paths
      /\ label = "error" => path[r] \in crossed'
  BY DEF XInv, ExtractTypeOK, GoesTo, request
<1>2. /\ file[path[r]] \in Seq(Nat) /\ file'[path[r]] = Over(new, file[path[r]])
      /\ file'[path[r]] \in Seq(Nat)
      /\ \A p \in Paths : p # path[r] => file'[p] = file[p]
  BY <1>1, WriteOver DEF XInv, ExtractTypeOK, Made
<1>3. \A q \in Requests : q # r /\ exPc[q] \in Busies /\ path[q] = path[r]
                            => path[r] \in crossed
  BY <1>1 DEF XInv, OneBusy, Busies
<1>4. path[r] \notin crossed' => label = "written" /\ file'[path[r]] = bytes[r]
  BY <1>1, <1>2, WriteOver DEF XInv, Emptied
<1>5. ExtractTypeOK'
  <2>1. exPc' \in [Requests -> {"idle", "test", "parent", "open", "write",
                          "extracted", "written", "refused", "error"}]
    BY <1>1 DEF XInv, ExtractTypeOK, GoesTo
  <2>2. file' \in [Paths -> Seq(Nat) \cup {Nothing}]
    BY <1>1, <1>2, WriteOver DEF XInv, ExtractTypeOK
  <2> QED
    BY <1>1, <2>1, <2>2 DEF XInv, ExtractTypeOK
<1>6. OneBusy'
  BY <1>1 DEF XInv, OneBusy, Busies
<1>7. ASSUME NEW q \in Requests, exPc'[q] \in Busies
      PROVE  /\ q # r /\ exPc[q] = exPc'[q] /\ path[q] \in Paths
             /\ path[q] \notin crossed' => /\ path[q] # path[r]
                                           /\ file'[path[q]] = file[path[q]]
             /\ file[path[q]] \in Seq(Nat) => file'[path[q]] \in Seq(Nat)
  <2>1. q # r /\ exPc[q] = exPc'[q]
    BY <1>1, <1>7 DEF Busies
  <2>2. path[q] \in Paths
    BY <1>7, <2>1 DEF XInv, ExtractTypeOK, Busies
  <2>3. path[q] \notin crossed' => path[q] # path[r]
    BY <1>1, <1>3, <1>7, <2>1
  <2> QED
    BY <1>2, <2>1, <2>2, <2>3
<1>8. Made' /\ Emptied' /\ Looked'
  BY <1>1, <1>7 DEF XInv, Made, Emptied, Looked, Busies
<1>9. Allowed'
  BY <1>1 DEF XInv, Allowed
<1>10. Did'
  BY <1>1 DEF XInv, Did
<1>11. Holds'
  <2> SUFFICES ASSUME NEW p \in Paths \ crossed',
                      \A q \in Requests : ~ (exPc'[q] = "write" /\ path[q] = p),
                      \E q \in Requests : exPc'[q] = "written" /\ path[q] = p
               PROVE  \E q \in Requests :
                        exPc'[q] = "written" /\ path[q] = p /\ file'[p] = bytes[q]
    BY <1>1 DEF Holds
  <2>1. CASE p = path[r]
    BY <1>1, <1>4, <2>1
  <2>2. CASE p # path[r]
    <3>1. /\ \A q \in Requests : ~ (exPc[q] = "write" /\ path[q] = p)
          /\ \E q \in Requests : exPc[q] = "written" /\ path[q] = p
      BY <1>1, <2>2
    <3>2. PICK q \in Requests : exPc[q] = "written" /\ path[q] = p /\ file[p] = bytes[q]
      BY <1>1, <3>1 DEF XInv, Holds
    <3> QED
      BY <1>1, <1>2, <2>2, <3>2
  <2> QED
    BY <2>1, <2>2
<1> QED
  BY <1>5, <1>6, <1>8, <1>9, <1>10, <1>11 DEF XInv

(* The invariant holds at the start. *)
LEMMA ExtractInitInv == ExtractInit => XInv
<1> SUFFICES ASSUME ExtractInit PROVE XInv
  OBVIOUS
<1>1. ExtractTypeOK
  BY ExtractAssumption DEF ExtractInit, ExtractTypeOK
<1>2. \A r \in Requests : exPc[r] = "idle" /\ r \notin replaced
  BY DEF ExtractInit
<1>3. OneBusy /\ Made /\ Emptied /\ Looked /\ Allowed /\ Did /\ Holds
  BY <1>2 DEF OneBusy, Busies, Made, Emptied, Looked, Allowed, Did, Holds
<1> QED
  BY <1>1, <1>3 DEF XInv

(* Every step keeps the invariant. *)
LEMMA ExtractNextInv == XInv /\ [ExtractNext]_exVars => XInv'
<1> SUFFICES ASSUME XInv, [ExtractNext]_exVars PROVE XInv'
  OBVIOUS
<1> USE ExtractAssumption
<1>1. ASSUME NEW r \in Requests, ExtractFails(r) PROVE XInv'
  <2>1. /\ exPc[r] = "idle" /\ GoesTo(r, "error")
        /\ UNCHANGED <<file, parent, request, existed, crossed, replaced>>
    BY <1>1 DEF ExtractFails
  <2> QED
    BY <2>1, QuietStepKeeps DEF XInv, ExtractTypeOK
<1>2. ASSUME NEW r \in Requests, TestExists(r) PROVE XInv'
  <2> DEFINE label == IF existed'[r] /\ ~clobber[r] THEN "refused" ELSE "parent"
  <2>1. /\ exPc[r] = "test" /\ GoesTo(r, label)
        /\ existed' = [existed EXCEPT ![r] = file[path[r]] # Nothing]
        /\ UNCHANGED <<file, parent, request, crossed, replaced>>
    BY <1>2 DEF TestExists
  <2>2. /\ existed' \in [Requests -> BOOLEAN]
        /\ existed'[r] <=> file[path[r]] # Nothing
        /\ \A q \in Requests : q # r => existed'[q] = existed[q]
    BY <2>1 DEF XInv, ExtractTypeOK
  <2>3. clobber[r] \in BOOLEAN /\ label \in {"refused", "parent"}
        /\ (label = "parent" => (existed'[r] => clobber[r]))
    BY DEF XInv, ExtractTypeOK
  <2> HIDE DEF label
  <2> QED
    BY <2>1, <2>2, <2>3, QuietStepKeeps DEF XInv, ExtractTypeOK
<1>3. ASSUME NEW r \in Requests, MakeParent(r) PROVE XInv'
  <2>1. /\ exPc[r] = "parent"
        /\ GoesTo(r, "error") \/ GoesTo(r, "open")
        /\ parent' = parent \/ parent' = [parent EXCEPT ![path[r]] = "there"]
        /\ UNCHANGED <<file, request, existed, crossed, replaced>>
    BY <1>3 DEF MakeParent
  <2>2. /\ parent' \in [Paths -> {"missing", "there", "blocked"}]
        /\ existed \in [Requests -> BOOLEAN]
    BY <2>1 DEF XInv, ExtractTypeOK
  <2> QED
    BY <2>1, <2>2, QuietStepKeeps
<1>4. ASSUME NEW r \in Requests, OpenFails(r) PROVE XInv'
  <2>1. /\ exPc[r] = "open" /\ GoesTo(r, "error")
        /\ UNCHANGED <<file, parent, request, existed, crossed, replaced>>
    BY <1>4 DEF OpenFails
  <2> QED
    BY <2>1, QuietStepKeeps DEF XInv, ExtractTypeOK
<1>5. ASSUME NEW r \in Requests, WriteBytes(r) PROVE XInv'
  <2>1. bytes[r] \in Seq(Nat)
    BY EmptySeq DEF XInv, ExtractTypeOK
  <2> QED
    BY <1>5, <2>1, WriteKeeps DEF WriteBytes
<1>6. ASSUME NEW r \in Requests, WriteBytesFails(r) PROVE XInv'
  <2>1. bytes[r] \in Seq(Nat)
    BY EmptySeq DEF XInv, ExtractTypeOK
  <2>2. PICK n \in 0 .. Len(bytes[r]) :
          file' = [file EXCEPT ![path[r]] = Over(SubSeq(bytes[r], 1, n), @)]
    BY <1>6 DEF WriteBytesFails
  <2>3. SubSeq(bytes[r], 1, n) \in Seq(Nat)
    <3>1. Len(bytes[r]) \in Nat
      BY <2>1, LenProperties
    <3>2. \A i \in 1 .. n : bytes[r][i] \in Nat
      BY <2>1, <3>1, ElementOfSeq
    <3> QED
      BY <3>1, <3>2, SubSeqProperties
  <2> QED
    BY <1>6, <2>2, <2>3, WriteKeeps DEF WriteBytesFails
<1>7. CASE UNCHANGED exVars
  BY <1>7 DEF exVars, request, XInv, ExtractTypeOK, OneBusy, Made, Emptied,
       Looked, Allowed, Did, Holds
<1>8. ASSUME NEW r \in Requests,
             \E p \in Paths \cup {Nothing}, flag \in BOOLEAN, data \in Data :
               Extract(r, p, flag, data)
      PROVE  XInv'
  BY <1>8, ExtractKeeps
<1>9. ASSUME NEW r \in Requests, Truncate(r) PROVE XInv'
  BY <1>9, TruncateKeeps
<1> QED
  BY <1>1, <1>2, <1>3, <1>4, <1>5, <1>6, <1>7, <1>8, <1>9 DEF ExtractNext

(* The inductive invariant holds throughout. *)
THEOREM ExtractInvariant == ExtractSpec => []XInv
BY ExtractInitInv, ExtractNextInv, PTL DEF ExtractSpec

(* Requests that take turns on a path leave the file they report, and say so
   when they wrote over one, for any number of requests, paths and contents. *)
THEOREM RequestsReportTruly == ExtractSpec => []TurnsReportTruly
<1>1. XInv => TurnsReportTruly
  <2> SUFFICES ASSUME XInv PROVE TurnsReportTruly
    OBVIOUS
  <2>1. TurnsHoldWhatTheyReport
    BY DEF TurnsHoldWhatTheyReport, XInv, Holds, Busy
  <2>2. TurnsTellOverwrites
    BY DEF TurnsTellOverwrites, XInv, Did, Allowed
  <2> QED
    BY <2>1, <2>2 DEF TurnsReportTruly
<1> QED
  BY <1>1, ExtractInvariant, PTL

-----------------------------------------------------------------------------
(* HandlerSteps                                                            *)

(***************************************************************************)
(* What handlers do to one kind of what they share is what its module      *)
(* says, whatever they do to the others.                                   *)
(***************************************************************************)
LEMMA KindsAreApart == SharedSpec => AsmSpec /\ Spec /\ ExtractSpec
<1>1. SharedInit => AsmInit /\ Init /\ ExtractInit
  BY DEF SharedInit
<1>2. [SharedNext]_sharedVars => [AsmNext]_asmVars /\ [Next]_vars /\ [ExtractNext]_exVars
  BY DEF SharedNext, sharedVars
<1> QED
  BY <1>1, <1>2, PTL DEF SharedSpec, AsmSpec, Spec, ExtractSpec

(* SharedTypeOK: settings, files and requests keep their types; of the     *)
(* settings that means that no restore is sent that was never captured.    *)
THEOREM SharedIsTyped == SharedSpec => []SharedTypeOK
<1>1. XInv => ExtractTypeOK
  BY DEF XInv
<1>2. AsmTypeOK /\ TypeOK /\ ExtractTypeOK => SharedTypeOK
  BY DEF SharedTypeOK
<1> QED
  BY <1>1, <1>2, KindsAreApart, SettingsAreAlwaysSettings, GuardType, ExtractInvariant, PTL

(* What the run of HandlerSteps checks besides: settings are kept by       *)
(* handlers that take turns (TurnsKeepSettings) and a restore is sent if   *)
(* its value is good (RestoreIsTried), a reported file stays (ReportedStays) and an expired  *)
(* one goes (SweepIsThorough), and what is reported of a file is so        *)
(* (TurnsReportTruly), for any handlers, calls and requests.               *)
THEOREM HandlersShareSafely ==
  SharedSpec => /\ []TurnsKeepSettings /\ []RestoreIsTried
                /\ []ReportedStays /\ []SweepIsThorough
                /\ []TurnsReportTruly
BY KindsAreApart, HandlersKeepSettings, RestoresAreSent, GuardReportedStays,
   GuardSweepIsThorough, RequestsReportTruly, PTL

=============================================================================
