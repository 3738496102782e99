-------------------------- MODULE R2SessionProofs --------------------------
(***************************************************************************)
(* Proofs about R2Session for any sets of handlers, closers and calls.     *)
(***************************************************************************)
EXTENDS R2Session, SequenceTheorems, TLAPS

Queued(c) == \E i \in 1 .. Len(queue) : queue[i] = c

(* How many calls have left the channel. *)
Taken == Len(ran) + InHand

InLoop == worker \in {"recv", "exec"}

(* The worker has a call in hand exactly when it executes, and that call is
   the one sent after those that have run. *)
HandInv ==
  /\ worker # "exec" => current = None
  /\ worker = "exec" => /\ current \in Calls
                        /\ Len(ran) < Len(sent)
                        /\ current = sent[Len(ran) + 1]

(* Until a Shutdown is sent, the channel holds exactly the calls sent and not
   taken, in order. *)
OpenInv ==
  ~stopSent =>
    /\ InLoop
    /\ Len(sent) = Taken + Len(queue)
    /\ \A i \in 1 .. Len(queue) : queue[i] = sent[Taken + i]

(* Afterwards, it holds the calls up to the cut and then the Shutdown. *)
StoppingInv ==
  stopSent =>
    /\ cut <= Len(sent)
    /\ InLoop => /\ Taken <= cut
                 /\ cut - Taken < Len(queue)
                 /\ queue[cut - Taken + 1] = Shutdown
                 /\ \A i \in 1 .. (cut - Taken) : queue[i] = sent[Taken + i]
    /\ ~InLoop => Len(ran) = cut

(* A call is in one place at most: not made, in the channel (once), in hand
   or run. *)
PlaceInv ==
  /\ \A c \in Calls : outcome[c] = "unmade" =>
       ~HasRun(c) /\ ~Queued(c) /\ current # c
  /\ \A c \in Calls : Queued(c) => ~HasRun(c) /\ current # c
  /\ \A i, j \in 1 .. Len(queue) :
       (queue[i] = queue[j] /\ queue[i] # Shutdown) => i = j
  /\ worker = "exec" => ~HasRun(current)

(* What a reply channel and a caller may have seen. *)
ReplyInv ==
  \A c \in Calls :
    /\ reply[c] \in {"ok", "err"} => HasRun(c)
    /\ reply[c] = "dropped" => worker = "gone" /\ ~HasRun(c)
    /\ outcome[c] \in {"ok", "err"} => HasRun(c)
    /\ outcome[c] \in {"closed", "dropped"} => worker = "gone" /\ ~HasRun(c)

Order ==
  /\ RunsInOrder
  /\ HandInv
  /\ OpenInv
  /\ StoppingInv
  /\ PlaceInv
  /\ ReplyInv

IInv == TypeOK /\ Order
-----------------------------------------------------------------------------
(* Types                                                                   *)

(* The channel's variables keep their types when a Shutdown is sent. *)
LEMMA SendShutdownType ==
  ASSUME TypeOK, SendShutdown \/ UNCHANGED chanVars
  PROVE  /\ queue' \in Seq(Calls \cup {Shutdown})
         /\ sent' \in Seq(Calls)
         /\ stopSent' \in BOOLEAN
         /\ cut' \in Nat
<1>1. CASE UNCHANGED chanVars
  BY <1>1 DEF TypeOK, chanVars
<1>2. CASE SendShutdown /\ ~UNCHANGED chanVars
  <2>1. /\ queue' = Append(queue, Shutdown)
        /\ stopSent' = TRUE
        /\ cut' = IF stopSent THEN cut ELSE Len(sent)
        /\ sent' = sent
    BY <1>2 DEF SendShutdown
  <2>2. Shutdown \in Calls \cup {Shutdown}
    OBVIOUS
  <2>3. QED
    BY <2>1, <2>2 DEF TypeOK
<1>3. QED
  BY <1>1, <1>2

(* Every step preserves the types, given that an executing worker holds a
   call. *)
LEMMA TypeStep == TypeOK /\ HandInv /\ [Next]_vars => TypeOK'
<1> SUFFICES ASSUME TypeOK, HandInv, [Next]_vars
             PROVE  TypeOK'
  OBVIOUS
<1> USE DEF arcVars, callVars, thread
<1>1. ASSUME NEW h \in Handlers, Acquire(h)
      PROVE  TypeOK'
  BY <1>1 DEF TypeOK, Acquire, chanVars
<1>2. ASSUME NEW h \in Handlers, Release(h)
      PROVE  TypeOK'
  <2>1. SendShutdown \/ UNCHANGED chanVars
    BY <1>2 DEF Release, DropIfLast
  <2>2. QED
    BY <1>2, <2>1, SendShutdownType DEF TypeOK, Release
<1>3. ASSUME NEW h \in Handlers, NEW c \in Calls, Send(h, c)
      PROVE  TypeOK'
  <2>1. queue' \in Seq(Calls \cup {Shutdown})
    <3>1. c \in Calls \cup {Shutdown}
      OBVIOUS
    <3>2. QED
      BY <1>3, <3>1 DEF TypeOK, Send
  <2>2. sent' \in Seq(Calls)
    BY <1>3 DEF TypeOK, Send
  <2>3. awaits' \in [Handlers -> Calls \cup {None}]
    BY <1>3 DEF TypeOK, Send
  <2>4. outcome' \in [Calls -> Outcomes]
    BY <1>3 DEF TypeOK, Send, Outcomes
  <2>5. QED
    BY <1>3, <2>1, <2>2, <2>3, <2>4 DEF TypeOK, Send
<1>4. ASSUME NEW h \in Handlers, NEW c \in Calls, SendFails(h, c)
      PROVE  TypeOK'
  BY <1>4 DEF TypeOK, SendFails, Outcomes, chanVars
<1>5. ASSUME NEW h \in Handlers, Answer(h)
      PROVE  TypeOK'
  BY <1>5 DEF TypeOK, Answer, Outcomes, chanVars
<1>6. ASSUME NEW h \in Handlers, TimeOut(h)
      PROVE  TypeOK'
  BY <1>6 DEF TypeOK, TimeOut, Outcomes, chanVars
<1>7. ASSUME NEW k \in Closers, CloseLooksUp(k) \/ CloseMisses(k)
      PROVE  TypeOK'
  BY <1>7 DEF TypeOK, CloseLooksUp, CloseMisses, chanVars
<1>8. ASSUME NEW k \in Closers,
             CloseShutsDown(k) \/ CloseDropsClone(k) \/ CloseRemoves(k)
      PROVE  TypeOK'
  <2>1. SendShutdown \/ UNCHANGED chanVars
    BY <1>8 DEF CloseShutsDown, CloseDropsClone, CloseRemoves, DropIfLast
  <2>2. QED
    BY <1>8, <2>1, SendShutdownType
       DEF TypeOK, CloseShutsDown, CloseDropsClone, CloseRemoves
<1>9. CASE Receive
  BY <1>9 DEF TypeOK, Receive
<1>10. ASSUME NEW result \in Results, Execute(result)
       PROVE  TypeOK'
  <2>1. current \in Calls
    BY <1>10 DEF HandInv, Execute
  <2>2. ran' \in Seq(Calls)
    BY <1>10, <2>1 DEF TypeOK, Execute
  <2>3. reply' \in [Calls -> {"pending", "ok", "err", "dropped"}]
    BY <1>10 DEF TypeOK, Execute, Results
  <2>4. QED
    BY <1>10, <2>2, <2>3 DEF TypeOK, Execute, chanVars
<1>11. CASE ReceiveShutdown
  BY <1>11 DEF TypeOK, ReceiveShutdown
<1>12. CASE ClosePipe
  BY <1>12 DEF TypeOK, ClosePipe
<1>13. CASE UNCHANGED vars
  BY <1>13 DEF TypeOK, vars, chanVars
<1>14. QED
  BY <1>1, <1>2, <1>3, <1>4, <1>5, <1>6, <1>7, <1>8, <1>9, <1>10, <1>11,
     <1>12, <1>13 DEF Next, Handler, Closer, Worker

-----------------------------------------------------------------------------
(* The inductive invariant                                                 *)

(* Appending to a sequence keeps what is there and adds one element. *)
LEMMA AppendFacts ==
  ASSUME NEW S, NEW q \in Seq(S), NEW e \in S
  PROVE  /\ Len(Append(q, e)) = Len(q) + 1
         /\ \A i \in 1 .. Len(q) : Append(q, e)[i] = q[i]
         /\ Append(q, e)[Len(q) + 1] = e
  OBVIOUS

(* Taking the head of a nonempty sequence moves the others forward. *)
LEMMA TailFacts ==
  ASSUME NEW S, NEW q \in Seq(S), q # <<>>
  PROVE  /\ Len(q) \in Nat \ {0}
         /\ Len(Tail(q)) = Len(q) - 1
         /\ Head(q) = q[1]
         /\ \A i \in 1 .. Len(q) - 1 : Tail(q)[i] = q[i + 1]
  OBVIOUS

(* What every step uses of the types and of the invariant's arithmetic. *)
LEMMA Sizes ==
  ASSUME TypeOK
  PROVE  /\ Len(ran) \in Nat /\ Len(sent) \in Nat /\ Len(queue) \in Nat
         /\ cut \in Nat /\ Taken \in Nat
         /\ \A i \in 1 .. Len(sent) : sent[i] \in Calls
         /\ \A i \in 1 .. Len(ran) : ran[i] \in Calls
  BY DEF TypeOK, Taken, InHand

(* Sending a Shutdown, or not, preserves the invariant. *)
LEMMA StopStep ==
  ASSUME IInv, SendShutdown \/ UNCHANGED chanVars,
         UNCHANGED <<callVars, thread>>
  PROVE  Order'
<1> USE DEF callVars, thread, InHand, Taken, InLoop, Queued, HasRun
<1>1. CASE UNCHANGED chanVars
  BY <1>1 DEF chanVars, IInv, RunsInOrder, HandInv, OpenInv, StoppingInv,
     PlaceInv, ReplyInv, Order
<1>2. CASE SendShutdown /\ ~UNCHANGED chanVars
  <2>1. /\ worker # "gone"
        /\ queue' = Append(queue, Shutdown)
        /\ stopSent' = TRUE
        /\ cut' = IF stopSent THEN cut ELSE Len(sent)
        /\ sent' = sent
    BY <1>2 DEF SendShutdown, ChannelOpen
  <2> DEFINE n == Len(queue)
  <2>2. /\ n \in Nat
        /\ Len(queue') = n + 1
        /\ \A i \in 1 .. n : queue'[i] = queue[i]
        /\ queue'[n + 1] = Shutdown
    <3>1. queue \in Seq(Calls \cup {Shutdown})
      BY DEF IInv, Order, TypeOK
    <3>2. QED
      BY <2>1, <3>1, AppendFacts
  <2>3. /\ Len(ran) \in Nat /\ Len(sent) \in Nat /\ cut \in Nat
    BY DEF IInv, Order, TypeOK
  <2>4. RunsInOrder' /\ HandInv' /\ OpenInv'
    BY <2>1 DEF IInv, Order, RunsInOrder, HandInv, OpenInv
  <2>5. StoppingInv'
    <3>1. CASE stopSent
      BY <2>1, <2>2, <2>3, <3>1 DEF IInv, Order, StoppingInv
    <3>2. CASE ~stopSent
      <4>1. /\ cut' = Len(sent)
            /\ Taken' = Taken
            /\ Taken \in Nat
        BY <2>1, <2>3, <3>2
      <4>2. /\ InLoop /\ InLoop'
            /\ cut' - Taken' = n
            /\ \A i \in 1 .. n : queue[i] = sent[Taken + i]
        BY <2>2, <2>3, <3>2, <4>1 DEF IInv, Order, OpenInv
      <4>3. stopSent' /\ cut' <= Len(sent')
        BY <2>1, <2>3, <4>1
      <4>4. cut' - Taken' < Len(queue')
        BY <2>2, <4>2
      <4>5. Taken' <= cut'
        <5>1. cut' \in Nat /\ Taken' \in Nat
          BY <2>3, <4>1
        <5>2. QED
          BY <2>2, <4>2, <5>1
      <4>6. queue'[cut' - Taken' + 1] = Shutdown
        BY <2>2, <4>2
      <4>7. \A i \in 1 .. (cut' - Taken') : queue'[i] = sent'[Taken' + i]
        BY <2>1, <2>2, <4>1, <4>2
      <4>8. QED
        BY <4>2, <4>3, <4>6, <4>7, <4>4, <4>5 DEF StoppingInv
    <3>3. QED
      BY <3>1, <3>2
  <2>6. \A c \in Calls : Queued(c)' <=> Queued(c)
    BY <2>2, SessionAssumption
  <2>7. PlaceInv'
    <3>1. \A i, j \in 1 .. Len(queue') :
            (queue'[i] = queue'[j] /\ queue'[i] # Shutdown) => i = j
      BY <2>2 DEF IInv, Order, PlaceInv
    <3>2. QED
      BY <2>1, <2>6, <3>1 DEF IInv, Order, PlaceInv
  <2>8. ReplyInv'
    BY DEF IInv, Order, ReplyInv
  <2>9. QED
    BY <2>4, <2>5, <2>7, <2>8 DEF Order
<1>3. QED
  BY <1>1, <1>2

(* A call that enters the channel was in no place before. *)
LEMMA SendStep ==
  ASSUME IInv, NEW h \in Handlers, NEW c \in Calls, Send(h, c)
  PROVE  Order'
<1> DEFINE n == Len(queue)
<1>1. /\ queue' = Append(queue, c)
      /\ sent' = Append(sent, c)
      /\ outcome[c] = "unmade"
      /\ outcome' = [outcome EXCEPT ![c] = "waiting"]
      /\ worker # "gone"
      /\ UNCHANGED <<worker, current, reply, ran, stopSent, cut>>
  BY DEF Send, ChannelOpen, thread
<1>2. /\ Len(queue') = n + 1
      /\ \A i \in 1 .. n : queue'[i] = queue[i]
      /\ queue'[n + 1] = c
  <2>1. queue \in Seq(Calls \cup {Shutdown}) /\ c \in Calls \cup {Shutdown}
    BY DEF IInv, TypeOK
  <2>2. QED
    BY <1>1, <2>1, AppendFacts
<1>3. /\ Len(sent') = Len(sent) + 1
      /\ \A i \in 1 .. Len(sent) : sent'[i] = sent[i]
      /\ sent'[Len(sent) + 1] = c
  <2>1. sent \in Seq(Calls)
    BY DEF IInv, TypeOK
  <2>2. QED
    BY <1>1, <2>1, AppendFacts
<1>4. /\ Len(ran) \in Nat /\ Len(sent) \in Nat /\ n \in Nat
      /\ cut \in Nat /\ Taken \in Nat
  BY Sizes DEF IInv
<1>5. Taken' = Taken /\ (InLoop' <=> InLoop)
  BY <1>1 DEF Taken, InHand, InLoop
<1>6. RunsInOrder' /\ HandInv'
  BY <1>1, <1>3, <1>4 DEF IInv, Order, RunsInOrder, HandInv
<1>7. OpenInv'
  <2>1. CASE ~stopSent
    <3>1. /\ InLoop
          /\ Len(sent) = Taken + n
          /\ \A i \in 1 .. n : queue[i] = sent[Taken + i]
      BY <2>1 DEF IInv, Order, OpenInv
    <3>2. Len(sent') = Taken' + Len(queue')
      BY <1>2, <1>3, <1>4, <1>5, <3>1
    <3>3. ASSUME NEW i \in 1 .. Len(queue')
          PROVE  queue'[i] = sent'[Taken' + i]
      <4>1. CASE i \in 1 .. n
        <5>1. Taken + i \in 1 .. Len(sent)
          BY <1>4, <3>1, <4>1
        <5>2. QED
          BY <1>2, <1>3, <1>5, <3>1, <4>1, <5>1
      <4>2. CASE i = n + 1
        <5>1. Taken' + i = Len(sent) + 1
          BY <1>4, <1>5, <3>1, <4>2
        <5>2. QED
          BY <1>2, <1>3, <4>2, <5>1
      <4>3. QED
        BY <1>2, <1>4, <4>1, <4>2
    <3>4. QED
      BY <1>5, <3>1, <3>2, <3>3 DEF OpenInv
  <2>2. QED
    BY <1>1, <2>1 DEF OpenInv
<1>8. StoppingInv'
  <2>1. CASE stopSent /\ InLoop
    <3>1. /\ cut <= Len(sent) /\ Taken <= cut /\ cut - Taken < n
          /\ queue[cut - Taken + 1] = Shutdown
          /\ \A i \in 1 .. (cut - Taken) : queue[i] = sent[Taken + i]
      BY <2>1 DEF IInv, Order, StoppingInv
    <3>2. cut <= Len(sent')
      BY <1>3, <1>4, <3>1
    <3>3. cut - Taken \in Nat /\ cut - Taken + 1 \in 1 .. n
      BY <1>4, <3>1
    <3>4. cut - Taken < Len(queue') /\ queue'[cut - Taken + 1] = Shutdown
      BY <1>2, <1>4, <3>1, <3>3
    <3>5. ASSUME NEW i \in 1 .. (cut - Taken)
          PROVE  queue'[i] = sent'[Taken + i]
      <4>1. i \in 1 .. n /\ Taken + i \in 1 .. Len(sent)
        BY <1>4, <3>1, <3>3
      <4>2. QED
        BY <1>2, <1>3, <3>1, <4>1
    <3>6. QED
      BY <1>1, <1>5, <2>1, <3>1, <3>2, <3>4, <3>5 DEF StoppingInv
  <2>2. CASE stopSent /\ ~InLoop
    BY <1>1, <1>3, <1>4, <1>5, <2>2 DEF IInv, Order, StoppingInv
  <2>3. QED
    BY <1>1, <2>1, <2>2 DEF StoppingInv
<1>9. /\ \A d \in Calls : Queued(d)' <=> Queued(d) \/ d = c
      /\ \A d \in Calls : HasRun(d)' <=> HasRun(d)
  BY <1>1, <1>2, <1>4 DEF Queued, HasRun
<1>10. ~HasRun(c) /\ ~Queued(c) /\ current # c
  BY <1>1 DEF IInv, Order, PlaceInv
<1>11. \A d \in Calls : outcome'[d] = IF d = c THEN "waiting" ELSE outcome[d]
  BY <1>1 DEF IInv, TypeOK
<1>12. PlaceInv'
  <2>1. \A i, j \in 1 .. Len(queue') :
          (queue'[i] = queue'[j] /\ queue'[i] # Shutdown) => i = j
    BY <1>2, <1>4, <1>10 DEF IInv, Order, PlaceInv, Queued
  <2>2. \A d \in Calls : outcome'[d] = "unmade" =>
          ~HasRun(d)' /\ ~Queued(d)' /\ current' # d
    BY <1>1, <1>9, <1>11 DEF IInv, Order, PlaceInv
  <2>3. \A d \in Calls : Queued(d)' => ~HasRun(d)' /\ current' # d
    BY <1>1, <1>9, <1>10 DEF IInv, Order, PlaceInv
  <2>4. (worker = "exec" => ~HasRun(current))'
    BY <1>1 DEF IInv, Order, PlaceInv, HasRun
  <2>5. QED
    BY <2>1, <2>2, <2>3, <2>4 DEF PlaceInv
<1>13. ReplyInv'
  BY <1>1, <1>9, <1>11 DEF IInv, Order, ReplyInv
<1>14. QED
  BY <1>6, <1>7, <1>8, <1>12, <1>13 DEF Order

(* What a caller is told never disturbs what the channel and r2 hold. *)
LEMMA CallerStep ==
  ASSUME IInv,
         NEW h \in Handlers, NEW c \in Calls, NEW told,
         outcome' = [outcome EXCEPT ![c] = told],
         told # "unmade",
         told \in {"ok", "err"} => HasRun(c),
         told \in {"closed", "dropped"} => worker = "gone" /\ ~HasRun(c),
         UNCHANGED <<chanVars, thread>>
  PROVE  Order'
<1>1. /\ UNCHANGED <<queue, sent, stopSent, cut>>
      /\ UNCHANGED <<worker, current, reply, ran>>
  BY DEF chanVars, thread
<1>2. \A d \in Calls : outcome'[d] = IF d = c THEN told ELSE outcome[d]
  BY DEF IInv, TypeOK
<1>3. RunsInOrder' /\ HandInv' /\ OpenInv' /\ StoppingInv'
  BY <1>1 DEF IInv, Order, RunsInOrder, HandInv, OpenInv, StoppingInv,
     Taken, InHand, InLoop
<1>4. \A d \in Calls : (HasRun(d)' <=> HasRun(d)) /\ (Queued(d)' <=> Queued(d))
  BY <1>1 DEF HasRun, Queued
<1>5. PlaceInv'
  <2>1. (worker = "exec" => ~HasRun(current))'
    BY <1>1 DEF IInv, Order, PlaceInv, HasRun
  <2>2. QED
    BY <1>1, <1>2, <1>4, <2>1 DEF IInv, Order, PlaceInv
<1>6. ReplyInv'
  BY <1>1, <1>2, <1>4 DEF IInv, Order, ReplyInv
<1>7. QED
  BY <1>3, <1>5, <1>6 DEF Order

(* The worker takes the oldest call. *)
LEMMA ReceiveStep ==
  ASSUME IInv, Receive
  PROVE  Order'
<1> DEFINE n == Len(queue)
<1>1. /\ worker = "recv" /\ worker' = "exec"
      /\ queue # <<>> /\ queue' = Tail(queue)
      /\ Head(queue) # Shutdown /\ current' = Head(queue)
      /\ UNCHANGED <<outcome, reply, ran, sent, stopSent, cut>>
  BY DEF Receive, callVars
<1>2. /\ n \in Nat \ {0}
      /\ Len(queue') = n - 1
      /\ current' = queue[1]
      /\ \A i \in 1 .. n - 1 : queue'[i] = queue[i + 1]
  <2>1. queue \in Seq(Calls \cup {Shutdown})
    BY DEF IInv, TypeOK
  <2>2. QED
    BY <1>1, <2>1, TailFacts
<1>3. /\ Len(ran) \in Nat /\ Len(sent) \in Nat /\ cut \in Nat
      /\ \A i \in 1 .. Len(sent) : sent[i] \in Calls
  BY Sizes DEF IInv
<1>4. Taken = Len(ran) /\ Taken' = Len(ran) + 1 /\ InLoop /\ InLoop'
  BY <1>1, <1>3 DEF Taken, InHand, InLoop
<1>5. stopSent =>
        /\ cut <= Len(sent) /\ Len(ran) < cut /\ cut - Len(ran) < n
        /\ queue[cut - Len(ran) + 1] = Shutdown
        /\ \A i \in 1 .. (cut - Len(ran)) : queue[i] = sent[Len(ran) + i]
  <2>1. stopSent =>
          /\ cut <= Len(sent) /\ Len(ran) <= cut /\ cut - Len(ran) < n
          /\ queue[cut - Len(ran) + 1] = Shutdown
          /\ \A i \in 1 .. (cut - Len(ran)) : queue[i] = sent[Len(ran) + i]
    BY <1>4 DEF IInv, Order, StoppingInv
  <2>2. ASSUME stopSent, cut = Len(ran)
        PROVE  FALSE
    <3>1. cut - Len(ran) + 1 = 1
      BY <1>3, <2>2
    <3>2. queue[1] = Shutdown
      BY <2>1, <2>2, <3>1
    <3>3. QED
      BY <1>1, <1>2, <3>2
  <2>3. QED
    BY <1>3, <2>1, <2>2
<1>6. ~stopSent =>
        /\ Len(sent) = Len(ran) + n
        /\ \A i \in 1 .. n : queue[i] = sent[Len(ran) + i]
  BY <1>4 DEF IInv, Order, OpenInv
<1>7. Len(ran) < Len(sent) /\ current' = sent[Len(ran) + 1]
  <2>1. CASE stopSent
    <3>1. 1 \in 1 .. (cut - Len(ran)) /\ Len(ran) < Len(sent)
      BY <1>3, <1>5, <2>1
    <3>2. QED
      BY <1>2, <1>5, <2>1, <3>1
  <2>2. CASE ~stopSent
    <3>1. 1 \in 1 .. n /\ Len(ran) < Len(sent)
      BY <1>2, <1>3, <1>6, <2>2
    <3>2. QED
      BY <1>2, <1>6, <2>2, <3>1
  <2>3. QED
    BY <2>1, <2>2
<1>8. current' \in Calls
  <2>1. Len(ran) + 1 \in 1 .. Len(sent)
    BY <1>3, <1>7
  <2>2. QED
    BY <1>3, <1>7, <2>1
<1>9. RunsInOrder' /\ HandInv'
  BY <1>1, <1>7, <1>8 DEF IInv, Order, RunsInOrder, HandInv
<1>10. OpenInv'
  <2>1. CASE ~stopSent
    <3>1. Len(sent') = Taken' + Len(queue')
      <4>1. Len(sent) = Len(ran) + n
        BY <1>6, <2>1
      <4>2. n \in Nat /\ Len(ran) \in Nat
        BY <1>2, <1>3
      <4>3. Len(sent) = (Len(ran) + 1) + (n - 1)
        BY <4>1, <4>2
      <4>4. QED
        BY <1>1, <1>2, <1>4, <4>3
    <3>2. ASSUME NEW i \in 1 .. Len(queue')
          PROVE  queue'[i] = sent'[Taken' + i]
      <4>1. i \in 1 .. n - 1 /\ i + 1 \in 1 .. n
        BY <1>2
      <4>2. Len(ran) + (i + 1) = Taken' + i
        BY <1>3, <1>4, <4>1
      <4>3. QED
        BY <1>1, <1>2, <1>6, <2>1, <4>1, <4>2
    <3>3. QED
      BY <1>4, <3>1, <3>2 DEF OpenInv
  <2>2. QED
    BY <1>1, <2>1 DEF OpenInv
<1>11. StoppingInv'
  <2>1. CASE stopSent
    <3>1. /\ cut <= Len(sent) /\ Len(ran) + 1 <= cut
          /\ cut - (Len(ran) + 1) < n - 1
      BY <1>2, <1>3, <1>5, <2>1
    <3>2. queue'[cut - (Len(ran) + 1) + 1] = Shutdown
      <4>1. cut - Len(ran) \in 1 .. n - 1
        BY <1>2, <1>3, <1>5, <2>1
      <4>2. cut - (Len(ran) + 1) + 1 = cut - Len(ran)
        BY <1>3
      <4>3. QED
        BY <1>2, <1>5, <2>1, <4>1, <4>2
    <3>3. ASSUME NEW i \in 1 .. (cut - (Len(ran) + 1))
          PROVE  queue'[i] = sent[(Len(ran) + 1) + i]
      <4>1. i \in 1 .. n - 1 /\ i + 1 \in 1 .. (cut - Len(ran))
        BY <1>2, <1>3, <1>5, <2>1
      <4>2. Len(ran) + (i + 1) = (Len(ran) + 1) + i
        BY <1>3, <4>1
      <4>3. QED
        BY <1>2, <1>5, <2>1, <4>1, <4>2
    <3>4. QED
      BY <1>1, <1>2, <1>4, <3>1, <3>2, <3>3 DEF StoppingInv
  <2>2. QED
    BY <1>1, <2>1 DEF StoppingInv
<1>12. \A d \in Calls : HasRun(d)' <=> HasRun(d)
  BY <1>1 DEF HasRun
<1>13. 1 \in 1 .. n /\ Queued(current')
  BY <1>2 DEF Queued
<1>14. ~HasRun(current')
  BY <1>8, <1>13 DEF IInv, Order, PlaceInv
<1>15. \A d \in Calls : Queued(d)' => Queued(d) /\ d # current'
  <2>1. ASSUME NEW d \in Calls, NEW i \in 1 .. Len(queue'), queue'[i] = d
        PROVE  Queued(d) /\ d # current'
    <3>1. i + 1 \in 1 .. n /\ queue[i + 1] = d /\ i + 1 # 1
      BY <1>2, <2>1
    <3>2. d # Shutdown
      BY SessionAssumption
    <3>3. QED
      BY <1>2, <1>13, <3>1, <3>2 DEF IInv, Order, PlaceInv, Queued
  <2>2. QED
    BY <2>1 DEF Queued
<1>16. PlaceInv'
  <2>1. \A i, j \in 1 .. Len(queue') :
          (queue'[i] = queue'[j] /\ queue'[i] # Shutdown) => i = j
    <3>1. ASSUME NEW i \in 1 .. Len(queue'), NEW j \in 1 .. Len(queue'),
                 queue'[i] = queue'[j], queue'[i] # Shutdown
          PROVE  i = j
      <4>1. /\ i + 1 \in 1 .. n /\ queue[i + 1] = queue'[i]
            /\ j + 1 \in 1 .. n /\ queue[j + 1] = queue'[j]
        BY <1>2
      <4>2. i + 1 = j + 1
        BY <3>1, <4>1 DEF IInv, Order, PlaceInv
      <4>3. QED
        BY <4>2
    <3>2. QED
      BY <3>1
  <2>2. \A d \in Calls : outcome'[d] = "unmade" =>
          ~HasRun(d)' /\ ~Queued(d)' /\ current' # d
    BY <1>1, <1>12, <1>13, <1>15 DEF IInv, Order, PlaceInv
  <2>3. \A d \in Calls : Queued(d)' => ~HasRun(d)' /\ current' # d
    BY <1>12, <1>15 DEF IInv, Order, PlaceInv
  <2>4. (worker = "exec" => ~HasRun(current))'
    BY <1>8, <1>12, <1>14
  <2>5. QED
    BY <2>1, <2>2, <2>3, <2>4 DEF PlaceInv
<1>17. ReplyInv'
  BY <1>1, <1>12 DEF IInv, Order, ReplyInv
<1>18. QED
  BY <1>9, <1>10, <1>11, <1>16, <1>17 DEF Order

(* The call in hand becomes the last one that has run. *)
LEMMA ExecuteStep ==
  ASSUME IInv, NEW result \in Results, Execute(result)
  PROVE  Order'
<1> DEFINE m == Len(ran)
<1>1. /\ worker = "exec" /\ worker' = "recv"
      /\ reply' = [reply EXCEPT ![current] = result]
      /\ ran' = Append(ran, current)
      /\ current' = None
      /\ UNCHANGED <<outcome, queue, sent, stopSent, cut>>
  BY DEF Execute, callVars, chanVars
<1>2. current \in Calls /\ m < Len(sent) /\ current = sent[m + 1]
  BY <1>1 DEF IInv, Order, HandInv
<1>3. /\ Len(ran') = m + 1
      /\ \A i \in 1 .. m : ran'[i] = ran[i]
      /\ ran'[m + 1] = current
  <2>1. ran \in Seq(Calls)
    BY DEF IInv, TypeOK
  <2>2. QED
    BY <1>1, <1>2, <2>1, AppendFacts
<1>4. m \in Nat /\ Len(sent) \in Nat /\ cut \in Nat
  BY Sizes DEF IInv
<1>5. Taken = m + 1 /\ Taken' = Taken /\ InLoop /\ InLoop'
  BY <1>1, <1>3, <1>4 DEF Taken, InHand, InLoop
<1>6. RunsInOrder'
  BY <1>1, <1>2, <1>3, <1>4 DEF IInv, Order, RunsInOrder
<1>7. HandInv'
  BY <1>1 DEF HandInv
<1>8. OpenInv' /\ StoppingInv'
  BY <1>1, <1>5 DEF IInv, Order, OpenInv, StoppingInv
<1>9. \A d \in Calls : HasRun(d)' <=> HasRun(d) \/ d = current
  BY <1>3, <1>4 DEF HasRun
<1>10. \A d \in Calls : (Queued(d)' <=> Queued(d)) /\ current' # d
  BY <1>1, SessionAssumption DEF Queued
<1>11. PlaceInv'
  <2>1. \A i, j \in 1 .. Len(queue') :
          (queue'[i] = queue'[j] /\ queue'[i] # Shutdown) => i = j
    BY <1>1 DEF IInv, Order, PlaceInv
  <2>2. \A d \in Calls : outcome'[d] = "unmade" => ~HasRun(d)' /\ ~Queued(d)'
    BY <1>1, <1>9, <1>10 DEF IInv, Order, PlaceInv
  <2>3. \A d \in Calls : Queued(d)' => ~HasRun(d)'
    BY <1>1, <1>9, <1>10 DEF IInv, Order, PlaceInv
  <2>4. QED
    BY <1>1, <1>10, <2>1, <2>2, <2>3 DEF PlaceInv
<1>12. ReplyInv'
  <2>1. result \in {"ok", "err"}
    BY DEF Results
  <2>2. \A d \in Calls :
          reply'[d] = IF d = current THEN result ELSE reply[d]
    BY <1>1 DEF IInv, TypeOK
  <2>3. \A d \in Calls :
          /\ reply[d] # "dropped"
          /\ outcome[d] \notin {"closed", "dropped"}
    BY <1>1 DEF IInv, Order, ReplyInv
  <2>4. QED
    BY <1>1, <1>9, <2>1, <2>2, <2>3 DEF IInv, Order, ReplyInv
<1>13. QED
  BY <1>6, <1>7, <1>8, <1>11, <1>12 DEF Order

(* When the worker meets the Shutdown, what has run is the cut. *)
LEMMA ReceiveShutdownStep ==
  ASSUME IInv, ReceiveShutdown
  PROVE  Order'
<1> DEFINE n == Len(queue)
<1>1. /\ worker = "recv" /\ worker' = "closing"
      /\ queue # <<>> /\ queue' = Tail(queue) /\ Head(queue) = Shutdown
      /\ UNCHANGED <<outcome, current, reply, ran, sent, stopSent, cut>>
  BY DEF ReceiveShutdown, callVars
<1>2. /\ n \in Nat \ {0}
      /\ Len(queue') = n - 1
      /\ queue[1] = Shutdown
      /\ \A i \in 1 .. n - 1 : queue'[i] = queue[i + 1]
  <2>1. queue \in Seq(Calls \cup {Shutdown})
    BY DEF IInv, TypeOK
  <2>2. QED
    BY <1>1, <2>1, TailFacts
<1>3. /\ Len(ran) \in Nat /\ Len(sent) \in Nat /\ cut \in Nat
      /\ \A i \in 1 .. Len(sent) : sent[i] \in Calls
  BY Sizes DEF IInv
<1>4. Taken = Len(ran) /\ InLoop /\ ~InLoop'
  BY <1>1, <1>3 DEF Taken, InHand, InLoop
<1>5. stopSent
  <2>1. SUFFICES ASSUME ~stopSent
                 PROVE  FALSE
    OBVIOUS
  <2>2. /\ Len(sent) = Len(ran) + n
        /\ \A i \in 1 .. n : queue[i] = sent[Len(ran) + i]
    BY <1>4, <2>1 DEF IInv, Order, OpenInv
  <2>3. 1 \in 1 .. n /\ Len(ran) + 1 \in 1 .. Len(sent)
    BY <1>2, <1>3, <2>2
  <2>4. queue[1] \in Calls
    BY <1>3, <2>2, <2>3
  <2>5. QED
    BY <1>2, <2>4, SessionAssumption
<1>6. /\ cut <= Len(sent) /\ Len(ran) <= cut
      /\ \A i \in 1 .. (cut - Len(ran)) : queue[i] = sent[Len(ran) + i]
  BY <1>4, <1>5 DEF IInv, Order, StoppingInv
<1>7. Len(ran) = cut
  <2>1. SUFFICES ASSUME Len(ran) # cut
                 PROVE  FALSE
    OBVIOUS
  <2>2. 1 \in 1 .. (cut - Len(ran)) /\ Len(ran) + 1 \in 1 .. Len(sent)
    BY <1>3, <1>6, <2>1
  <2>3. queue[1] \in Calls
    BY <1>3, <1>6, <2>2
  <2>4. QED
    BY <1>2, <2>3, SessionAssumption
<1>8. RunsInOrder' /\ HandInv' /\ OpenInv'
  BY <1>1, <1>5 DEF IInv, Order, RunsInOrder, HandInv, OpenInv
<1>9. StoppingInv'
  BY <1>1, <1>4, <1>6, <1>7 DEF StoppingInv
<1>10. \A d \in Calls : HasRun(d)' <=> HasRun(d)
  BY <1>1 DEF HasRun
<1>11. \A d \in Calls : Queued(d)' => Queued(d)
  <2>1. \A i \in 1 .. n - 1 : i + 1 \in 1 .. n
    BY <1>2
  <2>2. QED
    BY <1>2, <2>1 DEF Queued
<1>12. PlaceInv'
  <2>1. \A i, j \in 1 .. Len(queue') :
          (queue'[i] = queue'[j] /\ queue'[i] # Shutdown) => i = j
    <3>1. ASSUME NEW i \in 1 .. Len(queue'), NEW j \in 1 .. Len(queue'),
                 queue'[i] = queue'[j], queue'[i] # Shutdown
          PROVE  i = j
      <4>1. /\ i + 1 \in 1 .. n /\ queue[i + 1] = queue'[i]
            /\ j + 1 \in 1 .. n /\ queue[j + 1] = queue'[j]
        BY <1>2
      <4>2. i + 1 = j + 1
        BY <3>1, <4>1 DEF IInv, Order, PlaceInv
      <4>3. QED
        BY <4>2
    <3>2. QED
      BY <3>1
  <2>2. QED
    BY <1>1, <1>10, <1>11, <2>1 DEF IInv, Order, PlaceInv
<1>13. ReplyInv'
  BY <1>1, <1>10 DEF IInv, Order, ReplyInv
<1>14. QED
  BY <1>8, <1>9, <1>12, <1>13 DEF Order

(* The messages dropped with the receiver are calls that never ran. *)
LEMMA ClosePipeStep ==
  ASSUME IInv, ClosePipe
  PROVE  Order'
<1>1. /\ worker = "closing" /\ worker' = "gone"
      /\ queue' = <<>>
      /\ UNCHANGED <<outcome, current, ran, sent, stopSent, cut>>
  BY DEF ClosePipe, callVars
<1>2. \A d \in Calls : reply'[d] = IF Queued(d) THEN "dropped" ELSE reply[d]
  BY DEF ClosePipe, Queued, IInv, TypeOK
<1>3. ~InLoop /\ ~InLoop'
  BY <1>1 DEF InLoop
<1>4. stopSent
  BY <1>3 DEF IInv, Order, OpenInv
<1>5. RunsInOrder' /\ HandInv' /\ OpenInv' /\ StoppingInv'
  BY <1>1, <1>3, <1>4
     DEF IInv, Order, RunsInOrder, HandInv, OpenInv, StoppingInv
<1>6. \A d \in Calls : (HasRun(d)' <=> HasRun(d)) /\ ~Queued(d)'
  BY <1>1 DEF HasRun, Queued
<1>7. PlaceInv'
  BY <1>1, <1>6 DEF IInv, Order, PlaceInv
<1>8. ReplyInv'
  BY <1>1, <1>2, <1>6 DEF IInv, Order, ReplyInv, PlaceInv
<1>9. QED
  BY <1>5, <1>7, <1>8 DEF Order
-----------------------------------------------------------------------------
(* The theorems                                                            *)

(* The invariant holds when the session starts. *)
LEMMA InitInv == Init => IInv
<1> SUFFICES ASSUME Init
             PROVE  IInv
  OBVIOUS
<1>1. TypeOK
  <2>1. /\ queue \in Seq(Calls \cup {Shutdown})
        /\ sent \in Seq(Calls)
        /\ ran \in Seq(Calls)
    BY DEF Init
  <2>2. mapped \in BOOLEAN /\ stopSent \in BOOLEAN
    BY DEF Init
  <2>3. /\ holders \in SUBSET Handlers
        /\ closer \in [Closers -> {"idle", "holding", "told", "removing", "done"}]
        /\ awaits \in [Handlers -> Calls \cup {None}]
        /\ current \in Calls \cup {None}
    BY DEF Init
  <2>4. /\ outcome \in [Calls -> Outcomes]
        /\ reply \in [Calls -> {"pending", "ok", "err", "dropped"}]
        /\ worker \in {"recv", "exec", "closing", "gone"}
        /\ cut \in Nat
    BY DEF Init, Outcomes
  <2>5. QED
    BY <2>1, <2>2, <2>3, <2>4 DEF TypeOK
<1>2. RunsInOrder /\ HandInv
  BY DEF Init, RunsInOrder, HandInv
<1>3. OpenInv /\ StoppingInv
  BY DEF Init, OpenInv, StoppingInv, InLoop, Taken, InHand
<1>4. PlaceInv
  BY SessionAssumption DEF Init, PlaceInv, HasRun, Queued
<1>5. ReplyInv
  BY DEF Init, ReplyInv
<1>6. QED
  BY <1>1, <1>2, <1>3, <1>4, <1>5 DEF IInv, Order

(* Every step of the session preserves the invariant. *)
LEMMA NextInv == IInv /\ [Next]_vars => IInv'
<1> SUFFICES ASSUME IInv, [Next]_vars
             PROVE  IInv'
  OBVIOUS
<1>1. TypeOK'
  BY TypeStep DEF IInv, Order
<1>2. ASSUME NEW h \in Handlers, Handler(h)
      PROVE  Order'
  <2>1. CASE Acquire(h)
    BY <2>1, StopStep DEF Acquire
  <2>2. CASE Release(h)
    BY <2>2, StopStep DEF Release, DropIfLast
  <2>3. ASSUME NEW c \in Calls, Send(h, c)
        PROVE  Order'
    BY <2>3, SendStep
  <2>4. ASSUME NEW c \in Calls, SendFails(h, c)
        PROVE  Order'
    <3>1. worker = "gone" /\ ~HasRun(c)
      BY <2>4 DEF SendFails, ChannelOpen, IInv, Order, PlaceInv
    <3>2. QED
      BY <2>4, <3>1, CallerStep DEF SendFails
  <2>5. CASE Answer(h)
    <3>1. awaits[h] \in Calls
      BY <2>5 DEF Answer, IInv, TypeOK
    <3>2. /\ reply[awaits[h]] \in {"ok", "err", "dropped"}
          /\ reply[awaits[h]] \in {"ok", "err"} => HasRun(awaits[h])
          /\ reply[awaits[h]] = "dropped" =>
               worker = "gone" /\ ~HasRun(awaits[h])
      BY <2>5, <3>1 DEF Answer, IInv, Order, TypeOK, ReplyInv
    <3>3. QED
      BY <2>5, <3>1, <3>2, CallerStep DEF Answer
  <2>6. CASE TimeOut(h)
    <3>1. awaits[h] \in Calls
      BY <2>6 DEF TimeOut, IInv, TypeOK
    <3>2. QED
      BY <2>6, <3>1, CallerStep DEF TimeOut
  <2>7. QED
    BY <1>2, <2>1, <2>2, <2>3, <2>4, <2>5, <2>6 DEF Handler
<1>3. ASSUME NEW k \in Closers, Closer(k)
      PROVE  Order'
  BY <1>3, StopStep
     DEF Closer, CloseLooksUp, CloseMisses, CloseShutsDown, CloseDropsClone,
         CloseRemoves, DropIfLast
<1>4. ASSUME Worker
      PROVE  Order'
  <2>1. ASSUME NEW result \in Results, Execute(result)
        PROVE  Order'
    BY <2>1, ExecuteStep
  <2>2. CASE Receive
    BY <2>2, ReceiveStep
  <2>3. CASE ReceiveShutdown
    BY <2>3, ReceiveShutdownStep
  <2>4. CASE ClosePipe
    BY <2>4, ClosePipeStep
  <2>5. QED
    BY <1>4, <2>1, <2>2, <2>3, <2>4 DEF Worker
<1>5. ASSUME UNCHANGED vars
      PROVE  Order'
  <2>1. UNCHANGED chanVars /\ UNCHANGED <<callVars, thread>>
    BY <1>5 DEF vars
  <2>2. QED
    BY <2>1, StopStep
<1>6. QED
  BY <1>1, <1>2, <1>3, <1>4, <1>5 DEF Next, IInv

(* The invariant gives what the session promises. *)
LEMMA InvPromises ==
  ASSUME IInv
  PROVE  TypeOK /\ RunsInOrder /\ DrainsExactly /\ RefusedNeverRan
<1>1. TypeOK /\ RunsInOrder
  BY DEF IInv, Order
<1>2. DrainsExactly
  <2>1. Len(ran) \in Nat /\ cut \in Nat
    BY Sizes DEF IInv
  <2>2. CASE InLoop
    <3>1. stopSent => Taken <= cut
      BY <2>2 DEF IInv, Order, StoppingInv
    <3>2. Len(ran) <= Taken /\ Taken \in Nat
      BY <2>1 DEF Taken, InHand
    <3>3. QED
      BY <2>1, <2>2, <3>1, <3>2 DEF DrainsExactly, InLoop
  <2>3. CASE ~InLoop
    <3>1. stopSent /\ Len(ran) = cut
      BY <2>3 DEF IInv, Order, OpenInv, StoppingInv
    <3>2. QED
      BY <2>1, <3>1 DEF DrainsExactly
  <2>4. QED
    BY <2>2, <2>3
<1>3. RefusedNeverRan
  BY DEF IInv, Order, ReplyInv, RefusedNeverRan
<1>4. QED
  BY <1>1, <1>2, <1>3

(* Every behaviour of the session keeps the invariant. *)
LEMMA SpecInv == Spec => []IInv
<1>1. QED
  BY InitInv, NextInv, PTL DEF Spec

(* The session's state is well formed, whatever the handlers, the closes and
   the worker do. *)
THEOREM SessionType == Spec => []TypeOK
<1>1. IInv => TypeOK
  BY InvPromises
<1>2. QED
  BY <1>1, SpecInv, PTL

(* Session::cmd and Session::cmdj reach r2 in the order their sends did, each
   at most once, timed out or not. *)
THEOREM SessionRunsInOrder == Spec => []RunsInOrder
<1>1. IInv => RunsInOrder
  BY InvPromises
<1>2. QED
  BY <1>1, SpecInv, PTL

(* The worker leaves its loop having run exactly the calls sent before the
   first Shutdown. *)
THEOREM SessionDrainsExactly == Spec => []DrainsExactly
<1>1. IInv => DrainsExactly
  BY InvPromises
<1>2. QED
  BY <1>1, SpecInv, PTL

(* A caller told that the session is gone can be sure r2 never ran its
   command; a caller with an answer, that r2 did. *)
THEOREM SessionRefusedNeverRan == Spec => []RefusedNeverRan
<1>1. IInv => RefusedNeverRan
  BY InvPromises
<1>2. QED
  BY <1>1, SpecInv, PTL

-----------------------------------------------------------------------------

(***************************************************************************)
(* Proof that R2Session implements SerialExecutor, but for its fairness:   *)
(* every step of the session is one of the executor's, or none.            *)
(***************************************************************************)

(* How many of the calls sent will ever have run. *)
Bound == IF stopSent THEN cut ELSE Len(sent)

(* The executor has still to run the calls sent that have not run, up to the
   first Shutdown. *)
PendingIsRest ==
  /\ Len(ran) \in Nat /\ Bound \in Nat /\ Len(sent) \in Nat
  /\ Len(ran) <= Bound /\ Bound <= Len(sent)
  /\ Pending \in Seq(Calls)
  /\ Len(Pending) = Bound - Len(ran)
  /\ \A i \in 1 .. Bound - Len(ran) : Pending[i] = sent[Len(ran) + i]

(* A handler waits for a call that nobody else waits for. *)
AwaitInv ==
  /\ \A h \in Handlers : awaits[h] # None => outcome[awaits[h]] = "waiting"
  /\ \A g, h \in Handlers : (awaits[g] = awaits[h] /\ awaits[g] # None) => g = h

RefInv == IInv /\ AwaitInv

(* What the mapping makes of the channel, whatever the worker is doing. *)
LEMMA PendingFacts == IInv => PendingIsRest
<1> SUFFICES ASSUME IInv PROVE PendingIsRest
  OBVIOUS
<1> DEFINE hand == IF worker = "exec" THEN <<current>> ELSE <<>>
           rest == SubSeq(queue, 1, Ahead)
<1>1. /\ TypeOK /\ RunsInOrder /\ HandInv /\ OpenInv /\ StoppingInv
      /\ Len(ran) \in Nat /\ Len(sent) \in Nat /\ Len(queue) \in Nat /\ cut \in Nat
      /\ InHand \in {0, 1}
  BY LenProperties DEF IInv, Order, TypeOK, InHand
<1>2. /\ Bound \in Nat /\ Bound <= Len(sent)
      /\ Ahead \in Nat /\ Ahead <= Len(queue) /\ Ahead = Bound - Taken
      /\ \A i \in 1 .. Ahead : queue[i] = sent[Taken + i]
  <2>1. CASE ~ stopSent
    <3>1. Len(sent) = Taken + Len(queue)
          /\ \A i \in 1 .. Len(queue) : queue[i] = sent[Taken + i]
      BY <1>1, <2>1 DEF OpenInv
    <3> QED
      BY <1>1, <2>1, <3>1 DEF Ahead, Bound, Taken
  <2>2. CASE stopSent /\ InLoop
    <3>1. /\ cut <= Len(sent) /\ Taken <= cut /\ cut - Taken < Len(queue)
          /\ \A i \in 1 .. (cut - Taken) : queue[i] = sent[Taken + i]
      BY <1>1, <2>2 DEF StoppingInv
    <3>2. Ahead = cut - Taken /\ Taken \in Nat
      BY <1>1, <2>2 DEF Ahead, Taken
    <3> QED
      BY <1>1, <2>2, <3>1, <3>2 DEF Bound
  <2>3. CASE stopSent /\ ~ InLoop
    <3>1. cut <= Len(sent) /\ Len(ran) = cut /\ InHand = 0
      BY <1>1, <2>3 DEF StoppingInv, InLoop, InHand
    <3>2. Ahead = 0 /\ Taken = cut
      BY <1>1, <2>3, <3>1 DEF Ahead, Taken
    <3> QED
      BY <1>1, <2>3, <3>1, <3>2 DEF Bound
  <2> QED
    BY <2>1, <2>2, <2>3
<1>3. /\ hand \in Seq(Calls) /\ Len(hand) = InHand
      /\ InHand = 1 => hand[1] = sent[Len(ran) + 1]
  <2>1. CASE worker = "exec"
    BY <1>1, <2>1 DEF HandInv, InHand
  <2>2. CASE worker # "exec"
    BY <1>1, <2>2 DEF InHand
  <2> QED
    BY <2>1, <2>2
<1>4. /\ rest \in Seq(Calls) /\ Len(rest) = Ahead
      /\ \A i \in 1 .. Ahead : rest[i] = sent[Taken + i]
  <2>1. \A i \in 1 .. Ahead : Taken + i \in 1 .. Len(sent)
    BY <1>1, <1>2 DEF Taken
  <2>2. \A i \in 1 .. Ahead : queue[i] \in Calls
    BY <1>1, <1>2, <2>1, ElementOfSeq DEF TypeOK
  <2>3. /\ rest \in Seq(Calls)
        /\ Len(rest) = IF 1 <= Ahead THEN Ahead - 1 + 1 ELSE 0
        /\ \A i \in 1 .. Ahead - 1 + 1 : rest[i] = queue[1 + i - 1]
    BY <1>2, <2>2, SubSeqProperties
  <2>4. Len(rest) = Ahead
    BY <1>2, <2>3
  <2>5. \A i \in 1 .. Ahead : rest[i] = queue[i]
    BY <1>2, <2>3
  <2> QED
    BY <1>2, <2>3, <2>4, <2>5
<1>5. Pending = hand \o rest
  BY DEF Pending
<1> HIDE DEF hand, rest
<1>6. /\ Pending \in Seq(Calls) /\ Len(Pending) = InHand + Ahead
      /\ \A i \in 1 .. InHand + Ahead :
           Pending[i] = IF i <= InHand THEN hand[i] ELSE rest[i - InHand]
  BY <1>3, <1>4, <1>5, ConcatProperties
<1>7. InHand + Ahead = Bound - Len(ran) /\ Len(ran) <= Bound
  BY <1>1, <1>2 DEF Taken
<1>8. ASSUME NEW i \in 1 .. InHand + Ahead
      PROVE  Pending[i] = sent[Len(ran) + i]
  <2>1. CASE i <= InHand
    <3>1. i = 1 /\ InHand = 1
      BY <1>1, <2>1
    <3> QED
      BY <1>3, <1>6, <2>1, <3>1
  <2>2. CASE ~ (i <= InHand)
    <3>1. i - InHand \in 1 .. Ahead /\ Taken + (i - InHand) = Len(ran) + i
      BY <1>1, <1>2, <2>2 DEF Taken
    <3> QED
      BY <1>4, <1>6, <2>2, <3>1
  <2> QED
    BY <2>1, <2>2
<1> QED
  BY <1>1, <1>2, <1>6, <1>7, <1>8 DEF PendingIsRest

(* The same of the state after a step. *)
LEMMA PendingFactsNext == IInv' => PendingIsRest'
BY PendingFacts, PTL

(* As long as no call enters or leaves it, the rest stays what it is. *)
LEMMA PendingStays ==
  ASSUME IInv, IInv', ran' = ran, Bound' = Bound,
         \A i \in 1 .. Bound : sent'[i] = sent[i]
  PROVE  Pending' = Pending
<1>1. PendingIsRest /\ PendingIsRest'
  BY PendingFacts, PendingFactsNext
<1>2. /\ Pending \in Seq(Calls) /\ Pending' \in Seq(Calls)
      /\ Len(Pending) = Bound - Len(ran) /\ Len(Pending') = Bound - Len(ran)
      /\ Len(ran) \in Nat /\ Bound \in Nat
  BY <1>1 DEF PendingIsRest
<1>3. ASSUME NEW i \in 1 .. Bound - Len(ran)
      PROVE  Pending'[i] = Pending[i]
  <2>1. Len(ran) + i \in 1 .. Bound
    BY <1>2
  <2>2. Pending[i] = sent[Len(ran) + i] /\ Pending'[i] = sent'[Len(ran) + i]
    BY <1>1 DEF PendingIsRest
  <2> QED
    BY <2>1, <2>2
<1> QED
  BY <1>2, <1>3, SeqEqual

(* Nothing happens, or a Shutdown is sent: what has been sent before it is
   still run. *)
LEMMA StopRefines ==
  ASSUME IInv, IInv', UNCHANGED <<ran, outcome>>,
         \/ SendShutdown
         \/ UNCHANGED <<sent, stopSent, cut>>
  PROVE  Executor!Stop \/ UNCHANGED Executor!execVars
<1>1. /\ sent' = sent
      /\ \/ UNCHANGED <<stopSent, cut>>
         \/ stopSent' = TRUE /\ cut' = IF stopSent THEN cut ELSE Len(sent)
  BY DEF SendShutdown, chanVars
<1>2. Bound' = Bound
  BY <1>1 DEF Bound
<1>3. Pending' = Pending
  BY <1>1, <1>2, PendingStays
<1>4. stopSent \in BOOLEAN
  BY DEF IInv, TypeOK
<1> QED
  BY <1>1, <1>3, <1>4 DEF Executor!Stop, Executor!execVars

(* A handler makes a call. *)
LEMMA SendRefines ==
  ASSUME IInv, IInv', NEW h \in Handlers, NEW c \in Calls, Send(h, c)
  PROVE  Executor!Submit(c)
<1>1. /\ outcome[c] = "unmade"
      /\ outcome' = [outcome EXCEPT ![c] = "waiting"]
      /\ sent' = Append(sent, c)
      /\ UNCHANGED <<ran, stopSent, cut>>
  BY DEF Send, thread
<1>2. sent \in Seq(Calls) /\ Len(sent) \in Nat
  BY LenProperties DEF IInv, TypeOK
<1>3. /\ Len(sent') = Len(sent) + 1 /\ sent'[Len(sent) + 1] = c
      /\ \A i \in 1 .. Len(sent) : sent'[i] = sent[i]
  BY <1>1, <1>2, AppendProperties
<1>4. PendingIsRest /\ PendingIsRest'
  BY PendingFacts, PendingFactsNext
<1>5. CASE stopSent
  <2>1. Bound' = Bound /\ \A i \in 1 .. Bound : i \in 1 .. Len(sent)
    BY <1>1, <1>2, <1>4, <1>5 DEF Bound, PendingIsRest
  <2>2. Pending' = Pending
    BY <1>1, <1>3, <2>1, PendingStays
  <2> QED
    BY <1>1, <1>5, <2>2 DEF Executor!Submit
<1>6. CASE ~ stopSent
  <2> DEFINE n == Len(sent) - Len(ran)
  <2>1. Bound = Len(sent) /\ Bound' = Len(sent) + 1
    BY <1>1, <1>3, <1>6 DEF Bound
  <2>2. /\ n \in Nat /\ Len(ran) \in Nat
        /\ Pending \in Seq(Calls) /\ Len(Pending) = n
        /\ \A i \in 1 .. n : Pending[i] = sent[Len(ran) + i]
    <3>1. /\ Len(ran) \in Nat /\ Len(ran) <= Bound
          /\ Pending \in Seq(Calls) /\ Len(Pending) = Bound - Len(ran)
          /\ \A i \in 1 .. Bound - Len(ran) : Pending[i] = sent[Len(ran) + i]
      BY <1>4 DEF PendingIsRest
    <3>2. Bound - Len(ran) = n
      BY <2>1
    <3>3. n \in Nat
      BY <1>2, <2>1, <3>1
    <3> HIDE DEF n
    <3> QED
      BY <3>1, <3>2, <3>3
  <2>3. /\ Pending' \in Seq(Calls) /\ Len(Pending') = n + 1
        /\ \A i \in 1 .. n + 1 : Pending'[i] = sent'[Len(ran) + i]
    <3>1. /\ Pending' \in Seq(Calls) /\ Len(Pending') = Bound' - Len(ran')
          /\ \A i \in 1 .. Bound' - Len(ran') : Pending'[i] = sent'[Len(ran') + i]
      BY <1>4 DEF PendingIsRest
    <3>2. Bound' - Len(ran') = n + 1 /\ ran' = ran
      BY <1>1, <1>2, <2>1, <2>2
    <3> HIDE DEF n
    <3> QED
      BY <3>1, <3>2
  <2>4. /\ Append(Pending, c) \in Seq(Calls) /\ Len(Append(Pending, c)) = n + 1
        /\ \A i \in 1 .. n : Append(Pending, c)[i] = Pending[i]
        /\ Append(Pending, c)[n + 1] = c
    BY <2>2, AppendProperties
  <2>5. ASSUME NEW i \in 1 .. n + 1
        PROVE  Pending'[i] = Append(Pending, c)[i]
    <3>1. CASE i \in 1 .. n
      <4>1. Len(ran) + i \in 1 .. Len(sent)
        BY <1>2, <2>2, <3>1
      <4> QED
        BY <1>3, <2>2, <2>3, <2>4, <3>1, <4>1
    <3>2. CASE i = n + 1
      <4>1. Len(ran) + i = Len(sent) + 1
        BY <1>2, <2>2, <3>2
      <4> QED
        BY <1>3, <2>3, <2>4, <3>2, <4>1
    <3> QED
      BY <2>2, <3>1, <3>2
  <2> HIDE DEF n
  <2>6. Pending' = Append(Pending, c)
    BY <2>3, <2>4, <2>5, SeqEqual
  <2> QED
    BY <1>1, <1>6, <2>6 DEF Executor!Submit
<1> QED
  BY <1>5, <1>6

(* The worker has run a call: the first of the rest. *)
LEMMA ExecuteRefines ==
  ASSUME IInv, IInv', NEW result \in Results, Execute(result)
  PROVE  Executor!Run
<1>1. /\ worker = "exec" /\ ran' = Append(ran, current)
      /\ UNCHANGED <<outcome, sent, stopSent, cut>>
  BY DEF Execute, callVars, chanVars
<1>2. /\ current \in Calls /\ current = sent[Len(ran) + 1]
      /\ ran \in Seq(Calls)
  BY <1>1 DEF IInv, Order, HandInv, TypeOK
<1>3. Len(ran') = Len(ran) + 1
  BY <1>1, <1>2, AppendProperties
<1>4. PendingIsRest /\ PendingIsRest'
  BY PendingFacts, PendingFactsNext
<1> DEFINE n == Bound - Len(ran)
<1>5. Bound' = Bound
  BY <1>1 DEF Bound
<1>6. /\ Len(ran) \in Nat /\ n \in Int /\ n - 1 = Bound - (Len(ran) + 1)
      /\ Len(ran) + 1 <= Bound
  BY <1>3, <1>4, <1>5 DEF PendingIsRest
<1>7. /\ n \in Nat \ {0} /\ Pending \in Seq(Calls) /\ Len(Pending) = n
      /\ \A i \in 1 .. n : Pending[i] = sent[Len(ran) + i]
  BY <1>4, <1>6 DEF PendingIsRest
<1>8. /\ Pending' \in Seq(Calls) /\ Len(Pending') = n - 1
      /\ \A i \in 1 .. n - 1 : Pending'[i] = sent[(Len(ran) + 1) + i]
  BY <1>1, <1>3, <1>4, <1>5, <1>6 DEF PendingIsRest
<1> HIDE DEF n
<1>9. Pending # <<>>
  BY <1>7, EmptySeq
<1>10. /\ Head(Pending) = Pending[1] /\ Tail(Pending) \in Seq(Calls)
       /\ Len(Tail(Pending)) = n - 1
       /\ \A i \in 1 .. n - 1 : Tail(Pending)[i] = Pending[i + 1]
  BY <1>7, <1>9, HeadTailProperties
<1>11. Head(Pending) = current
  BY <1>2, <1>7, <1>10
<1>12. ASSUME NEW i \in 1 .. n - 1
       PROVE  Pending'[i] = Tail(Pending)[i]
  <2>1. i + 1 \in 1 .. n /\ Len(ran) + (i + 1) = (Len(ran) + 1) + i
    BY <1>6, <1>7
  <2> QED
    BY <1>7, <1>8, <1>10, <2>1
<1>13. Pending' = Tail(Pending)
  BY <1>8, <1>10, <1>12, SeqEqual
<1> QED
  BY <1>1, <1>9, <1>11, <1>13 DEF Executor!Run

(* Once the worker thread is gone nothing is left to run. *)
LEMMA GoneIsStopped ==
  ASSUME IInv, worker = "gone"
  PROVE  stopSent /\ Pending = <<>>
<1>1. stopSent /\ Len(ran) = cut
  BY DEF IInv, Order, OpenInv, StoppingInv, InLoop, TypeOK
<1>2. PendingIsRest
  BY PendingFacts
<1>3. Pending \in Seq(Calls) /\ Len(Pending) = 0
  BY <1>1, <1>2 DEF PendingIsRest, Bound
<1> QED
  BY <1>1, <1>3, EmptySeq

(* A caller is told something; the session goes on as it did. *)
LEMMA CallerRefines ==
  ASSUME RefInv, IInv', NEW h \in Handlers, Answer(h) \/ TimeOut(h)
  PROVE  \E c \in Calls : Executor!Resolve(c)
<1> DEFINE c == awaits[h]
<1>1. c \in Calls /\ outcome[c] = "waiting"
  BY DEF Answer, TimeOut, RefInv, AwaitInv, IInv, TypeOK
<1>2. UNCHANGED <<ran, sent, stopSent, cut>>
  BY DEF Answer, TimeOut, chanVars, thread
<1>3. Pending' = Pending
  BY <1>2, PendingStays DEF RefInv, Bound
<1> HIDE DEF c
<1>4. CASE TimeOut(h)
  <2>1. outcome' = [outcome EXCEPT ![c] = "timeout"]
    BY <1>4 DEF TimeOut, c
  <2>2. Executor!GiveUp(c)
    BY <1>1, <1>2, <1>3, <2>1 DEF Executor!GiveUp, Executor!Tell
  <2> QED
    BY <1>1, <2>2 DEF Executor!Resolve
<1>5. CASE Answer(h)
  <2>1. outcome' = [outcome EXCEPT ![c] = reply[c]]
        /\ reply[c] \in {"ok", "err", "dropped"}
    BY <1>1, <1>5 DEF Answer, c, RefInv, IInv, TypeOK
  <2>2. Executor!Tell(c, reply[c])
    BY <1>1, <1>2, <1>3, <2>1 DEF Executor!Tell
  <2>3. CASE reply[c] \in {"ok", "err"}
    <3>1. HasRun(c)
      BY <1>1, <2>3 DEF RefInv, IInv, Order, ReplyInv
    <3>2. Executor!HasRun(c)
      BY <3>1 DEF HasRun, Executor!HasRun, RefInv, IInv, TypeOK
    <3> QED
      BY <1>1, <2>2, <2>3, <3>2 DEF Executor!Resolve, Executor!Reply
  <2>4. CASE reply[c] = "dropped"
    <3>1. worker = "gone" /\ ~ HasRun(c)
      BY <1>1, <2>4 DEF RefInv, IInv, Order, ReplyInv
    <3>2. ~ Executor!HasRun(c)
      BY <3>1 DEF HasRun, Executor!HasRun, RefInv, IInv, TypeOK
    <3>3. stopSent /\ Pending = <<>>
      BY <3>1, GoneIsStopped DEF RefInv
    <3> QED
      BY <1>1, <2>2, <2>4, <3>2, <3>3 DEF Executor!Resolve, Executor!Drop
  <2> QED
    BY <2>1, <2>3, <2>4
<1> QED
  BY <1>4, <1>5

(* Handlers wait as they should throughout. *)
LEMMA AwaitKept == RefInv /\ [Next]_vars => AwaitInv'
<1> SUFFICES ASSUME RefInv, [Next]_vars PROVE AwaitInv'
  OBVIOUS
<1> USE SessionAssumption
<1>1. /\ awaits \in [Handlers -> Calls \cup {None}]
      /\ outcome \in [Calls -> Outcomes]
      /\ AwaitInv
  BY DEF RefInv, IInv, TypeOK
<1>2. CASE UNCHANGED callVars
  BY <1>1, <1>2 DEF AwaitInv, callVars
<1>3. ASSUME NEW h \in Handlers, NEW c \in Calls, Send(h, c)
      PROVE  AwaitInv'
  <2>1. /\ outcome[c] = "unmade"
        /\ awaits' = [awaits EXCEPT ![h] = c]
        /\ outcome' = [outcome EXCEPT ![c] = "waiting"]
    BY <1>3 DEF Send
  <2>2. \A g \in Handlers : awaits[g] # c
    BY <1>1, <2>1 DEF AwaitInv
  <2> QED
    BY <1>1, <2>1, <2>2 DEF AwaitInv
<1>4. ASSUME NEW h \in Handlers, NEW c \in Calls, SendFails(h, c)
      PROVE  AwaitInv'
  BY <1>1, <1>4 DEF SendFails, AwaitInv
<1>5. ASSUME NEW h \in Handlers, Answer(h) \/ TimeOut(h)
      PROVE  AwaitInv'
  <2>1. PICK result : /\ awaits[h] # None
                      /\ outcome' = [outcome EXCEPT ![awaits[h]] = result]
                      /\ awaits' = [awaits EXCEPT ![h] = None]
    BY <1>5 DEF Answer, TimeOut
  <2> QED
    BY <1>1, <2>1 DEF AwaitInv
<1>6. ASSUME NEW h \in Handlers, Acquire(h) \/ Release(h)
      PROVE  UNCHANGED callVars
  BY <1>6 DEF Acquire, Release
<1>7. ASSUME NEW k \in Closers, Closer(k)
      PROVE  UNCHANGED callVars
  BY <1>7 DEF Closer, CloseLooksUp, CloseMisses, CloseShutsDown,
       CloseDropsClone, CloseRemoves
<1>8. CASE Worker
  BY <1>2, <1>8 DEF Worker, Receive, Execute, ReceiveShutdown, ClosePipe
<1>9. CASE UNCHANGED vars
  BY <1>2, <1>9 DEF vars
<1> QED
  BY <1>2, <1>3, <1>4, <1>5, <1>6, <1>7, <1>8, <1>9 DEF Next, Handler

(* Every step of the session is a step of the executor, or none. *)
LEMMA StepRefines ==
  RefInv /\ IInv' /\ [Next]_vars => [Executor!Next]_(Executor!execVars)
<1> SUFFICES ASSUME RefInv, IInv', [Next]_vars
             PROVE  Executor!Next \/ UNCHANGED Executor!execVars
  OBVIOUS
<1>1. IInv
  BY DEF RefInv
<1>2. ASSUME NEW h \in Handlers, NEW c \in Calls, Send(h, c)
      PROVE  Executor!Next
  BY <1>1, <1>2, SendRefines DEF Executor!Next
<1>3. ASSUME NEW h \in Handlers, NEW c \in Calls, SendFails(h, c)
      PROVE  Executor!Next
  <2>1. /\ worker = "gone" /\ outcome[c] = "unmade"
        /\ outcome' = [outcome EXCEPT ![c] = "closed"]
        /\ UNCHANGED <<ran, sent, stopSent, cut>>
    BY <1>3 DEF SendFails, ChannelOpen, chanVars, thread
  <2>2. Pending' = Pending
    BY <1>1, <2>1, PendingStays DEF Bound
  <2>3. stopSent /\ Pending = <<>>
    BY <1>1, <2>1, GoneIsStopped
  <2>4. Executor!Refuse(c)
    BY <2>1, <2>2, <2>3 DEF Executor!Refuse
  <2> QED
    BY <2>4 DEF Executor!Next
<1>4. ASSUME NEW h \in Handlers, Answer(h) \/ TimeOut(h)
      PROVE  Executor!Next
  BY <1>4, CallerRefines DEF Executor!Next
<1>5. ASSUME UNCHANGED <<ran, outcome>>,
             SendShutdown \/ UNCHANGED <<sent, stopSent, cut>>
      PROVE  Executor!Next \/ UNCHANGED Executor!execVars
  BY <1>1, <1>5, StopRefines DEF Executor!Next
<1>6. ASSUME NEW h \in Handlers, Acquire(h) \/ Release(h)
      PROVE  Executor!Next \/ UNCHANGED Executor!execVars
  BY <1>5, <1>6 DEF Acquire, Release, DropIfLast, chanVars, callVars, thread
<1>7. ASSUME NEW k \in Closers, Closer(k)
      PROVE  Executor!Next \/ UNCHANGED Executor!execVars
  BY <1>5, <1>7 DEF Closer, CloseLooksUp, CloseMisses, CloseShutsDown,
       CloseDropsClone, CloseRemoves, DropIfLast, chanVars, callVars, thread
<1>8. ASSUME NEW result \in Results, Execute(result)
      PROVE  Executor!Next
  BY <1>1, <1>8, ExecuteRefines DEF Executor!Next
<1>9. CASE Receive \/ ReceiveShutdown \/ ClosePipe
  BY <1>5, <1>9 DEF Receive, ReceiveShutdown, ClosePipe, callVars
<1>10. CASE UNCHANGED vars
  BY <1>5, <1>10 DEF vars, chanVars, callVars, thread
<1> QED
  BY <1>2, <1>3, <1>4, <1>6, <1>7, <1>8, <1>9, <1>10
     DEF Next, Handler, Worker

(* The session begins as an executor with nothing to do. *)
LEMMA InitRefines == Init => Executor!Init /\ AwaitInv
<1> SUFFICES ASSUME Init PROVE Executor!Init /\ AwaitInv
  OBVIOUS
<1>1. Pending = <<>>
  <2>1. PendingIsRest
    BY InitInv, PendingFacts
  <2>2. Pending \in Seq(Calls) /\ Len(Pending) = 0
    BY <2>1 DEF PendingIsRest, Bound, Init
  <2> QED
    BY <2>2, EmptySeq
<1> QED
  BY <1>1 DEF Init, Executor!Init, AwaitInv

(* The session is a serial executor, for any handlers, closes and calls: every
   call runs at most once, one at a time, in the order of the sends; a stop
   keeps what was sent before it; a timeout takes nothing back. *)
THEOREM SessionIsSerial ==
  Spec => Executor!Init /\ [][Executor!Next]_(Executor!execVars)
<1>1. Init => IInv
  BY InitInv
<1>2. IInv /\ [Next]_vars => IInv'
  BY NextInv
<1>3. Init => Executor!Init /\ AwaitInv
  BY InitRefines
<1>4. RefInv /\ [Next]_vars => AwaitInv'
  BY AwaitKept
<1>5. RefInv /\ IInv' /\ [Next]_vars => [Executor!Next]_(Executor!execVars)
  BY StepRefines
<1>6. RefInv <=> IInv /\ AwaitInv
  BY DEF RefInv
<1> QED
  BY <1>1, <1>2, <1>3, <1>4, <1>5, <1>6, PTL DEF Spec

-----------------------------------------------------------------------------
(* Nobody is left to wait                                                  *)

(***************************************************************************)
(* A caller and the call it waits for know of each other: one handler, and *)
(* one that holds the session, awaits a call that waits.                   *)
(***************************************************************************)
CallersAwait ==
  /\ AwaitInv
  /\ \A h \in Handlers : awaits[h] # None => h \in holders
  /\ \A c \in Calls : outcome[c] = "waiting" => \E h \in Handlers : awaits[h] = c

(***************************************************************************)
(* A call that waits without an answer is in the channel or in the hand of *)
(* a worker that is not gone: its reply channel cannot be forgotten.       *)
(***************************************************************************)
WaitersAreKept ==
  \A c \in Calls : (outcome[c] = "waiting" /\ reply[c] = "pending") =>
    worker # "gone" /\ (Queued(c) \/ current = c)

(* Drop for Session: when the last Arc goes a Shutdown is in the channel.  *)
LastOneStops == Referenced \/ stopSent

(***************************************************************************)
(* What NoStrandedCall and WorkerStops rest on besides a worker that goes  *)
(* on: a call that waits without an answer is still to be run or dropped,  *)
(* and a worker asleep on an empty channel is one of a session somebody    *)
(* refers to, that nobody has told to stop.                                *)
(***************************************************************************)
NobodyIsStranded ==
  /\ CallersAwait
  /\ WaitersAreKept
  /\ (worker = "recv" /\ queue = <<>>) => Referenced /\ ~ stopSent

(* A caller is told one outcome: no late answer replaces it.               *)
ToldOnce ==
  \A c \in Calls : outcome[c] \notin {"unmade", "waiting"} => outcome'[c] = outcome[c]

(* Drop for Session leaves a Shutdown, or somebody who refers to it.       *)
LEMMA DropTells ==
  ASSUME DropIfLast, LastOneStops, ~ stopSent => worker # "gone"
  PROVE  LastOneStops'
<1>1. CASE Referenced'
  BY <1>1 DEF LastOneStops
<1>2. CASE ~ Referenced'
  <2>1. SendShutdown
    BY <1>2 DEF DropIfLast
  <2>2. CASE ChannelOpen
    BY <2>1, <2>2 DEF SendShutdown, LastOneStops
  <2>3. CASE ~ ChannelOpen
    <3>1. stopSent /\ stopSent' = stopSent
      BY <2>1, <2>3 DEF SendShutdown, ChannelOpen, chanVars
    <3> QED
      BY <3>1 DEF LastOneStops
  <2> QED
    BY <2>2, <2>3
<1> QED
  BY <1>1, <1>2

(* No step leaves a session that nobody refers to without its Shutdown.    *)
LEMMA StopIsKept ==
  ASSUME IInv, LastOneStops, [Next]_vars
  PROVE  LastOneStops'
<1>0. ~ stopSent => worker # "gone"
  BY DEF IInv, Order, OpenInv, InLoop
<1>1. CASE UNCHANGED <<stopSent, mapped, holders, closer>>
  BY <1>1 DEF LastOneStops, Referenced
<1>2. ASSUME NEW h \in Handlers, Acquire(h)
      PROVE  LastOneStops'
  BY <1>2 DEF Acquire, LastOneStops, Referenced
<1>3. ASSUME NEW h \in Handlers, Release(h)
      PROVE  LastOneStops'
  BY <1>0, <1>3, DropTells DEF Release
<1>4. ASSUME NEW k \in Closers, CloseLooksUp(k) \/ CloseMisses(k)
      PROVE  LastOneStops'
  <2>1. closer \in [Closers -> {"idle", "holding", "told", "removing", "done"}]
    BY DEF IInv, TypeOK
  <2>2. Referenced => Referenced'
    BY <1>4, <2>1 DEF CloseLooksUp, CloseMisses, Referenced
  <2>3. stopSent' = stopSent
    BY <1>4 DEF CloseLooksUp, CloseMisses, chanVars
  <2> QED
    BY <2>2, <2>3 DEF LastOneStops
<1>5. ASSUME NEW k \in Closers, CloseShutsDown(k)
      PROVE  LastOneStops'
  <2>1. closer \in [Closers -> {"idle", "holding", "told", "removing", "done"}]
    BY DEF IInv, TypeOK
  <2>2. closer'[k] = "told"
    BY <1>5, <2>1 DEF CloseShutsDown
  <2> QED
    BY <2>2 DEF LastOneStops, Referenced
<1>6. ASSUME NEW k \in Closers, CloseDropsClone(k)
      PROVE  LastOneStops'
  BY <1>0, <1>6, DropTells DEF CloseDropsClone
<1>7. ASSUME NEW k \in Closers, CloseRemoves(k)
      PROVE  LastOneStops'
  <2>1. CASE mapped
    BY <1>0, <1>7, <2>1, DropTells DEF CloseRemoves
  <2>2. CASE ~ mapped
    <3>1. closer \in [Closers -> {"idle", "holding", "told", "removing", "done"}]
      BY DEF IInv, TypeOK
    <3>2. Referenced => Referenced'
      BY <1>7, <2>2, <3>1 DEF CloseRemoves, Referenced
    <3>3. stopSent' = stopSent
      BY <1>7, <2>2 DEF CloseRemoves, chanVars
    <3> QED
      BY <3>2, <3>3 DEF LastOneStops
  <2> QED
    BY <2>1, <2>2
<1>8. CASE Worker
  <2>1. UNCHANGED <<stopSent, mapped, holders, closer>>
    BY <1>8 DEF Worker, Receive, Execute, ReceiveShutdown, ClosePipe, arcVars, chanVars
  <2> QED
    BY <1>1, <2>1
<1>9. ASSUME NEW h \in Handlers,
             Answer(h) \/ TimeOut(h) \/ \E c \in Calls : Send(h, c) \/ SendFails(h, c)
      PROVE  LastOneStops'
  <2>1. UNCHANGED <<stopSent, mapped, holders, closer>>
    BY <1>9 DEF Answer, TimeOut, Send, SendFails, arcVars, chanVars
  <2> QED
    BY <1>1, <2>1
<1>10. CASE UNCHANGED vars
  BY <1>1, <1>10 DEF vars, arcVars, chanVars
<1> QED
  BY <1>2, <1>3, <1>4, <1>5, <1>6, <1>7, <1>8, <1>9, <1>10 DEF Next, Handler, Closer

(* No step parts a caller from the call it waits for.                      *)
LEMMA CallersAwaitKept ==
  ASSUME IInv, CallersAwait, [Next]_vars
  PROVE  CallersAwait'
<1>0. /\ awaits \in [Handlers -> Calls \cup {None}] /\ outcome \in [Calls -> Outcomes]
      /\ None \notin Calls /\ reply \in [Calls -> {"pending", "ok", "err", "dropped"}]
  BY SessionAssumption DEF IInv, TypeOK
<1>1. AwaitInv'
  BY AwaitKept DEF RefInv, CallersAwait
<1>2. ASSUME UNCHANGED callVars,
             \A h \in Handlers : (h \in holders /\ awaits[h] # None) => h \in holders'
      PROVE  CallersAwait'
  BY <1>1, <1>2 DEF CallersAwait, callVars
<1>3. ASSUME NEW h \in Handlers, NEW c \in Calls, Send(h, c)
      PROVE  CallersAwait'
  <2>1. /\ h \in holders /\ awaits[h] = None /\ holders' = holders
        /\ awaits' = [awaits EXCEPT ![h] = c]
        /\ outcome' = [outcome EXCEPT ![c] = "waiting"]
    BY <1>3 DEF Send, arcVars
  <2> QED
    BY <1>0, <1>1, <2>1 DEF CallersAwait
<1>4. ASSUME NEW h \in Handlers, NEW c \in Calls, SendFails(h, c)
      PROVE  CallersAwait'
  <2>1. /\ UNCHANGED <<holders, awaits>>
        /\ outcome' = [outcome EXCEPT ![c] = "closed"]
    BY <1>4 DEF SendFails, arcVars
  <2> QED
    BY <1>0, <1>1, <2>1 DEF CallersAwait
<1>5. ASSUME NEW h \in Handlers, Answer(h) \/ TimeOut(h)
      PROVE  CallersAwait'
  <2>1. PICK result \in {"ok", "err", "dropped", "timeout"} :
          /\ awaits[h] # None /\ UNCHANGED holders
          /\ outcome' = [outcome EXCEPT ![awaits[h]] = result]
          /\ awaits' = [awaits EXCEPT ![h] = None]
    BY <1>0, <1>5 DEF Answer, TimeOut, arcVars
  <2>2. awaits[h] \in Calls
    BY <1>0, <2>1
  <2>3. \A g \in Handlers : awaits'[g] # None => g \in holders'
    BY <1>0, <2>1 DEF CallersAwait
  <2>4. ASSUME NEW d \in Calls, outcome'[d] = "waiting"
        PROVE  \E g \in Handlers : awaits'[g] = d
    <3>1. d # awaits[h] /\ outcome[d] = "waiting"
      BY <1>0, <2>1, <2>2, <2>4
    <3>2. PICK g \in Handlers : awaits[g] = d
      BY <3>1 DEF CallersAwait
    <3> QED
      BY <1>0, <2>1, <3>1, <3>2
  <2> QED
    BY <1>1, <2>3, <2>4 DEF CallersAwait
<1>6. ASSUME NEW h \in Handlers, Acquire(h) \/ Release(h)
      PROVE  CallersAwait'
  <2>1. UNCHANGED callVars /\ \A g \in Handlers : (g \in holders /\ awaits[g] # None) => g \in holders'
    BY <1>6 DEF Acquire, Release
  <2> QED
    BY <1>2, <2>1
<1>7. CASE (\E k \in Closers : Closer(k)) \/ Worker \/ UNCHANGED vars
  <2>1. UNCHANGED callVars /\ UNCHANGED holders
    BY <1>7 DEF Closer, CloseLooksUp, CloseMisses, CloseShutsDown, CloseDropsClone,
         CloseRemoves, Worker, Receive, Execute, ReceiveShutdown, ClosePipe, arcVars, vars
  <2> QED
    BY <1>2, <2>1
<1> QED
  BY <1>3, <1>4, <1>5, <1>6, <1>7 DEF Next, Handler

(* What is in the channel stays there while messages are only added. *)
LEMMA AddingKeeps ==
  ASSUME TypeOK, NEW m \in Calls \cup {Shutdown},
         queue' = queue \/ queue' = Append(queue, m), NEW c, Queued(c)
  PROVE  Queued(c)'
<1>1. PICK i \in 1 .. Len(queue) : queue[i] = c
  BY DEF Queued
<1>2. Len(queue) \in Nat /\ i \in Nat
  BY DEF TypeOK
<1>3. i \in 1 .. Len(queue') /\ queue'[i] = c
  BY <1>1, <1>2, AppendFacts DEF TypeOK
<1> QED
  BY <1>3 DEF Queued

(* No step loses a call somebody waits for.                                *)
LEMMA WaitersKept ==
  ASSUME IInv, WaitersAreKept, [Next]_vars
  PROVE  WaitersAreKept'
<1>0. /\ outcome \in [Calls -> Outcomes] /\ TypeOK /\ (worker = "closing" => current = None)
      /\ None \notin Calls /\ Shutdown \notin Calls
      /\ reply \in [Calls -> {"pending", "ok", "err", "dropped"}]
  BY SessionAssumption DEF IInv, TypeOK, Order, HandInv
<1>1. ASSUME UNCHANGED thread,
             NEW m \in Calls \cup {Shutdown}, queue' = queue \/ queue' = Append(queue, m),
             \A c \in Calls : outcome'[c] = "waiting" => outcome[c] = "waiting" \/ (worker # "gone" /\ Queued(c)')
      PROVE  WaitersAreKept'
  <2> SUFFICES ASSUME NEW c \in Calls, outcome'[c] = "waiting", reply'[c] = "pending"
               PROVE  worker' # "gone" /\ (Queued(c)' \/ current' = c)
    BY DEF WaitersAreKept
  <2>1. CASE outcome[c] = "waiting"
    <3>1. worker # "gone" /\ (Queued(c) \/ current = c)
      BY <1>1, <2>1 DEF WaitersAreKept, thread
    <3>2. ASSUME Queued(c) PROVE Queued(c)'
      <4>1. \A n \in Calls \cup {Shutdown} :
              queue' = queue \/ queue' = Append(queue, n) => Queued(c)'
        BY <1>0, <3>2, AddingKeeps
      <4> QED
        BY <1>1, <4>1
    <3> QED
      BY <1>1, <3>1, <3>2 DEF thread
  <2>2. CASE worker # "gone" /\ Queued(c)'
    BY <1>1, <2>2 DEF thread
  <2> QED
    BY <1>1, <2>1, <2>2
<1>2. ASSUME NEW h \in Handlers, NEW c \in Calls, Send(h, c)
      PROVE  WaitersAreKept'
  <2>1. /\ UNCHANGED thread /\ queue' = Append(queue, c) /\ worker # "gone"
        /\ outcome' = [outcome EXCEPT ![c] = "waiting"]
    BY <1>2 DEF Send, ChannelOpen
  <2>2. Queued(c)'
    <3>1. Len(queue) \in Nat /\ Len(queue') = Len(queue) + 1 /\ queue'[Len(queue) + 1] = c
      BY <1>0, <2>1, AppendFacts DEF TypeOK
    <3> QED
      BY <3>1 DEF Queued
  <2>3. \A d \in Calls : outcome'[d] = "waiting" => outcome[d] = "waiting" \/ d = c
    BY <1>0, <2>1
  <2> QED
    BY <1>1, <2>1, <2>2, <2>3
<1>3. ASSUME UNCHANGED thread, SendShutdown \/ UNCHANGED chanVars,
             \A c \in Calls : outcome'[c] = "waiting" => outcome[c] = "waiting"
      PROVE  WaitersAreKept'
  <2>1. queue' = queue \/ queue' = Append(queue, Shutdown)
    BY <1>3 DEF SendShutdown, chanVars
  <2> QED
    BY <1>1, <1>3, <2>1
<1>4. ASSUME NEW h \in Handlers,
             \/ Acquire(h) \/ Release(h) \/ Answer(h) \/ TimeOut(h)
             \/ \E c \in Calls : SendFails(h, c)
      PROVE  WaitersAreKept'
  <2>1. UNCHANGED thread /\ (SendShutdown \/ UNCHANGED chanVars)
    BY <1>4 DEF Acquire, Release, Answer, TimeOut, SendFails, DropIfLast
  <2>2. ASSUME NEW c \in Calls, outcome'[c] = "waiting" PROVE outcome[c] = "waiting"
    <3>1. CASE UNCHANGED outcome
      BY <2>2, <3>1
    <3>2. CASE Answer(h) \/ TimeOut(h)
      <4>1. awaits[h] \in Calls
        BY <3>2 DEF Answer, TimeOut, IInv, TypeOK
      <4>2. \/ outcome' = [outcome EXCEPT ![awaits[h]] = reply[awaits[h]]]
            \/ outcome' = [outcome EXCEPT ![awaits[h]] = "timeout"]
        BY <3>2 DEF Answer, TimeOut
      <4>3. reply[awaits[h]] # "waiting"
        BY <1>0, <4>1
      <4> QED
        BY <1>0, <2>2, <4>1, <4>2, <4>3
    <3>3. CASE \E d \in Calls : SendFails(h, d)
      BY <1>0, <2>2, <3>3 DEF SendFails
    <3> QED
      BY <1>4, <3>1, <3>2, <3>3 DEF Acquire, Release, callVars
  <2> QED
    BY <1>3, <2>1, <2>2
<1>5. CASE (\E k \in Closers : Closer(k)) \/ UNCHANGED vars
  <2>1. UNCHANGED thread /\ UNCHANGED outcome /\ (SendShutdown \/ UNCHANGED chanVars)
    BY <1>5 DEF Closer, CloseLooksUp, CloseMisses, CloseShutsDown, CloseDropsClone,
         CloseRemoves, DropIfLast, callVars, vars
  <2> QED
    BY <1>3, <2>1
<1>6. CASE Receive \/ ReceiveShutdown
  <2>1. /\ queue # <<>> /\ queue' = Tail(queue) /\ UNCHANGED <<outcome, reply>>
        /\ worker' # "gone" /\ worker = "recv"
        /\ current' = Head(queue) \/ (Head(queue) = Shutdown /\ current' = current)
    BY <1>6 DEF Receive, ReceiveShutdown, callVars
  <2>2. current = None
    BY <2>1 DEF IInv, Order, HandInv
  <2>3. /\ Len(queue) \in Nat \ {0} /\ Len(Tail(queue)) = Len(queue) - 1
        /\ Head(queue) = queue[1]
        /\ \A i \in 1 .. Len(queue) - 1 : Tail(queue)[i] = queue[i + 1]
    BY <1>0, <2>1, TailFacts DEF TypeOK
  <2>4. ASSUME NEW c \in Calls, Queued(c) PROVE Queued(c)' \/ current' = c
    <3>1. PICK i \in 1 .. Len(queue) : queue[i] = c
      BY <2>4 DEF Queued
    <3>2. CASE i = 1
      BY <1>0, <2>1, <2>3, <3>1, <3>2
    <3>3. CASE i # 1
      <4>1. i - 1 \in 1 .. Len(queue') /\ queue'[i - 1] = c
        BY <2>1, <2>3, <3>1, <3>3
      <4> QED
        BY <4>1 DEF Queued
    <3> QED
      BY <3>2, <3>3
  <2> QED
    BY <1>0, <2>1, <2>2, <2>4 DEF WaitersAreKept
<1>7. ASSUME NEW result \in Results, Execute(result)
      PROVE  WaitersAreKept'
  <2>1. /\ UNCHANGED <<queue, outcome>> /\ reply' = [reply EXCEPT ![current] = result]
        /\ worker' = "recv" /\ result # "pending" /\ worker = "exec"
    BY <1>7 DEF Execute, Results, callVars, chanVars
  <2> SUFFICES ASSUME NEW c \in Calls, outcome[c] = "waiting", reply'[c] = "pending"
               PROVE  Queued(c)
    BY <2>1 DEF WaitersAreKept, Queued
  <2>2. c # current /\ reply[c] = "pending"
    BY <1>0, <2>1
  <2> QED
    BY <2>2 DEF WaitersAreKept
<1>8. CASE ClosePipe
  <2>1. /\ worker = "closing" /\ UNCHANGED outcome
        /\ reply' = [c \in Calls |-> IF \E i \in DOMAIN queue : queue[i] = c
                                     THEN "dropped" ELSE reply[c]]
    BY <1>8 DEF ClosePipe, callVars
  <2>2. DOMAIN queue = 1 .. Len(queue)
    BY <1>0 DEF TypeOK
  <2>3. ASSUME NEW c \in Calls, outcome[c] = "waiting"
        PROVE  reply'[c] # "pending"
    <3>1. CASE reply[c] = "pending"
      <4>1. \E i \in 1 .. Len(queue) : queue[i] = c
        BY <1>0, <2>1, <2>3, <3>1 DEF WaitersAreKept, Queued
      <4> QED
        BY <2>1, <2>2, <4>1
    <3>2. CASE reply[c] # "pending"
      BY <2>1, <3>2
    <3> QED
      BY <3>1, <3>2
  <2> QED
    BY <2>1, <2>3 DEF WaitersAreKept
<1> QED
  BY <1>2, <1>4, <1>5, <1>6, <1>7, <1>8 DEF Next, Handler, Worker

(* The invariant, with what it says of those who wait.                     *)
WaitInv == IInv /\ CallersAwait /\ WaitersAreKept /\ LastOneStops

LEMMA WaitInitially == Init => WaitInv
<1> SUFFICES ASSUME Init PROVE WaitInv
  OBVIOUS
<1>1. IInv
  BY InitInv
<1>2. CallersAwait /\ WaitersAreKept /\ LastOneStops
  BY DEF Init, CallersAwait, AwaitInv, WaitersAreKept, LastOneStops, Referenced
<1> QED
  BY <1>1, <1>2 DEF WaitInv

LEMMA WaitAlways == Spec => []WaitInv
<1>1. WaitInv /\ [Next]_vars => WaitInv'
  BY NextInv, CallersAwaitKept, WaitersKept, StopIsKept DEF WaitInv
<1> QED
  BY <1>1, WaitInitially, PTL DEF Spec

(* Whatever handlers, closes and timers do, no caller waits for a reply    *)
(* nobody will send, and a worker sleeps only while its session is in use. *)
THEOREM SessionStrandsNobody == Spec => []NobodyIsStranded
<1>1. WaitInv => NobodyIsStranded
  <2> SUFFICES ASSUME WaitInv, worker = "recv", queue = <<>>
               PROVE  Referenced /\ ~ stopSent
    BY DEF WaitInv, NobodyIsStranded
  <2>1. Len(queue) = 0
    OBVIOUS
  <2>2. ~ stopSent
    <3> SUFFICES ASSUME stopSent PROVE FALSE
      OBVIOUS
    <3>1. Taken <= cut /\ cut - Taken < Len(queue) /\ cut \in Nat /\ Taken \in Nat
      BY Sizes DEF WaitInv, IInv, Order, StoppingInv, InLoop
    <3> QED
      BY <2>1, <3>1
  <2> QED
    BY <2>2 DEF WaitInv, LastOneStops
<1> QED
  BY <1>1, WaitAlways, PTL

(* A timer that fires as the answer lands, or an answer that comes after,  *)
(* never changes what the caller has been told.                            *)
THEOREM SessionTellsOnce == Spec => [][ToldOnce]_vars
<1>1. WaitInv /\ [Next]_vars => ToldOnce
  <2> SUFFICES ASSUME WaitInv, [Next]_vars, NEW c \in Calls,
                      outcome[c] \notin {"unmade", "waiting"}
               PROVE  outcome'[c] = outcome[c]
    BY DEF ToldOnce
  <2>1. /\ outcome \in [Calls -> Outcomes] /\ awaits \in [Handlers -> Calls \cup {None}]
        /\ \A h \in Handlers : awaits[h] # None => outcome[awaits[h]] = "waiting"
    BY DEF WaitInv, IInv, TypeOK, CallersAwait, AwaitInv
  <2>2. ASSUME NEW h \in Handlers, NEW d \in Calls, Send(h, d) \/ SendFails(h, d)
        PROVE  outcome'[c] = outcome[c]
    BY <2>1, <2>2 DEF Send, SendFails
  <2>3. ASSUME NEW h \in Handlers, Answer(h) \/ TimeOut(h)
        PROVE  outcome'[c] = outcome[c]
    BY <2>1, <2>3 DEF Answer, TimeOut
  <2>4. CASE \/ \E h \in Handlers : Acquire(h) \/ Release(h)
             \/ \E k \in Closers : Closer(k)
             \/ Worker \/ UNCHANGED vars
    BY <2>4 DEF Acquire, Release, Closer, CloseLooksUp, CloseMisses, CloseShutsDown,
         CloseDropsClone, CloseRemoves, Worker, Receive, Execute, ReceiveShutdown,
         ClosePipe, callVars, vars
  <2> QED
    BY <2>2, <2>3, <2>4 DEF Next, Handler
<1> QED
  BY <1>1, WaitAlways, PTL DEF Spec

(***************************************************************************)
(* What the worker has before it, two steps for each message in the        *)
(* channel and one for a call in hand or a pipe to close: every step of    *)
(* its own takes something off.                                            *)
(***************************************************************************)
WorkLeft == 2 * Len(queue) + (IF worker \in {"exec", "closing"} THEN 1 ELSE 0)

WorkerGetsOn == Worker => WorkLeft' < WorkLeft

(* The thread of Session::spawn never turns in circles: between two        *)
(* messages sent to it it takes a bounded number of steps, whatever r2     *)
(* answers.                                                                *)
THEOREM SessionWorkerGetsOn == Spec => [][WorkerGetsOn]_vars
<1>1. IInv => WorkerGetsOn
  <2> SUFFICES ASSUME IInv, Worker PROVE WorkLeft' < WorkLeft
    BY DEF WorkerGetsOn
  <2>0. queue \in Seq(Calls \cup {Shutdown}) /\ Len(queue) \in Nat
    BY DEF IInv, TypeOK
  <2>1. CASE Receive \/ ReceiveShutdown
    <3>1. /\ worker = "recv" /\ worker' \in {"exec", "closing"}
          /\ queue # <<>> /\ queue' = Tail(queue)
      BY <2>1 DEF Receive, ReceiveShutdown
    <3>2. Len(queue') = Len(queue) - 1
      BY <2>0, <3>1, TailFacts
    <3> QED
      BY <2>0, <3>1, <3>2 DEF WorkLeft
  <2>2. ASSUME NEW result \in Results, Execute(result) PROVE WorkLeft' < WorkLeft
    BY <2>0, <2>2 DEF Execute, WorkLeft, chanVars
  <2>3. CASE ClosePipe
    <3>1. worker = "closing" /\ worker' = "gone" /\ queue' = <<>>
      BY <2>3 DEF ClosePipe
    <3>2. Len(queue') = 0
      BY <3>1
    <3> QED
      BY <2>0, <3>1, <3>2 DEF WorkLeft
  <2> QED
    BY <2>1, <2>2, <2>3 DEF Worker
<1> QED
  BY <1>1, SpecInv, PTL DEF Spec

=============================================================================
