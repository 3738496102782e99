------------------------------ MODULE R2Session ------------------------------
(***************************************************************************)
(* One radare2 session: the handle that tool handlers share through        *)
(* Arc<Session>, the unbounded channel behind it and the worker thread     *)
(* that owns the r2 pipe (crates/rbm-r2/src/session.rs).                   *)
(*                                                                         *)
(* The model starts when `Session::spawn' has returned: the worker is in   *)
(* its receive loop, the session is in the manager's map and no handler    *)
(* holds it yet.  Start-up is modelled in SessionManager.                  *)
(*                                                                         *)
(* A call is one use of `Session::cmd' or `Session::cmdj'.  Both have the  *)
(* same control; they differ in how a result becomes Ok or Err, which is   *)
(* a free choice here.                                                     *)
(***************************************************************************)
EXTENDS Integers, Sequences

CONSTANTS
  Handlers,  \* tool handlers, which hold a clone of the Arc while they run
  Closers,   \* runs of SessionManager::close, each closing once
  Calls,     \* the calls ever made on the session, each one made once
  Shutdown,  \* the message SessionCmd::Shutdown
  None       \* no call

ASSUME SessionAssumption ==
  /\ Shutdown \notin Calls
  /\ None \notin Calls

VARIABLES
  mapped,    \* the manager's map holds an Arc of the session
  holders,   \* the handlers that hold an Arc of it
  closer,    \* closer[k]: how far the close k is
  awaits,    \* awaits[h]: the call whose reply handler h awaits, or None
  outcome,   \* outcome[c]: what the caller of c has been told
  reply,     \* reply[c]: the oneshot channel of c, seen from its receiver
  queue,     \* the messages in the channel, oldest first
  worker,    \* where the worker thread is
  current    \* the call the worker executes, or None

(***************************************************************************)
(* History: the calls in the order they entered the channel, the calls r2  *)
(* has executed in the order it did, whether a Shutdown has entered the    *)
(* channel and how many calls had entered it before the first one.         *)
(***************************************************************************)
VARIABLES sent, ran, stopSent, cut

arcVars  == <<mapped, holders, closer>>
callVars == <<awaits, outcome>>
chanVars == <<queue, sent, stopSent, cut>>
thread   == <<worker, current, reply, ran>>
vars     == <<arcVars, callVars, chanVars, thread>>

(***************************************************************************)
(* The receiver half of the channel lives as long as the worker thread.    *)
(***************************************************************************)
ChannelOpen == worker # "gone"

Referenced ==
  \/ mapped
  \/ holders # {}
  \/ \E k \in Closers : closer[k] \in {"holding", "told"}

(* tx.send: an error, here ignored, once the receiver is gone. *)
SendShutdown ==
  IF ChannelOpen
  THEN /\ queue' = Append(queue, Shutdown)
       /\ stopSent' = TRUE
       /\ cut' = IF stopSent THEN cut ELSE Len(sent)
       /\ UNCHANGED sent
  ELSE UNCHANGED chanVars

(***************************************************************************)
(* Drop for Session runs when the last Arc goes.                           *)
(***************************************************************************)
DropIfLast == IF Referenced' THEN UNCHANGED chanVars ELSE SendShutdown

-----------------------------------------------------------------------------
(* Handlers                                                                *)

(* SessionManager::lookup clones the Arc out of the map. *)
Acquire(h) ==
  /\ mapped
  /\ h \notin holders
  /\ holders' = holders \cup {h}
  /\ UNCHANGED <<mapped, closer, callVars, chanVars, thread>>

(* A handler ends and drops its clone. *)
Release(h) ==
  /\ h \in holders
  /\ awaits[h] = None
  /\ holders' = holders \ {h}
  /\ UNCHANGED <<mapped, closer>>
  /\ DropIfLast
  /\ UNCHANGED <<callVars, thread>>

(* Session::cmd and Session::cmdj up to their await: the send succeeds while
   the receiver exists, even if the worker is already closing the pipe. *)
Send(h, c) ==
  /\ h \in holders
  /\ awaits[h] = None
  /\ outcome[c] = "unmade"
  /\ ChannelOpen
  /\ queue' = Append(queue, c)
  /\ sent' = Append(sent, c)
  /\ awaits' = [awaits EXCEPT ![h] = c]
  /\ outcome' = [outcome EXCEPT ![c] = "waiting"]
  /\ UNCHANGED <<arcVars, thread, stopSent, cut>>

(* "session worker channel closed" *)
SendFails(h, c) ==
  /\ h \in holders
  /\ awaits[h] = None
  /\ outcome[c] = "unmade"
  /\ ~ChannelOpen
  /\ outcome' = [outcome EXCEPT ![c] = "closed"]
  /\ UNCHANGED <<arcVars, chanVars, thread, awaits>>

(* The reply channel resolves: Ok, Err, or its sender was dropped. *)
Answer(h) ==
  LET c == awaits[h] IN
  /\ c # None
  /\ reply[c] # "pending"
  /\ outcome' = [outcome EXCEPT ![c] = reply[c]]
  /\ awaits' = [awaits EXCEPT ![h] = None]
  /\ UNCHANGED <<arcVars, chanVars, thread>>

(* tool_timeout elapses.  A reply that lands between the poll of the reply
   channel and the poll of the timer is lost too, so the reply's state is no
   guard.  The message stays in the channel. *)
TimeOut(h) ==
  LET c == awaits[h] IN
  /\ c # None
  /\ outcome' = [outcome EXCEPT ![c] = "timeout"]
  /\ awaits' = [awaits EXCEPT ![h] = None]
  /\ UNCHANGED <<arcVars, chanVars, thread>>

-----------------------------------------------------------------------------
(* SessionManager::close, seen by one session.  It looks the session up,     *)
(* tells it to stop, drops its clone and only then removes the map entry.    *)

CloseLooksUp(k) ==
  /\ closer[k] = "idle"
  /\ mapped
  /\ closer' = [closer EXCEPT ![k] = "holding"]
  /\ UNCHANGED <<mapped, holders, callVars, chanVars, thread>>

(* The close looked its key up before this session was put in the map, so it
   found nothing or an older session. *)
CloseMisses(k) ==
  /\ closer[k] = "idle"
  /\ closer' = [closer EXCEPT ![k] = "removing"]
  /\ UNCHANGED <<mapped, holders, callVars, chanVars, thread>>

(* Session::shutdown *)
CloseShutsDown(k) ==
  /\ closer[k] = "holding"
  /\ closer' = [closer EXCEPT ![k] = "told"]
  /\ SendShutdown
  /\ UNCHANGED <<mapped, holders, callVars, thread>>

(* The clone is the last Arc if another close has removed the entry. *)
CloseDropsClone(k) ==
  /\ closer[k] = "told"
  /\ closer' = [closer EXCEPT ![k] = "removing"]
  /\ UNCHANGED <<mapped, holders>>
  /\ DropIfLast
  /\ UNCHANGED <<callVars, thread>>

CloseRemoves(k) ==
  /\ closer[k] = "removing"
  /\ closer' = [closer EXCEPT ![k] = "done"]
  /\ mapped' = FALSE
  /\ UNCHANGED holders
  /\ IF mapped THEN DropIfLast ELSE UNCHANGED chanVars
  /\ UNCHANGED <<callVars, thread>>

-----------------------------------------------------------------------------
(* The worker thread                                                       *)

(* Mutant of Receive: any message is taken for a command. *)
ReceiveAnything ==
  /\ worker = "recv"
  /\ queue # <<>>
  /\ queue' = Tail(queue)
  /\ current' = Head(queue)
  /\ worker' = "exec"
  /\ UNCHANGED <<arcVars, callVars, reply, ran, sent, stopSent, cut>>

(* Mutant of Receive: the newest command first. *)
ReceiveNewest ==
  LET newest == queue[Len(queue)] IN
  /\ worker = "recv"
  /\ queue # <<>>
  /\ newest # Shutdown
  /\ queue' = SubSeq(queue, 1, Len(queue) - 1)
  /\ current' = newest
  /\ worker' = "exec"
  /\ UNCHANGED <<arcVars, callVars, reply, ran, sent, stopSent, cut>>

(* Mutant of Receive: the reply channel is dropped before the command runs. *)
ReceiveDropsReply ==
  /\ worker = "recv"
  /\ queue # <<>>
  /\ Head(queue) # Shutdown
  /\ queue' = Tail(queue)
  /\ current' = Head(queue)
  /\ reply' = [reply EXCEPT ![Head(queue)] = "dropped"]
  /\ worker' = "exec"
  /\ UNCHANGED <<arcVars, callVars, ran, sent, stopSent, cut>>

(* blocking_recv returns a command: pipe.cmd is entered. *)
Receive ==
  /\ worker = "recv"
  /\ queue # <<>>
  /\ Head(queue) # Shutdown
  /\ queue' = Tail(queue)
  /\ current' = Head(queue)
  /\ worker' = "exec"
  /\ UNCHANGED <<arcVars, callVars, reply, ran, sent, stopSent, cut>>

(* Mutant of Execute: a failed command is run again. *)
ExecuteRetries(result) ==
  /\ worker = "exec"
  /\ ran' = Append(ran, current)
  /\ Len(ran) < 5
  /\ IF result = "ok"
     THEN /\ reply' = [reply EXCEPT ![current] = "ok"]
          /\ worker' = "recv"
          /\ current' = None
     ELSE UNCHANGED <<reply, worker, current>>
  /\ UNCHANGED <<arcVars, callVars, chanVars>>

(* pipe.cmd returns and the result is sent, to nobody if the caller has given
   up.  "err": the pipe failed, or the output of a Cmdj is not JSON. *)
Execute(result) ==
  /\ worker = "exec"
  /\ reply' = [reply EXCEPT ![current] = result]
  /\ ran' = Append(ran, current)
  /\ worker' = "recv"
  /\ current' = None
  /\ UNCHANGED <<arcVars, callVars, chanVars>>

(* Mutant of ReceiveShutdown: a Shutdown anywhere in the channel is acted on. *)
ReceiveShutdownFirst ==
  /\ worker = "recv"
  /\ \E i \in DOMAIN queue : queue[i] = Shutdown
  /\ queue' = Tail(queue)
  /\ worker' = "closing"
  /\ UNCHANGED <<arcVars, callVars, current, reply, ran, sent, stopSent, cut>>

(* Mutant of ReceiveShutdown: it is skipped while handlers hold the session. *)
ReceiveShutdownIfUnused ==
  /\ worker = "recv"
  /\ queue # <<>>
  /\ Head(queue) = Shutdown
  /\ queue' = Tail(queue)
  /\ worker' = IF holders = {} THEN "closing" ELSE "recv"
  /\ UNCHANGED <<arcVars, callVars, current, reply, ran, sent, stopSent, cut>>

(* blocking_recv returns Shutdown: the loop ends. *)
ReceiveShutdown ==
  /\ worker = "recv"
  /\ queue # <<>>
  /\ Head(queue) = Shutdown
  /\ queue' = Tail(queue)
  /\ worker' = "closing"
  /\ UNCHANGED <<arcVars, callVars, current, reply, ran, sent, stopSent, cut>>

(* Mutant of ClosePipe: the reply senders of the messages left are kept. *)
ClosePipeKeepsReplies ==
  /\ worker = "closing"
  /\ worker' = "gone"
  /\ queue' = <<>>
  /\ UNCHANGED <<arcVars, callVars, current, reply, ran, sent, stopSent, cut>>

(* pipe.close returns and the thread ends: the receiver is dropped with the
   messages left in it, and with them their reply senders. *)
ClosePipe ==
  /\ worker = "closing"
  /\ worker' = "gone"
  /\ queue' = <<>>
  /\ reply' = [c \in Calls |-> IF \E i \in DOMAIN queue : queue[i] = c
                               THEN "dropped" ELSE reply[c]]
  /\ UNCHANGED <<arcVars, callVars, current, ran, sent, stopSent, cut>>

-----------------------------------------------------------------------------

Init ==
  /\ mapped = TRUE
  /\ holders = {}
  /\ closer = [k \in Closers |-> "idle"]
  /\ awaits = [h \in Handlers |-> None]
  /\ outcome = [c \in Calls |-> "unmade"]
  /\ reply = [c \in Calls |-> "pending"]
  /\ queue = <<>>
  /\ worker = "recv"
  /\ current = None
  /\ sent = <<>>
  /\ ran = <<>>
  /\ stopSent = FALSE
  /\ cut = 0

Results == {"ok", "err"}

Worker ==
  \/ Receive
  \/ \E result \in Results : Execute(result)
  \/ ReceiveShutdown
  \/ ClosePipe

Handler(h) ==
  \/ Acquire(h)
  \/ Release(h)
  \/ \E c \in Calls : Send(h, c) \/ SendFails(h, c)
  \/ Answer(h)
  \/ TimeOut(h)

Closer(k) ==
  \/ CloseLooksUp(k)
  \/ CloseMisses(k)
  \/ CloseShutsDown(k)
  \/ CloseDropsClone(k)
  \/ CloseRemoves(k)

Next ==
  \/ \E h \in Handlers : Handler(h)
  \/ \E k \in Closers : Closer(k)
  \/ Worker

(***************************************************************************)
(* r2 answers every command and its close returns, so the worker thread    *)
(* goes on; a handler whose reply is there is polled again.  No timer is   *)
(* assumed to fire.                                                        *)
(***************************************************************************)
WorkerFairness == WF_vars(Worker)
AnswerFairness == \A h \in Handlers : WF_vars(Answer(h))

Spec == Init /\ [][Next]_vars /\ WorkerFairness /\ AnswerFairness

-----------------------------------------------------------------------------
(* Properties                                                              *)

Outcomes == {"unmade", "waiting", "ok", "err", "dropped", "timeout", "closed"}

(* Every variable has its type. *)
TypeOK ==
  /\ mapped \in BOOLEAN
  /\ holders \in SUBSET Handlers
  /\ closer \in [Closers -> {"idle", "holding", "told", "removing", "done"}]
  /\ awaits \in [Handlers -> Calls \cup {None}]
  /\ outcome \in [Calls -> Outcomes]
  /\ reply \in [Calls -> {"pending", "ok", "err", "dropped"}]
  /\ queue \in Seq(Calls \cup {Shutdown})
  /\ worker \in {"recv", "exec", "closing", "gone"}
  /\ current \in Calls \cup {None}
  /\ sent \in Seq(Calls)
  /\ ran \in Seq(Calls)
  /\ stopSent \in BOOLEAN
  /\ cut \in Nat

(* r2 executes the calls in the order they entered the channel, each at most
   once and none skipped: what has run is a prefix of what was sent. *)
RunsInOrder ==
  /\ Len(ran) <= Len(sent)
  /\ \A i \in 1 .. Len(ran) : ran[i] = sent[i]

(* When the worker leaves its loop it has run exactly the calls that entered
   the channel before the first Shutdown: shutting down loses none of them
   and runs none sent after it, timed out or not. *)
DrainsExactly ==
  /\ stopSent => Len(ran) <= cut
  /\ worker \in {"closing", "gone"} => stopSent /\ Len(ran) = cut

HasRun(c) == \E i \in 1 .. Len(ran) : ran[i] = c

(* A call answered by r2 has run; a call refused because the session went
   away ("session worker channel closed", "session reply channel dropped")
   never did, so its caller can make it again on a new session. *)
RefusedNeverRan ==
  \A c \in Calls :
    /\ outcome[c] \in {"ok", "err"} => HasRun(c)
    /\ outcome[c] \in {"closed", "dropped"} => ~HasRun(c)

(* No call waits for its timer because of a shutdown: if r2 keeps answering,
   every call is resolved without any timeout, whoever closes the session
   and whenever. *)
NoStrandedCall ==
  \A c \in Calls : (outcome[c] = "waiting") ~> (outcome[c] # "waiting")

(* A session told to stop, or that nobody refers to any more, ends with its
   pipe closed and its thread gone, even if handlers keep their Arcs. *)
WorkerStops == (stopSent \/ ~Referenced) ~> (worker = "gone")

(***************************************************************************)
(* The calls still to be run, as the abstract executor sees them: the one  *)
(* r2 is at, then those ahead of the first Shutdown in the channel.        *)
(***************************************************************************)
InHand == IF worker = "exec" THEN 1 ELSE 0

Ahead == IF stopSent THEN cut - Len(ran) - InHand ELSE Len(queue)

Pending ==
  (IF worker = "exec" THEN <<current>> ELSE <<>>) \o SubSeq(queue, 1, Ahead)

Executor == INSTANCE SerialExecutor
  WITH todo <- Pending, effects <- ran, stopped <- stopSent

(* The session is a serial executor: its worker thread, channel, reply
   channels, timers and reference counts implement SerialExecutor. *)
ImplementsExecutor == Executor!Spec
=============================================================================
