--------------------------- MODULE SerialExecutor ---------------------------
(***************************************************************************)
(* What a session promises the handlers that share it, with no thread, no  *)
(* channel and no reference counts: one executor runs the calls submitted  *)
(* to it one at a time, in the order of submission, each at most once.     *)
(* Being told to stop, it still runs everything submitted before and       *)
(* nothing after.  A call may be given up at any time, which does not take *)
(* it back.                                                                *)
(*                                                                         *)
(* R2Session implements this specification; AsmOverride builds on it.      *)
(***************************************************************************)
EXTENDS Integers, Sequences

CONSTANT Calls

VARIABLES
  todo,     \* the calls that will still be run, oldest first
  effects,  \* the calls that have been run, oldest first
  outcome,  \* outcome[c]: what the caller of c has been told
  stopped   \* the executor has been told to stop

execVars == <<todo, effects, outcome, stopped>>

HasRun(c) == \E i \in DOMAIN effects : effects[i] = c

(* A call submitted after the stop will not be run. *)
Submit(c) ==
  /\ outcome[c] = "unmade"
  /\ outcome' = [outcome EXCEPT ![c] = "waiting"]
  /\ todo' = IF stopped THEN todo ELSE Append(todo, c)
  /\ UNCHANGED <<effects, stopped>>

(* A call is refused only when nothing is left to run. *)
Refuse(c) ==
  /\ outcome[c] = "unmade"
  /\ stopped
  /\ todo = <<>>
  /\ outcome' = [outcome EXCEPT ![c] = "closed"]
  /\ UNCHANGED <<todo, effects, stopped>>

Run ==
  /\ todo # <<>>
  /\ todo' = Tail(todo)
  /\ effects' = Append(effects, Head(todo))
  /\ UNCHANGED <<outcome, stopped>>

Tell(c, result) ==
  /\ outcome[c] = "waiting"
  /\ outcome' = [outcome EXCEPT ![c] = result]
  /\ UNCHANGED <<todo, effects, stopped>>

(* r2's answer, good or bad, comes from a call that has been run. *)
Reply(c, result) ==
  /\ HasRun(c)
  /\ Tell(c, result)

(* A call that can no longer be run. *)
Drop(c) ==
  /\ stopped
  /\ todo = <<>>
  /\ ~HasRun(c)
  /\ Tell(c, "dropped")

GiveUp(c) == Tell(c, "timeout")

Stop ==
  /\ stopped' = TRUE
  /\ UNCHANGED <<todo, effects, outcome>>

Init ==
  /\ todo = <<>>
  /\ effects = <<>>
  /\ outcome = [c \in Calls |-> "unmade"]
  /\ stopped = FALSE

Resolve(c) ==
  \/ \E result \in {"ok", "err"} : Reply(c, result)
  \/ Drop(c)
  \/ GiveUp(c)

Next ==
  \/ \E c \in Calls : Submit(c) \/ Refuse(c) \/ Resolve(c)
  \/ Run
  \/ Stop

Fairness == WF_execVars(Run) /\ \A c \in Calls : WF_execVars(Resolve(c))

Spec == Init /\ [][Next]_execVars /\ Fairness
=============================================================================
