---------------------------- MODULE AsmOverride ----------------------------
(***************************************************************************)
(* Tool handlers that disassemble under another architecture or word size: *)
(* artifact_summary, trace_seed_value, path_digest and field_xrefs in      *)
(* crates/rbm-r2/src, all with the same program over one shared session:   *)
(* Session::apply_asm_settings, "pdj", Session::restore_asm_settings.      *)
(*                                                                         *)
(* The session is a SerialExecutor (which R2Session implements) that is    *)
(* not being closed; its calls are the steps of the handlers' programs,    *)
(* and running a call reads or writes r2's asm settings.                   *)
(***************************************************************************)
EXTENDS Integers, Sequences, FiniteSets

CONSTANTS
  Handlers,   \* the handlers, each running once
  Arches,     \* values of asm.arch
  Widths,     \* values of asm.bits
  Wishes,     \* the overrides handlers are asked to use
  Original,   \* the settings r2 chose for the binary
  Unset,      \* no override (None for arch, 0 for bits), nothing captured
  Garbled,    \* a captured text with one of r2's metacharacters in it
  Failures    \* how a call may fail, {} for not at all

(***************************************************************************)
(* "err": r2 ran the command but its output was refused; "timeout": the    *)
(* caller gave up; "garbled": the answer to a read is no value of the      *)
(* setting but a text that validate_asm_setting will refuse.               *)
(***************************************************************************)
Settings == [arch : Arches, bits : Widths]

Partial == [arch : Arches \cup {Unset}, bits : Widths \cup {Unset}]

(* What an AsmSettingsSnapshot can hold. *)
Captures ==
  [arch : Arches \cup {Unset, Garbled}, bits : Widths \cup {Unset, Garbled}]

NoWish == [arch |-> Unset, bits |-> Unset]

ASSUME OverrideAssumption ==
  /\ Unset \notin Arches
  /\ Unset \notin Widths
  /\ Garbled \notin Arches /\ Garbled \notin Widths /\ Garbled # Unset
  /\ Original \in Settings
  \* without overrides the program is one "pdj", which leaves nothing to undo
  /\ Wishes \subseteq Partial \ {NoWish}
  /\ Failures \subseteq {"err", "timeout", "garbled"}

Fields == {"arch", "bits"}

ReadStep  == [arch |-> "e asm.arch", bits |-> "e asm.bits"]
SetStep   == [arch |-> "set asm.arch", bits |-> "set asm.bits"]
ResetStep == [arch |-> "reset asm.arch", bits |-> "reset asm.bits"]

Steps ==
  {ReadStep[f] : f \in Fields} \cup {SetStep[f] : f \in Fields}
    \cup {ResetStep[f] : f \in Fields} \cup {"pdj"}

ApplySteps == Steps \ ({ResetStep[f] : f \in Fields} \cup {"pdj"})

VARIABLES
  todo, effects, outcome, stopped,  \* the session (see SerialExecutor)
  asm,       \* r2's settings asm.arch and asm.bits
  want,      \* want[h]: the overrides h was asked to use
  program,   \* program[h]: the steps h has still to make
  value,     \* value[h]: each setting as r2 last read it for h
  snapshot   \* snapshot[h]: the AsmSettingsSnapshot of h

(***************************************************************************)
(* History: the settings each "pdj" ran under, whether two handlers with   *)
(* overrides have ever run at once, and whether a call has failed.         *)
(***************************************************************************)
VARIABLES decoded, overlapped, failed

execVars == <<todo, effects, outcome, stopped>>
history  == <<decoded, overlapped, failed>>
asmVars     == <<execVars, asm, want, program, value, snapshot, history>>

Session == INSTANCE SerialExecutor WITH Calls <- Handlers \X Steps

Opt(cond, steps) == IF cond THEN steps ELSE <<>>

(* Mutant of Program: the old settings are not captured before they are set. *)
ProgramWithoutReads(w) ==
  Opt(w.arch # Unset, <<SetStep.arch>>)
    \o Opt(w.bits # Unset, <<SetStep.bits>>)
    \o <<"pdj">>
    \o Opt(w.bits # Unset, <<ResetStep.bits>>)
    \o Opt(w.arch # Unset, <<ResetStep.arch>>)

(* Mutant of Program: bits are restored only along with arch. *)
ProgramForgetsBits(w) ==
  Opt(w.arch # Unset, <<ReadStep.arch, SetStep.arch>>)
    \o Opt(w.bits # Unset, <<ReadStep.bits, SetStep.bits>>)
    \o <<"pdj">>
    \o Opt(w.arch # Unset /\ w.bits # Unset, <<ResetStep.bits>>)
    \o Opt(w.arch # Unset, <<ResetStep.arch>>)

(***************************************************************************)
(* apply_asm_settings, the disassembly, restore_asm_settings: bits are     *)
(* restored before arch.                                                   *)
(***************************************************************************)
Program(w) ==
  Opt(w.arch # Unset, <<ReadStep.arch, SetStep.arch>>)
    \o Opt(w.bits # Unset, <<ReadStep.bits, SetStep.bits>>)
    \o <<"pdj">>
    \o Opt(w.bits # Unset, <<ResetStep.bits>>)
    \o Opt(w.arch # Unset, <<ResetStep.arch>>)

Idle(h) == want[h] = NoWish

Running(h) == program[h] # <<>>

Awaiting(h) == \E s \in Steps : outcome[<<h, s>>] = "waiting"

AllDone == \A h \in Handlers : ~Running(h)

(* restore_asm_settings comes to a setting whose captured value
   validate_asm_setting refuses. *)
RestoreIsRefused(h) ==
  \E f \in Fields : Head(program[h]) = ResetStep[f] /\ snapshot[h][f] = Garbled

-----------------------------------------------------------------------------

(* A handler starts. *)
StartHandler(h, w) ==
  /\ Idle(h)
  /\ want' = [want EXCEPT ![h] = w]
  /\ program' = [program EXCEPT ![h] = Program(w)]
  /\ overlapped' = (overlapped \/ \E g \in Handlers : Running(g))
  /\ UNCHANGED <<execVars, asm, value, snapshot, decoded, failed>>

(* The next call is sent, unless it is a restore that is refused. *)
SendCall(h) ==
  /\ Running(h)
  /\ ~Awaiting(h)
  /\ ~RestoreIsRefused(h)
  /\ Session!Submit(<<h, Head(program[h])>>)
  /\ UNCHANGED <<asm, want, program, value, snapshot, history>>

(* r2 runs the oldest call, whether or not its caller still waits. *)
R2Runs ==
  /\ Session!Run
  /\ LET h == Head(todo)[1]
         s == Head(todo)[2]
     IN
     /\ \/ /\ \E f \in Fields : s = ReadStep[f] /\ value' = [value EXCEPT ![h][f] = asm[f]]
           /\ UNCHANGED <<asm, decoded>>
        \/ /\ \E f \in Fields : s = SetStep[f] /\ asm' = [asm EXCEPT ![f] = want[h][f]]
           /\ UNCHANGED <<value, decoded>>
        \/ /\ \E f \in Fields : s = ResetStep[f] /\ asm' = [asm EXCEPT ![f] = snapshot[h][f]]
           /\ UNCHANGED <<value, decoded>>
        \/ /\ s = "pdj"
           /\ decoded' = [decoded EXCEPT ![h] = asm]
           /\ UNCHANGED <<asm, value>>
  /\ UNCHANGED <<want, program, snapshot, overlapped, failed>>

(* The answer to a read is captured in the snapshot; the handler goes on. *)
StepSucceeds(h) ==
  /\ Running(h)
  /\ LET s == Head(program[h]) IN
     /\ Session!Reply(<<h, s>>, "ok")
     /\ snapshot' = [snapshot EXCEPT ![h] =
          [f \in Fields |-> IF s = ReadStep[f] THEN value[h][f] ELSE @[f]]]
     /\ program' = [program EXCEPT ![h] = Tail(@)]
  /\ UNCHANGED <<asm, want, value, history>>

(* What is captured is what r2 answered, whatever that is; it is looked at
   when it is to be restored. *)
StepIsGarbled(h) ==
  /\ Running(h)
  /\ "garbled" \in Failures
  /\ \E f \in Fields :
       /\ Head(program[h]) = ReadStep[f]
       /\ Session!Reply(<<h, ReadStep[f]>>, "ok")
       /\ snapshot' = [snapshot EXCEPT ![h][f] = Garbled]
  /\ program' = [program EXCEPT ![h] = Tail(@)]
  /\ failed' = TRUE
  /\ UNCHANGED <<asm, want, value, decoded, overlapped>>

(* Mutant of RefuseRestore: the first refusal ends restore_asm_settings. *)
RefusesAtOnce(h) ==
  /\ Running(h)
  /\ RestoreIsRefused(h)
  /\ program' = [program EXCEPT ![h] = <<>>]
  /\ failed' = TRUE
  /\ UNCHANGED <<execVars, asm, want, value, snapshot, decoded, overlapped>>

(* A captured value that is refused is not sent; the other one still is. *)
RefuseRestore(h) ==
  /\ Running(h)
  /\ RestoreIsRefused(h)
  /\ program' = [program EXCEPT ![h] = Tail(@)]
  /\ failed' = TRUE
  /\ UNCHANGED <<execVars, asm, want, value, snapshot, decoded, overlapped>>

(* Mutant of StepFails: any error ends the handler. *)
FailsAtOnce(h, how) ==
  /\ Running(h)
  /\ LET s == Head(program[h]) IN
     \/ how = "err" /\ Session!Reply(<<h, s>>, "err")
     \/ how = "timeout" /\ Session!GiveUp(<<h, s>>)
  /\ program' = [program EXCEPT ![h] = <<>>]
  /\ failed' = TRUE
  /\ UNCHANGED <<asm, want, value, snapshot, decoded, overlapped>>

(* An error in apply_asm_settings ends the handler there and then, and its
   snapshot is lost; one in "pdj" or in a restore does not keep the remaining
   restores from being made. *)
StepFails(h, how) ==
  /\ Running(h)
  /\ LET s == Head(program[h]) IN
     /\ \/ how = "err" /\ Session!Reply(<<h, s>>, "err")
        \/ how = "timeout" /\ Session!GiveUp(<<h, s>>)
     /\ program' = [program EXCEPT ![h] =
                      IF s \in ApplySteps THEN <<>> ELSE Tail(@)]
  /\ failed' = TRUE
  /\ UNCHANGED <<asm, want, value, snapshot, decoded, overlapped>>

-----------------------------------------------------------------------------

AsmInit ==
  /\ Session!Init
  /\ asm = Original
  /\ want = [h \in Handlers |-> NoWish]
  /\ program = [h \in Handlers |-> <<>>]
  /\ value = [h \in Handlers |-> NoWish]
  /\ snapshot = [h \in Handlers |-> NoWish]
  /\ decoded = [h \in Handlers |-> NoWish]
  /\ overlapped = FALSE
  /\ failed = FALSE

AsmNext ==
  \/ \E h \in Handlers :
       \/ \E w \in Wishes : StartHandler(h, w)
       \/ SendCall(h)
       \/ StepSucceeds(h)
       \/ StepIsGarbled(h)
       \/ RefuseRestore(h)
       \/ \E how \in Failures : StepFails(h, how)
  \/ R2Runs

AsmSpec == AsmInit /\ [][AsmNext]_asmVars

-----------------------------------------------------------------------------
(* Properties                                                              *)

(* Every variable has its type. *)
AsmTypeOK ==
  /\ asm \in Settings
  /\ want \in [Handlers -> Wishes \cup {NoWish}]
  /\ program \in [Handlers -> Seq(Steps)]
  /\ value \in [Handlers -> Captures]
  /\ snapshot \in [Handlers -> Captures]
  /\ decoded \in [Handlers -> Captures]
  /\ overlapped \in BOOLEAN
  /\ failed \in BOOLEAN

(* The overrides h was asked for, on top of the binary's own settings. *)
Asked(h) ==
  [f \in Fields |-> IF want[h][f] = Unset THEN Original[f] ELSE want[h][f]]

(* As long as handlers with overrides take turns and none of their calls
   fails or is given a garbled answer, each leaves the session as it found it:
   nothing else can leak an override into a later tool call. *)
TurnsRestore ==
  (AllDone /\ ~overlapped /\ ~failed) => asm = Original

(* Under the same conditions each disassembles under exactly the settings it
   was asked for. *)
TurnsDecodeAsAsked ==
  (~overlapped /\ ~failed) =>
    \A h \in Handlers : decoded[h] \in {NoWish, Asked(h)}

(* Handlers that take turns on a session decode under the settings they asked
   for and leave those they found (apply_asm_settings, restore_asm_settings). *)
TurnsKeepSettings == TurnsRestore /\ TurnsDecodeAsAsked

(* A handler that got past apply_asm_settings sends every restore whose
   captured value validate_asm_setting passes, and no other, whatever fails
   or is refused on the way: "pdj", a restore, the other captured value. *)
RestoreIsTried ==
  \A h \in Handlers :
    (~Idle(h) /\ ~Running(h)) =>
      \/ \E s \in ApplySteps : outcome[<<h, s>>] \in Failures
      \/ \A f \in Fields :
           want[h][f] # Unset =>
             (outcome[<<h, ResetStep[f]>>] # "unmade" <=> snapshot[h][f] # Garbled)

(* Session::apply_asm_settings' comment: restore_asm_settings keeps persistent
   sessions from leaking architecture overrides into later tool calls.  So
   when all handlers have returned the settings are the binary's own. *)
RestoredAtRest == (AllDone /\ todo = <<>>) => asm = Original
=============================================================================
