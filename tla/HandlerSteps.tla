----------------------------- MODULE HandlerSteps -----------------------------
(***************************************************************************)
(* What handlers that run at once do to what they share: r2's asm settings *)
(* (AsmOverride), the overflow directory (OutputGuard) and the files a     *)
(* client names (ExtractBytes), their steps interleaved.                   *)
(***************************************************************************)
EXTENDS AsmOverride, OutputGuard, ExtractBytes

sharedVars == <<asmVars, vars, exVars>>

SharedInit == AsmInit /\ Init /\ ExtractInit

(* A step of a handler is a step on one of the three. *)
SharedNext ==
  \/ AsmNext /\ UNCHANGED <<vars, exVars>>
  \/ Next /\ UNCHANGED <<asmVars, exVars>>
  \/ ExtractNext /\ UNCHANGED <<asmVars, vars>>

SharedSpec == SharedInit /\ [][SharedNext]_sharedVars

-----------------------------------------------------------------------------
(***************************************************************************)
(* What handlers share keeps its types.                                    *)
(***************************************************************************)
SharedTypeOK == AsmTypeOK /\ TypeOK /\ ExtractTypeOK

=============================================================================
