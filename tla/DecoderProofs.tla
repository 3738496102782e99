---------------------------- MODULE DecoderProofs ----------------------------
(***************************************************************************)
(* Proofs about DecoderTools for any programs, any requests, any caps and  *)
(* any answers of radare2: what is proved of each tool on its own          *)
(* (ScanProofs, ReadingProofs) holds of the server that runs any of them.  *)
(***************************************************************************)
EXTENDS DecoderTools, ScanProofs, ReadingProofs

(* A tool that runs makes a step of its own, and the others wait. *)
LEMMA OneToolRuns ==
  ASSUME RunTool
  PROVE  /\ [TraceNext]_btVars /\ [SeedNext]_stVars /\ [EmulateNext]_aeVars
         /\ [DigestNext]_pdVars /\ [FieldsNext]_fxVars /\ [TableNext]_jtVars
         /\ [DispatchNext]_ddVars
<1>1. [TraceNext]_btVars
  <2>1. CASE tool = "r2_trace_data_flow"
    BY <2>1 DEF RunTool, StepsOf
  <2>2. CASE tool # "r2_trace_data_flow"
    BY <2>2 DEF RunTool, Idle
  <2> QED
    BY <2>1, <2>2
<1>2. [SeedNext]_stVars
  <2>1. CASE tool = "r2_value_trace"
    BY <2>1 DEF RunTool, StepsOf
  <2>2. CASE tool # "r2_value_trace"
    BY <2>2 DEF RunTool, Idle
  <2> QED
    BY <2>1, <2>2
<1>3. [EmulateNext]_aeVars
  <2>1. CASE tool = "r2_artifact_summary"
    BY <2>1 DEF RunTool, StepsOf
  <2>2. CASE tool # "r2_artifact_summary"
    BY <2>2 DEF RunTool, Idle
  <2> QED
    BY <2>1, <2>2
<1>4. [DigestNext]_pdVars
  <2>1. CASE tool = "r2_path_digest"
    BY <2>1 DEF RunTool, StepsOf
  <2>2. CASE tool # "r2_path_digest"
    BY <2>2 DEF RunTool, Idle
  <2> QED
    BY <2>1, <2>2
<1>5. [FieldsNext]_fxVars
  <2>1. CASE tool = "r2_field_xrefs"
    BY <2>1 DEF RunTool, StepsOf
  <2>2. CASE tool # "r2_field_xrefs"
    BY <2>2 DEF RunTool, Idle
  <2> QED
    BY <2>1, <2>2
<1>6. [TableNext]_jtVars
  <2>1. CASE tool = "r2_jump_table_slices"
    BY <2>1 DEF RunTool, StepsOf
  <2>2. CASE tool # "r2_jump_table_slices"
    BY <2>2 DEF RunTool, Idle
  <2> QED
    BY <2>1, <2>2
<1>7. [DispatchNext]_ddVars
  <2>1. CASE tool = "r2_windows_driver_dispatch"
    BY <2>1 DEF RunTool, StepsOf
  <2>2. CASE tool # "r2_windows_driver_dispatch"
    BY <2>2 DEF RunTool, Idle
  <2> QED
    BY <2>1, <2>2
<1> QED
  BY <1>1, <1>2, <1>3, <1>4, <1>5, <1>6, <1>7

(* What the server does is, for each tool, a step of that tool or none. *)
LEMMA ToolsAreApart ==
  ASSUME [ToolNext]_toolVars
  PROVE  /\ [TraceNext]_btVars /\ [SeedNext]_stVars /\ [EmulateNext]_aeVars
         /\ [DigestNext]_pdVars /\ [FieldsNext]_fxVars /\ [TableNext]_jtVars
         /\ [DispatchNext]_ddVars
<1>1. CASE RunTool
  BY <1>1, OneToolRuns
<1>2. CASE CallTool
  <2>1. UNCHANGED <<btVars, stVars, aeVars, pdVars, fxVars, jtVars, ddVars>>
    BY <1>2 DEF CallTool
  <2> QED
    BY <2>1
<1>3. CASE UNCHANGED toolVars
  <2>1. UNCHANGED <<btVars, stVars, aeVars, pdVars, fxVars, jtVars, ddVars>>
    BY <1>3 DEF toolVars
  <2> QED
    BY <2>1
<1> QED
  BY <1>1, <1>2, <1>3 DEF ToolNext

(* The invariants of the tools, side by side. *)
DecodersInv ==
  IInv /\ SeedInv /\ EmulateInv /\ DigestInv /\ FieldsInv /\ TableInv /\ DispatchInv

LEMMA DecodersInitInv ==
  ASSUME ToolInit
  PROVE  DecodersInv
<1>1. /\ TraceInit /\ SeedInit /\ EmulateInit /\ DigestInit /\ FieldsInit /\ TableInit
      /\ DispatchInit
  BY DEF ToolInit
<1> QED
  BY <1>1, InitInv, SeedInitInv, EmulateInitInv, DigestInitInv, FieldsInitInv, TableInitInv,
     DispatchInitInv
     DEF DecodersInv

LEMMA DecodersStepInv ==
  ASSUME DecodersInv, [ToolNext]_toolVars
  PROVE  DecodersInv' /\ [NothingFromNothing]_stVars /\ [ResolvedFromItsPush]_fxVars
<1>1. /\ [TraceNext]_btVars /\ [SeedNext]_stVars /\ [EmulateNext]_aeVars
      /\ [DigestNext]_pdVars /\ [FieldsNext]_fxVars /\ [TableNext]_jtVars
      /\ [DispatchNext]_ddVars
  BY ToolsAreApart
<1>2. IInv'
  BY <1>1, NextInv DEF DecodersInv
<1>3. SeedInv' /\ [NothingFromNothing]_stVars
  BY <1>1, SeedStepInv DEF DecodersInv
<1>4. EmulateInv'
  BY <1>1, EmulateStepInv DEF DecodersInv
<1>5. DigestInv'
  BY <1>1, DigestStepInv DEF DecodersInv
<1>6. FieldsInv' /\ [ResolvedFromItsPush]_fxVars
  BY <1>1, FieldsStepInv DEF DecodersInv
<1>7. TableInv'
  BY <1>1, TableStepInv DEF DecodersInv
<1>8. DispatchInv'
  BY <1>1, DispatchStepInv DEF DecodersInv
<1> QED
  BY <1>2, <1>3, <1>4, <1>5, <1>6, <1>7, <1>8 DEF DecodersInv

(***************************************************************************)
(* The invariants of the tools hold whatever tool runs.                    *)
(***************************************************************************)
THEOREM DecodersInvariant == ToolSpec => []DecodersInv
<1>1. ToolInit => DecodersInv
  BY DecodersInitInv
<1>2. DecodersInv /\ [ToolNext]_toolVars => DecodersInv'
  BY DecodersStepInv
<1> QED
  BY <1>1, <1>2, PTL DEF ToolSpec

(***************************************************************************)
(* As long as the trace knows where the stack pointer is, it follows every *)
(* copy of the seed that mov, push and pop make in registers and on the    *)
(* stack, in any program (TraceState::apply_op).                           *)
(***************************************************************************)
THEOREM CopiesAreFollowed == ToolSpec => []CopiesFollowedInStep
<1>1. DecodersInv => CopiesFollowedInStep
  BY SeedInvIsEnough DEF DecodersInv
<1> QED
  BY <1>1, DecodersInvariant, PTL

(***************************************************************************)
(* An assignment that is reported is one of the writes the scan referred   *)
(* to (field_xrefs).                                                       *)
(***************************************************************************)
THEOREM AssignmentsWereWritten == ToolSpec => []AssignmentsAreWrites
<1>1. DecodersInv => AssignmentsAreWrites
  BY FieldsInvIsEnough DEF DecodersInv
<1> QED
  BY <1>1, DecodersInvariant, PTL

(***************************************************************************)
(* A jump table's entries are its bytes, however wide and however many     *)
(* were asked for; each target is sliced once; no summary goes past the    *)
(* bytes of its slice (jump_table_slices).                                 *)
(***************************************************************************)
THEOREM TablesAreRead == ToolSpec => []JumpTableIsRead
<1>1. DecodersInv => JumpTableIsRead
  BY TableInvIsEnough DEF DecodersInv, JumpTableIsRead
<1> QED
  BY <1>1, DecodersInvariant, PTL

(***************************************************************************)
(* Every store into the DRIVER_OBJECT has its row, in order, with the      *)
(* address the last lea left, and each target is suggested once            *)
(* (windows_driver_dispatch).                                              *)
(***************************************************************************)
THEOREM StoresAreReported == ToolSpec => []DriverStoresReported
<1>1. DecodersInv => DriverStoresReported
  BY DispatchInvIsEnough DEF DecodersInv, DriverStoresReported
<1> QED
  BY <1>1, DecodersInvariant, PTL

(***************************************************************************)
(* Whatever the caps: the rows kept are the first, and what is told of     *)
(* those left out is right (seed traces, digests, field summaries).        *)
(***************************************************************************)
THEOREM CutsAreAlwaysTold == ToolSpec => []CutsAreTold
<1>1. DecodersInv => CutsAreTold
  BY SeedInvIsEnough, DigestInvIsEnough, FieldsInvIsEnough DEF DecodersInv, CutsAreTold
<1> QED
  BY <1>1, DecodersInvariant, PTL

(***************************************************************************)
(* No step starts a trace of what is not tracked, and none names the       *)
(* result of a resolver but after the push for that very call.             *)
(***************************************************************************)
THEOREM NamesAlwaysHaveASource == ToolSpec => NamesHaveASource
<1>1. DecodersInv /\ [ToolNext]_toolVars
        => [NothingFromNothing /\ ResolvedFromItsPush]_toolVars
  <2> SUFFICES ASSUME DecodersInv, [ToolNext]_toolVars
               PROVE  [NothingFromNothing /\ ResolvedFromItsPush]_toolVars
    OBVIOUS
  <2>1. [NothingFromNothing]_stVars /\ [ResolvedFromItsPush]_fxVars
    BY DecodersStepInv
  <2>2. UNCHANGED stVars => NothingFromNothing
    BY DEF stVars, NothingFromNothing, NothingTracked
  <2>3. UNCHANGED fxVars => ResolvedFromItsPush
    BY DEF fxVars, ResolvedFromItsPush
  <2> QED
    BY <2>1, <2>2, <2>3
<1> QED
  BY <1>1, DecodersInvariant, PTL DEF ToolSpec, NamesHaveASource

(***************************************************************************)
(* Every tool's variables keep their types: the emulated registers are     *)
(* words and its memory bytes, whatever was emulated; a trace, a digest, a *)
(* field summary, a table and a dispatch stay within their caps.           *)
(***************************************************************************)
THEOREM DecodersType == ToolSpec => []DecodersTypeOK
<1>1. DecodersInv => DecodersTypeOK
  BY SeedInvIsEnough, EmulateInvIsEnough, DigestInvIsEnough, FieldsInvIsEnough,
     TableInvIsEnough, DispatchInvIsEnough DEF DecodersInv, DecodersTypeOK, IInv
<1> QED
  BY <1>1, DecodersInvariant, PTL

(***************************************************************************)
(* A run that ended early says why: an emulation by its reason or its step *)
(* cap (run_artifact_emulation), a digest by the stop address it met or    *)
(* the end of its window (path_digest).                                    *)
(***************************************************************************)
THEOREM EndsAreAlwaysTold == ToolSpec => []EndsAreTold
<1>1. DecodersInv => EndsAreTold
  BY EmulateInvIsEnough, DigestInvIsEnough DEF DecodersInv, EndsAreTold
<1> QED
  BY <1>1, DecodersInvariant, PTL

(***************************************************************************)
(* Bytes read back are the ones written last, for any base and word width: *)
(* what push stores pop finds, wherever the stack pointer is and whatever  *)
(* else is in memory (write_value, read_value), and the buffers of a       *)
(* digest hold the last writes to each offset.                             *)
(***************************************************************************)
THEOREM LastWritesAreHeld == ToolSpec => []MemoryHoldsLastWrites
<1>1. DecodersInv => MemoryHoldsLastWrites
  BY EmulateInvIsEnough, DigestInvIsEnough DEF DecodersInv, MemoryHoldsLastWrites
<1> QED
  BY <1>1, DecodersInvariant, PTL

(***************************************************************************)
(* The setup told with a call is the last that was executed                *)
(* (artifact_summary) or read (path_digest) before it, in order, at any    *)
(* length of the windows it slides through.                                *)
(***************************************************************************)
THEOREM SetupsAreShown == ToolSpec => []SetupsAreNearest
<1>1. DecodersInv => SetupsAreNearest
  BY EmulateInvIsEnough, DigestInvIsEnough DEF DecodersInv, SetupsAreNearest
<1> QED
  BY <1>1, DecodersInvariant, PTL

(***************************************************************************)
(* The strings decoded are, for one-byte and two-byte characters alike,    *)
(* exactly the texts in memory that no character makes longer, whatever    *)
(* the code wrote, in one range or in many, from even and odd addresses,   *)
(* and an answer shows all of them unless they are more than its cap       *)
(* (contiguous_ranges, ascii_strings and utf16_strings of                  *)
(* artifact_summary).                                                      *)
(***************************************************************************)
THEOREM StringsAreTheTexts == ToolSpec => []StringsAreMaximal
<1>1. DecodersInv => StringsAreMaximal
  BY StringsAreRight DEF DecodersInv, EmulateInv, MachineInv
<1> QED
  BY <1>1, DecodersInvariant, PTL

-----------------------------------------------------------------------------
(* What is left of a walk: the measures behind WalksEnd                    *)

(* How much is left of the round of the loop that adds one node. *)
RoundLeft(label) ==
  CASE label = "ask" -> 4
    [] label = "each" -> 3
    [] label = "pop" -> 2
    [] label = "name" -> 1
    [] label \in {"done", "failed"} -> 0

(***************************************************************************)
(* What is behind TraceTerminates: however the call graph winds, a step of *)
(* a trace adds a node, of which there are at most NodeCap, or brings the  *)
(* round nearer its end, or takes one xref off the list of its node.       *)
(***************************************************************************)
TraceGetsOn ==
  btPc # "idle" =>
    \/ Len(nodes') = Len(nodes) + 1 /\ Len(nodes') <= NodeCap
    \/ nodes' = nodes /\ RoundLeft(btPc') < RoundLeft(btPc)
    \/ nodes' = nodes /\ btPc' = "each" /\ btPc = "each" /\ Len(rest') < Len(rest)

(***************************************************************************)
(* What is behind EmulationEnds: every step of an emulation is counted, up *)
(* to MaxSteps, and one that is not counted stops it.                      *)
(***************************************************************************)
EmulationGetsOn ==
  aePc # "idle" =>
    /\ aePc = "run"
    /\ \/ steps' = steps + 1 /\ steps' <= MaxSteps
       \/ steps' = steps /\ aePc' = "stopped"

(* Each step of a trace, by the invariant with PopFrontTakes.              *)
LEMMA TraceStepGetsOn ==
  ASSUME IInv, IInv', TraceNext
  PROVE  TraceGetsOn
<1> SUFFICES ASSUME btPc # "idle" PROVE TraceGetsOn
  BY DEF TraceGetsOn
<1>0. TraceTypeOK /\ TraceRoom /\ InLevels /\ TraceRoom' /\ TraceTypeOK'
  BY DEF IInv
<1>1. CASE TraceEnds \/ CallFails \/ AskXrefs \/ EachEnds
  <2>1. nodes' = nodes /\ RoundLeft(btPc') < RoundLeft(btPc)
    BY <1>1 DEF TraceEnds, CallFails, AskXrefs, EachEnds, RoundLeft
  <2> QED
    BY <2>1 DEF TraceGetsOn
<1>2. CASE PopFront
  <2>1. btPc = "pop" /\ btPc' = "name" /\ nodes' = nodes
    BY <1>0, <1>2, PopFrontTakes
  <2> QED
    BY <2>1 DEF TraceGetsOn, RoundLeft
<1>3. CASE PushNode
  <2>1. nodes' = Append(nodes, current) /\ nodes \in Seq(Addresses \X Nat)
        /\ current[1] \in Addresses /\ current \in (Addresses \cup {NoAddress}) \X Nat
    BY <1>0, <1>3 DEF PushNode, TraceTypeOK, IInv, Place, AtEntry
  <2>2. current \in Addresses \X Nat
    BY <2>1
  <2>3. Len(nodes') = Len(nodes) + 1 /\ Len(nodes) \in Nat
    BY <2>1, <2>2, AppendProperties, LenProperties
  <2>4. Len(nodes') + Len(queue') + Pending' <= NodeCap
    BY <1>0 DEF TraceRoom
  <2>5. Len(queue') \in Nat /\ Pending' \in Nat /\ NodeCap \in Int
    BY <1>0, LenProperties, TraceBfsAssumption DEF TraceTypeOK, Pending
  <2> HIDE DEF Pending
  <2>6. Len(nodes') <= NodeCap
    BY <2>3, <2>4, <2>5
  <2> QED
    BY <2>3, <2>6 DEF TraceGetsOn
<1>4. CASE SkipXref \/ PushEdge
  <2>1. /\ btPc = "each" /\ btPc' = btPc /\ nodes' = nodes /\ rest # <<>>
        /\ rest' = Tail(rest) /\ rest \in Seq(Xrefs)
    BY <1>0, <1>4 DEF SkipXref, PushEdge, TraceTypeOK
  <2>2. Len(rest') < Len(rest)
    BY <2>1, HeadTailProperties, EmptySeq, LenProperties
  <2> QED
    BY <2>1, <2>2 DEF TraceGetsOn
<1> QED
  BY <1>1, <1>2, <1>3, <1>4 DEF TraceNext, TraceStart

(* Each step of an emulation.                                             *)
LEMMA EmulationStepGetsOn ==
  ASSUME EmulateInv, EmulateNext
  PROVE  EmulationGetsOn
<1>1. steps \in Nat /\ MaxSteps \in Nat
  BY EmulatorAssumption DEF EmulateInv, MachineInv
<1>2. CASE EmulateStart
  BY <1>2 DEF EmulateStart, EmulationGetsOn
<1>3. CASE EmulateStep
  <2>1. aePc = "run" /\ steps < MaxSteps /\ steps' = steps + 1
    BY <1>3 DEF EmulateStep
  <2> QED
    BY <1>1, <2>1 DEF EmulationGetsOn
<1>4. CASE EmulateEnds
  BY <1>4 DEF EmulateEnds, EmulationGetsOn
<1> QED
  BY <1>2, <1>3, <1>4 DEF EmulateNext

(***************************************************************************)
(* The loops that run on what they find never take a step that brings them *)
(* no nearer to a cap of theirs, in any call graph and any code.           *)
(***************************************************************************)
THEOREM WalksGetOn ==
  ToolSpec => [][TraceGetsOn]_btVars /\ [][EmulationGetsOn]_aeVars
<1>1. DecodersInv /\ DecodersInv' /\ [ToolNext]_toolVars =>
        [TraceGetsOn]_btVars /\ [EmulationGetsOn]_aeVars
  BY ToolsAreApart, TraceStepGetsOn, EmulationStepGetsOn DEF DecodersInv
<1> QED
  BY <1>1, DecodersInvariant, PTL DEF ToolSpec

=============================================================================
