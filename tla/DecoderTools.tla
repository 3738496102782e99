----------------------------- MODULE DecoderTools -----------------------------
(***************************************************************************)
(* The tools that interpret what radare2 decoded, as one request to the    *)
(* server meets them (RbmServer::call_tool and its parts,                  *)
(* crates/rbm-server/src/server.rs).  A handler's state is its own, and    *)
(* two requests share only the session, whose settings AsmOverride is      *)
(* about: so one request at a time shows everything a decoder does.        *)
(***************************************************************************)
EXTENDS TraceBfs, SeedTrace, ArtifactEmulator, PathDigest, FieldXrefs,
        JumpTable, DriverDispatch

VARIABLE tool  \* the tool that was called, "none" yet, or "refused"

toolVars ==
  <<tool, btVars, stVars, aeVars, pdVars, fxVars, jtVars, ddVars>>

DecodersOnly ==
  {"r2_trace_data_flow", "r2_value_trace", "r2_artifact_summary", "r2_path_digest",
   "r2_field_xrefs", "r2_jump_table_slices", "r2_windows_driver_dispatch"}

(* A request without a session, or with an argument that is refused before *)
(* the tool is run.                                                        *)
CallTool ==
  /\ tool = "none"
  /\ tool' \in DecodersOnly \cup {"refused"}
  /\ UNCHANGED <<btVars, stVars, aeVars, pdVars, fxVars, jtVars, ddVars>>

StepsOf(name) ==
  \/ name = "r2_trace_data_flow" /\ TraceNext
  \/ name = "r2_value_trace" /\ SeedNext
  \/ name = "r2_artifact_summary" /\ EmulateNext
  \/ name = "r2_path_digest" /\ DigestNext
  \/ name = "r2_field_xrefs" /\ FieldsNext
  \/ name = "r2_jump_table_slices" /\ TableNext
  \/ name = "r2_windows_driver_dispatch" /\ DispatchNext

Idle(name, vars) == IF tool = name THEN TRUE ELSE UNCHANGED vars

RunTool ==
  /\ StepsOf(tool)
  /\ Idle("r2_trace_data_flow", btVars)
  /\ Idle("r2_value_trace", stVars)
  /\ Idle("r2_artifact_summary", aeVars)
  /\ Idle("r2_path_digest", pdVars)
  /\ Idle("r2_field_xrefs", fxVars)
  /\ Idle("r2_jump_table_slices", jtVars)
  /\ Idle("r2_windows_driver_dispatch", ddVars)
  /\ UNCHANGED tool

ToolInit ==
  /\ tool = "none"
  /\ TraceInit /\ SeedInit /\ EmulateInit /\ DigestInit
  /\ FieldsInit /\ TableInit /\ DispatchInit

ToolNext == CallTool \/ RunTool

(* The runtime polls the handler's task, and each call it waits for is     *)
(* answered, fails or times out.                                           *)
ToolSpec == ToolInit /\ [][ToolNext]_toolVars /\ WF_toolVars(RunTool)

-----------------------------------------------------------------------------
(***************************************************************************)
(* Every tool keeps to the types of its state, its caps included.          *)
(***************************************************************************)
DecodersTypeOK ==
  /\ TraceTypeOK /\ SeedTypeOK /\ EmulateTypeOK /\ DigestTypeOK
  /\ FieldsTypeOK /\ TableTypeOK /\ DispatchTypeOK

(***************************************************************************)
(* Where a cap cuts rows, those kept are the first there were, and what is *)
(* told of the rest is right: the flag, the last event and the first       *)
(* transfer of a value trace, the flag and the rows by kind of a digest,   *)
(* the counts of a field's summary.                                        *)
(***************************************************************************)
CutsAreTold == LogIsPrefix /\ EventsAreWhole /\ SummariesCountAll

(***************************************************************************)
(* An interpretation ends early only for a reason its answer gives: an     *)
(* emulation that stopped inside its window has a row or a flag for it,    *)
(* and a digest covers the instructions up to the stop it was asked for or *)
(* the address its range ends at, no fewer and no more.  A range_end that  *)
(* is no address is dropped, and ends nothing.                             *)
(***************************************************************************)
EndsAreTold == EarlyEndIsReported /\ StopsWhereAsked

(***************************************************************************)
(* Bytes read back are those written last, at every width and on both      *)
(* sides of zero: through the emulator's stack, and in the buffers a       *)
(* digest shows.                                                           *)
(***************************************************************************)
MemoryHoldsLastWrites == PushPopRoundTrip /\ BuffersHoldLastWrites

(***************************************************************************)
(* The setup shown with a call is what was executed (emulation) or read    *)
(* (digest) just before it, in order, after the window has slid.           *)
(***************************************************************************)
SetupsAreNearest == CallsShowTheirSetup /\ CallsShowNearestSetup

(***************************************************************************)
(* A jump table's rows are its bytes, its slices one for each target, and  *)
(* no slice runs past the bytes it was asked for (jump_table_slices).      *)
(***************************************************************************)
JumpTableIsRead == EntriesAreTheTable /\ TargetsOnce /\ SlicesStayInRange

(***************************************************************************)
(* Each store into the DRIVER_OBJECT the scan saw is reported in order,    *)
(* with the address the last lea left in its register, and each handler    *)
(* found is suggested once (windows_driver_dispatch).                      *)
(***************************************************************************)
DriverStoresReported == LeaIsReported /\ StoresInOrder /\ SuggestedOnce

(***************************************************************************)
(* Nothing is reported of a value that has no source: a seed trace that    *)
(* tracks nothing starts nothing, and a resolver's result is named only    *)
(* after the constant pushed for that very call.                           *)
(***************************************************************************)
NamesHaveASource == [][NothingFromNothing /\ ResolvedFromItsPush]_toolVars

(***************************************************************************)
(* The two loops that run on what they find end: a trace of a call graph   *)
(* with cycles, and the emulation of code that loops.                      *)
(***************************************************************************)
WalksEnd == TraceTerminates /\ EmulationEnds

=============================================================================
