------------------------------ MODULE QueryTools ------------------------------
(***************************************************************************)
(* The tools that list, filter and put together what radare2 tells, as one *)
(* request to the server meets them (crates/rbm-server/src/server.rs).     *)
(* Like the decoders of DecoderTools they share nothing with each other    *)
(* but the session, so one request at a time shows everything they do.     *)
(***************************************************************************)
EXTENDS GlobMatch, FindXrefs, Pages, FunctionGraph, FunctionAnalysis, AddressMap

VARIABLE query  \* what the request asks for, "none" yet, or "refused"

queryVars == <<query, gmVars, fdVars, pgVars, fgVars, faVars, amVars>>

(* A filter is matched by every tool that takes one, a name at a time. *)
QueriesOnly ==
  {"filter", "r2_find_xrefs", "r2_metadata", "r2_function_view_cfg",
   "r2_function_view_analyze", "r2_extract_bytes"}

(* A request without a session, or with an argument that is refused, asks  *)
(* radare2 nothing.                                                        *)
CallQuery ==
  /\ query = "none"
  /\ query' \in QueriesOnly \cup {"refused"}
  /\ UNCHANGED <<gmVars, fdVars, pgVars, fgVars, faVars, amVars>>

PartOf(name) ==
  \/ name = "filter" /\ GlobNext
  \/ name = "r2_find_xrefs" /\ FindNext
  \/ name = "r2_metadata" /\ PagesNext
  \/ name = "r2_function_view_cfg" /\ GraphNext
  \/ name = "r2_function_view_analyze" /\ AnalysisNext
  \/ name = "r2_extract_bytes" /\ MapNext

Rests(name, vars) == IF query = name THEN TRUE ELSE UNCHANGED vars

RunQuery ==
  /\ PartOf(query)
  /\ Rests("filter", gmVars)
  /\ Rests("r2_find_xrefs", fdVars)
  /\ Rests("r2_metadata", pgVars)
  /\ Rests("r2_function_view_cfg", fgVars)
  /\ Rests("r2_function_view_analyze", faVars)
  /\ Rests("r2_extract_bytes", amVars)
  /\ UNCHANGED query

QueryInit ==
  /\ query = "none"
  /\ GlobInit /\ FindInit /\ PagesInit /\ GraphInit /\ AnalysisInit /\ MapInit

QueryNext == CallQuery \/ RunQuery

(***************************************************************************)
(* The matching loop runs on, and a client who was told that there is more *)
(* asks for it: without the second PagesEnd could not hold of any server.  *)
(***************************************************************************)
QueryFairness ==
  /\ WF_queryVars(query = "filter" /\ GlobStep /\ RunQuery)
  /\ WF_queryVars(query = "r2_metadata" /\ AskPage /\ RunQuery)

QuerySpec == QueryInit /\ [][QueryNext]_queryVars /\ QueryFairness

-----------------------------------------------------------------------------
(***************************************************************************)
(* Every query keeps to the types of its state, its limits included.       *)
(***************************************************************************)
QueriesTypeOK ==
  /\ GlobTypeOK /\ FindTypeOK /\ PagesTypeOK
  /\ GraphTypeOK /\ AnalysisTypeOK /\ MapTypeOK

(***************************************************************************)
(* One remembered star decides as the meaning of a glob does, at every     *)
(* step of the loop and in its verdict, for names without a *              *)
(* (glob_match).                                                           *)
(***************************************************************************)
GlobDecides == BacktrackIsEnough /\ StarFreeNamesAreRight

(***************************************************************************)
(* What a list says of itself is so: hits are the first matches, a list of *)
(* xrefs that is said to be exact is the whole of what radare2 answered,   *)
(* if it did, callees and strings name each target once, and callees are   *)
(* left out of a list only above its limit and never of the count.         *)
(***************************************************************************)
ListsAreWhole == HitsAreFirstMatches /\ ExactMeansWhole /\ TargetsNamedOnce

(***************************************************************************)
(* A failing call costs no more than its own part, and what is missing     *)
(* from an answer is missing for a failure: r2_find_xrefs fails with its   *)
(* search only, an analysis with a required call only, and what is given   *)
(* as code is pdg's if that is code, else pdd's if that passes for it.     *)
(***************************************************************************)
FailuresAreTold ==
  OnlyTheSearchFails /\ RequiredOrNothing /\ AbsentMeansFailed /\ CodeIsMeaningful

(***************************************************************************)
(* Following truncated from page to page shows every row once, and each    *)
(* page tells truly whether there is more, of an inventory that changes    *)
(* too.                                                                    *)
(***************************************************************************)
PagesAddUp == PagesCoverRows /\ TruncatedTellsMore

(***************************************************************************)
(* The edges, the two lists of neighbours and the counts of blocks, edges  *)
(* and complexity all tell of one graph.                                   *)
(***************************************************************************)
GraphAgrees == PredecessorsMirror /\ EdgesReachTheirTarget /\ ComplexityAgrees

(***************************************************************************)
(* The matching loop ends, and a client who asks on is told at last that   *)
(* there is no more.                                                       *)
(***************************************************************************)
QueriesEnd == GlobEnds /\ PagesEnd

=============================================================================
