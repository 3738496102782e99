------------------------------ MODULE TraceBfs ------------------------------
(***************************************************************************)
(* trace_data_flow (crates/rbm-r2/src/trace.rs): a breadth-first walk over *)
(* cross-references, asked of radare2 one address at a time.  What radare2 *)
(* knows is chosen when it is asked; a call that fails or times out ends   *)
(* the trace.  An address is the text that names it.                       *)
(***************************************************************************)
EXTENDS Integers, SequencesExt

CONSTANTS
  Addresses,      \* the addresses radare2 may name
  Directions,     \* directions to trace in, of "forward" and "backward"
  RequestedDepths,\* values of max_depth a caller may pass
  NodeCap,        \* MAX_NODES
  EdgeCap,        \* MAX_EDGES
  DepthCap,       \* MAX_DEPTH
  XrefLists,      \* the answers to axfj and axtj: sequences of cross-references
  NoAddress       \* an address field that is neither a number nor a text

ASSUME TraceBfsAssumption ==
  /\ NodeCap \in Nat \ {0} /\ EdgeCap \in Nat /\ DepthCap \in Nat \ {0}
  /\ RequestedDepths \subseteq Int
  /\ Directions \subseteq {"forward", "backward"}
  /\ NoAddress \notin Addresses

Xrefs == UNION {ToSet(list) : list \in XrefLists}

VARIABLES
  btPc,      \* "idle", "pop", "name", "ask", "each", "done" or "failed"
  direction, \* of the trace
  maxDepth,  \* the depth, clamped
  visited,   \* addresses that were ever queued
  queue,     \* <<address, depth>>, in the order they were found
  current,   \* the pair the loop is at
  rest,      \* the cross-references of current still to look at
  nodes,     \* the result's nodes: <<address, depth>>
  edges,     \* the result's edges: <<from, to>>
  reached,   \* depth_reached
  answers    \* history: answers[a], what radare2 answered for a

btVars == <<btPc, direction, maxDepth, visited, queue, current, rest,
            nodes, edges, reached, answers>>

ClampDepth(d) == IF d < 1 THEN 1 ELSE IF d > DepthCap THEN DepthCap ELSE d

(***************************************************************************)
(* The address a cross-reference leads to: the first of its fields in this *)
(* order, whatever that field holds.                                       *)
(***************************************************************************)
ExtractTarget(xref, dir) ==
  LET primary == IF dir = "forward" THEN "to" ELSE "from"
      present == SelectSeq(<<primary, "addr", "ref">>,
                           LAMBDA f : f \in DOMAIN xref)
  IN  IF present = <<>> THEN NoAddress ELSE xref[Head(present)]

ASSUME XrefAssumption ==
  /\ XrefLists \subseteq Seq(Xrefs)
  /\ \A x \in Xrefs, dir \in {"forward", "backward"} :
       ExtractTarget(x, dir) \in Addresses \cup {NoAddress}

BuildEdge(here, target, dir) ==
  IF dir = "forward" THEN <<here, target>> ELSE <<target, here>>

-----------------------------------------------------------------------------

TraceStart ==
  /\ btPc = "idle"
  /\ btPc' = "pop"
  /\ \E a \in Addresses, d \in RequestedDepths, dir \in Directions :
       /\ direction' = dir
       /\ maxDepth' = ClampDepth(d)
       /\ visited' = {a}
       /\ queue' = << <<a, 0>> >>
  /\ UNCHANGED <<current, rest, nodes, edges, reached, answers>>

TraceEnds ==
  /\ btPc = "pop"
  /\ queue = <<>>
  /\ btPc' = "done"
  /\ UNCHANGED <<direction, maxDepth, visited, queue, current, rest, nodes,
                 edges, reached, answers>>

(***************************************************************************)
(* The loop also gives up an entry when it has MAX_NODES nodes already, or *)
(* when the entry is too deep; TraceRoom and TraceLevels show that neither *)
(* happens, as an entry is queued only where there is room for its node.   *)
(***************************************************************************)
PopFront ==
  /\ btPc = "pop"
  /\ queue # <<>>
  /\ queue' = Tail(queue)
  /\ current' = Head(queue)
  /\ LET depth == Head(queue)[2]
     IN  \/ /\ Len(nodes) >= NodeCap
            /\ btPc' = "done"
            /\ UNCHANGED reached
         \/ /\ Len(nodes) < NodeCap
            /\ depth > maxDepth
            /\ UNCHANGED <<btPc, reached>>
         \/ /\ Len(nodes) < NodeCap
            /\ depth <= maxDepth
            /\ reached' = IF depth > reached THEN depth ELSE reached
            /\ btPc' = "name"
  /\ UNCHANGED <<direction, maxDepth, visited, rest, nodes, edges, answers>>

(* afij answers: the node is complete. *)
PushNode ==
  /\ btPc = "name"
  /\ nodes' = Append(nodes, current)
  /\ btPc' = IF current[2] >= maxDepth THEN "pop" ELSE "ask"
  /\ UNCHANGED <<direction, maxDepth, visited, queue, current, rest, edges,
                 reached, answers>>

(* axfj or axtj answers; an answer that is no list counts as an empty one. *)
AskXrefs ==
  /\ btPc = "ask"
  /\ \E list \in XrefLists :
       /\ rest' = list
       /\ answers' = [answers EXCEPT ![current[1]] = list]
  /\ btPc' = "each"
  /\ UNCHANGED <<direction, maxDepth, visited, queue, current, nodes, edges,
                 reached>>

CallFails ==
  /\ btPc \in {"name", "ask"}
  /\ btPc' = "failed"
  /\ UNCHANGED <<direction, maxDepth, visited, queue, current, rest, nodes,
                 edges, reached, answers>>

EachEnds ==
  /\ btPc = "each"
  /\ rest = <<>> \/ Len(edges) >= EdgeCap
  /\ btPc' = "pop"
  /\ rest' = <<>>
  /\ UNCHANGED <<direction, maxDepth, visited, queue, current, nodes, edges,
                 reached, answers>>

(* Mutant of SkipXref: the loop goes on without dropping the xref. *)
LookAgain == btPc = "each" /\ rest # <<>> /\ UNCHANGED btVars

SkipXref ==
  /\ btPc = "each"
  /\ rest # <<>> /\ Len(edges) < EdgeCap
  /\ ExtractTarget(Head(rest), direction) = NoAddress
  /\ rest' = Tail(rest)
  /\ UNCHANGED <<btPc, direction, maxDepth, visited, queue, current, nodes,
                 edges, reached, answers>>

(* Mutant of HasRoom: the addresses in the queue are not counted. *)
NodesHaveRoom == Len(nodes) < NodeCap

HasRoom == Len(nodes) + Len(queue) < NodeCap

Follow(target) ==
  /\ visited' = visited \cup {target}
  /\ queue' = Append(queue, <<target, current[2] + 1>>)

PushEdge ==
  /\ btPc = "each"
  /\ rest # <<>> /\ Len(edges) < EdgeCap
  /\ LET target == ExtractTarget(Head(rest), direction)
     IN  /\ target # NoAddress
         /\ edges' = Append(edges, BuildEdge(current[1], target, direction))
         /\ IF target \notin visited /\ HasRoom
            THEN Follow(target)
            ELSE UNCHANGED <<visited, queue>>
  /\ rest' = Tail(rest)
  /\ UNCHANGED <<btPc, direction, maxDepth, current, nodes, reached, answers>>

-----------------------------------------------------------------------------

TraceInit ==
  /\ btPc = "idle"
  /\ direction = "backward"
  /\ maxDepth = 0
  /\ visited = {}
  /\ queue = <<>>
  /\ current = <<NoAddress, 0>>
  /\ rest = <<>>
  /\ nodes = <<>>
  /\ edges = <<>>
  /\ reached = 0
  /\ answers = [a \in Addresses |-> <<>>]

TraceNext ==
  \/ TraceStart \/ TraceEnds \/ PopFront \/ PushNode \/ AskXrefs
  \/ CallFails \/ EachEnds \/ SkipXref \/ PushEdge

(***************************************************************************)
(* The loop goes on unless it waits for radare2, and every call to radare2 *)
(* ends, by its timeout at the latest.                                     *)
(***************************************************************************)
TraceFairness == WF_btVars(TraceNext)

TraceSpec == TraceInit /\ [][TraceNext]_btVars /\ TraceFairness

-----------------------------------------------------------------------------

TraceTypeOK ==
  /\ btPc \in {"idle", "pop", "name", "ask", "each", "done", "failed"}
  /\ direction \in {"forward", "backward"}
  /\ maxDepth \in 0 .. DepthCap
  /\ visited \subseteq Addresses
  /\ queue \in Seq(Addresses \X Nat)
  /\ current \in (Addresses \cup {NoAddress}) \X Nat
  /\ rest \in Seq(Xrefs)
  /\ nodes \in Seq(Addresses \X Nat)
  /\ edges \in Seq(Addresses \X Addresses)
  /\ reached \in Nat
  /\ answers \in [Addresses -> Seq(Xrefs)]

Pending == IF btPc = "name" THEN 1 ELSE 0

(***************************************************************************)
(* A trace holds no more than its caps however many cross-references there *)
(* are, and counts the entries it queued as nodes to come: so whatever was *)
(* queued becomes a node, and the check for MAX_NODES at the head of the   *)
(* loop never drops an entry.                                              *)
(***************************************************************************)
TraceRoom ==
  /\ Len(nodes) + Len(queue) + Pending <= NodeCap
  /\ Len(edges) <= EdgeCap
  /\ btPc = "done" => queue = <<>>

Distance(a, d) == \E i \in DOMAIN nodes : nodes[i] = <<a, d>>
LinkedIn(es, dir, a, b) ==
  \E i \in DOMAIN es : es[i] = BuildEdge(a, b, dir)
Linked(a, b) == LinkedIn(edges, direction, a, b)

(***************************************************************************)
(* The depth of a node is its distance from the start: along the edges no  *)
(* node lies more than one level below another, every node but the start   *)
(* hangs on a node one level up, none is listed twice, and the depth       *)
(* reported is the deepest of them.                                        *)
(***************************************************************************)
TraceLevels ==
  /\ \A i, j \in DOMAIN nodes :
       /\ Linked(nodes[i][1], nodes[j][1]) => nodes[j][2] <= nodes[i][2] + 1
       /\ nodes[i][1] = nodes[j][1] => i = j
  /\ \A j \in DOMAIN nodes :
       \/ nodes[j][2] = 0 /\ j = 1
       \/ \E i \in 1 .. j - 1 : /\ nodes[i][2] + 1 = nodes[j][2]
                                /\ Linked(nodes[i][1], nodes[j][1])
  /\ \A j \in DOMAIN nodes : nodes[j][2] <= reached
  /\ btPc \notin {"name", "failed"} =>
       nodes = <<>> \/ \E j \in DOMAIN nodes : nodes[j][2] = reached

(***************************************************************************)
(* The result carries no mark that it was cut off: whoever reads fewer     *)
(* nodes and edges than the caps takes it for the whole neighbourhood.     *)
(* Then every cross-reference of every node above the last level must be   *)
(* an edge, and what it leads to a node.                                   *)
(***************************************************************************)
TraceComplete ==
  btPc = "done" /\ Len(nodes) < NodeCap /\ Len(edges) < EdgeCap =>
    \A i \in DOMAIN nodes :
      nodes[i][2] < maxDepth =>
        \A x \in ToSet(answers[nodes[i][1]]) :
          LET target == ExtractTarget(x, direction)
          IN  target # NoAddress =>
                /\ Linked(nodes[i][1], target)
                /\ \E d \in 0 .. nodes[i][2] + 1 : Distance(target, d)

(***************************************************************************)
(* A call trace is the neighbourhood of its start in the call graph:       *)
(* whatever was queued becomes a node, depths are distances, and a trace   *)
(* below its caps lacks no edge and no node (trace_data_flow).             *)
(***************************************************************************)
TraceFollowsGraph == TraceRoom /\ TraceLevels /\ TraceComplete

(***************************************************************************)
(* A trace ends, cycles and self-references notwithstanding.               *)
(***************************************************************************)
TraceTerminates == (btPc = "pop") ~> (btPc \in {"done", "failed"})
=============================================================================
