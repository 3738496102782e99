---------------------------- MODULE FunctionGraph ----------------------------
(***************************************************************************)
(* The control flow graph of a function, as r2_function_view shapes it     *)
(* from the blocks radare2 answers (crates/rbm-r2/src/disasm.rs), and the  *)
(* counts analyze_function takes from the same blocks (analyze.rs).        *)
(*                                                                         *)
(* A block is [addr, jump, fail], the targets possibly NoTarget, and they  *)
(* may lie outside the function.  Two blocks may have one address: then    *)
(* the later one is what the address stands for.                           *)
(***************************************************************************)
EXTENDS SequencesExt, FiniteSetsExt, Selection

CONSTANTS
  BlockLists,  \* answers to agfj: sequences of blocks
  NoTarget

Targets == Nat \cup {NoTarget}

ASSUME FunctionGraphAssumption ==
  /\ NoTarget \notin Nat
  /\ BlockLists \subseteq Seq([addr : Nat, jump : Targets, fail : Targets])

VARIABLES
  fgPc,        \* "idle", "project", "shown"
  blocks,      \* what radare2 answered
  successors,  \* of the blocks projected so far, their successors
  edges,       \* [from, to, target, kind], in the order they are found
  predecessors

fgVars == <<fgPc, blocks, successors, edges, predecessors>>

-----------------------------------------------------------------------------

AddressesIndexed == {blocks[i].addr : i \in DOMAIN blocks}

IndexOfAddr(a) == Max({i \in DOMAIN blocks : blocks[i].addr = a})

(* An edge for a target that is a block of the function. *)
EdgeTo(i, kind, target) ==
  IF target \in AddressesIndexed
  THEN <<[from |-> i, to |-> IndexOfAddr(target), target |-> target, kind |-> kind]>>
  ELSE <<>>

(* Mutant of EdgesOf: a conditional jump is an edge to one side only. *)
JumpElseFail(i) ==
  IF blocks[i].jump \in AddressesIndexed
  THEN EdgeTo(i, "jump", blocks[i].jump)
  ELSE EdgeTo(i, "fail", blocks[i].fail)

(* cfg_successors *)
EdgesOf(i) == EdgeTo(i, "jump", blocks[i].jump) \o EdgeTo(i, "fail", blocks[i].fail)

(* The numbers edges - nodes + 2 and those of summarize_basic_blocks: here *)
(* a target outside the function counts as an edge.                        *)
EdgeCount ==
  Cardinality({i \in DOMAIN blocks : blocks[i].jump # NoTarget})
    + Cardinality({i \in DOMAIN blocks : blocks[i].fail # NoTarget})

CyclomaticComplexity ==
  IF blocks = <<>> THEN 0 ELSE EdgeCount - Len(blocks) + 2

BranchBlocks == {i \in DOMAIN blocks : blocks[i].jump # NoTarget /\ blocks[i].fail # NoTarget}

ExitBlocks == {i \in DOMAIN blocks : blocks[i].jump = NoTarget /\ blocks[i].fail = NoTarget}

-----------------------------------------------------------------------------

GraphStart ==
  /\ fgPc = "idle"
  /\ blocks' \in BlockLists
  /\ fgPc' = "project"
  /\ UNCHANGED <<successors, edges, predecessors>>

(* project_cfg_block *)
ProjectBlock ==
  /\ fgPc = "project" /\ Len(successors) < Len(blocks)
  /\ LET es == EdgesOf(Len(successors) + 1)
     IN  /\ edges' = edges \o es
         /\ successors' = Append(successors, Sorted({es[k].to : k \in DOMAIN es}))
  /\ UNCHANGED <<fgPc, blocks, predecessors>>

AttachPredecessors ==
  /\ fgPc = "project" /\ Len(successors) = Len(blocks)
  /\ predecessors' = [i \in DOMAIN blocks |->
       Sorted({edges[k].from : k \in {j \in DOMAIN edges : edges[j].to = i}})]
  /\ fgPc' = "shown"
  /\ UNCHANGED <<blocks, successors, edges>>

GraphInit ==
  /\ fgPc = "idle"
  /\ blocks = <<>> /\ successors = <<>> /\ edges = <<>> /\ predecessors = <<>>

GraphNext == GraphStart \/ ProjectBlock \/ AttachPredecessors

GraphSpec == GraphInit /\ [][GraphNext]_fgVars

-----------------------------------------------------------------------------

GraphTypeOK ==
  /\ fgPc \in {"idle", "project", "shown"}
  /\ \A s \in {successors, predecessors} : \A i \in DOMAIN s :
       s[i] \in Seq(DOMAIN blocks)

(***************************************************************************)
(* The two lists of neighbours tell one graph: a block is a successor of   *)
(* another exactly when that one is its predecessor, each is named once    *)
(* and in ascending order, also when jump and fail lead to one block or    *)
(* two blocks have one address.                                            *)
(***************************************************************************)
PredecessorsMirror ==
  fgPc = "shown" =>
    /\ \A i, j \in DOMAIN blocks :
         (\E k \in DOMAIN successors[i] : successors[i][k] = j)
           <=> (\E k \in DOMAIN predecessors[j] : predecessors[j][k] = i)
    /\ \A s \in {successors, predecessors} : \A i \in DOMAIN blocks : Ascending(s[i])

(***************************************************************************)
(* No way inside the function is lost: of the blocks at the target of a    *)
(* jump or fail, one is reached by an edge of that kind, and it has the    *)
(* address the edge names.                                                 *)
(***************************************************************************)
EdgesReachTheirTarget ==
  /\ \A k \in DOMAIN edges : blocks[edges[k].to].addr = edges[k].target
  /\ \A i \in DOMAIN successors, kind \in {"jump", "fail"} :
       LET target == IF kind = "jump" THEN blocks[i].jump ELSE blocks[i].fail
       IN  (\E j \in DOMAIN blocks : blocks[j].addr = target) <=>
             \E k \in DOMAIN edges : edges[k].from = i /\ edges[k].kind = kind

(***************************************************************************)
(* The numbers two files compute from the same blocks agree: complexity    *)
(* is one for each branching block less one for each exit, plus 2; and the *)
(* graph has the edges of the summary but for those that leave the         *)
(* function.                                                               *)
(***************************************************************************)
ComplexityAgrees ==
  fgPc = "shown" =>
    LET outside(t) == t # NoTarget /\ \A j \in DOMAIN blocks : blocks[j].addr # t
    IN  /\ blocks # <<>> => CyclomaticComplexity
                     = Cardinality(BranchBlocks) - Cardinality(ExitBlocks) + 2
        /\ EdgeCount - Len(edges)
             = Cardinality({i \in DOMAIN blocks : outside(blocks[i].jump)})
                 + Cardinality({i \in DOMAIN blocks : outside(blocks[i].fail)})

=============================================================================
