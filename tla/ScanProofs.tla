---------------------------- MODULE ScanProofs ----------------------------
(***************************************************************************)
(* Proofs about the tools that follow what they meet, for any program, any *)
(* caps and any answers of radare2: TraceBfs along calls, SeedTrace along  *)
(* copies, FieldXrefs and DriverDispatch along the registers of a scan.    *)
(***************************************************************************)
EXTENDS TraceBfs, SeedTrace, FieldXrefs, DriverDispatch, SelectionProofs

-----------------------------------------------------------------------------
(***************************************************************************)
(* TraceBfs: the neighbourhood of a function in the call graph.            *)
(***************************************************************************)

(* The loop works on the entry it has taken from the queue. *)
AtEntry == btPc \in {"name", "ask", "each"}

(* The entry is a node already: the last one, and not on the last level. *)
AtNode == btPc \in {"ask", "each"}

Working == btPc \in {"pop", "name", "ask", "each", "done"}

Full == Len(nodes) + Len(queue) + Pending >= NodeCap

(* Where the loop is, and what it has not touched before it began. *)
Place ==
  /\ btPc = "idle" => /\ nodes = <<>> /\ queue = <<>> /\ edges = <<>>
                      /\ visited = {} /\ reached = 0
  /\ AtEntry => current[1] \in Addresses
  /\ AtEntry => current[2] = reached
  /\ AtNode => /\ Len(nodes) > 0
               /\ nodes[Len(nodes)] = current
               /\ current[2] < maxDepth

(* Every visited address is in one place: it is a node, waits in the queue *)
(* or is about to become a node.                                           *)
OnePlace ==
  /\ \A i, j \in 1 .. Len(nodes) : nodes[i][1] = nodes[j][1] => i = j
  /\ \A i, j \in 1 .. Len(queue) : queue[i][1] = queue[j][1] => i = j
  /\ \A i \in 1 .. Len(nodes), j \in 1 .. Len(queue) : nodes[i][1] # queue[j][1]
  /\ btPc = "name" =>
       /\ \A i \in 1 .. Len(nodes) : nodes[i][1] # current[1]
       /\ \A j \in 1 .. Len(queue) : queue[j][1] # current[1]
  /\ \A a \in visited :
       \/ \E i \in 1 .. Len(nodes) : nodes[i][1] = a
       \/ \E j \in 1 .. Len(queue) : queue[j][1] = a
       \/ btPc \in {"name", "failed"} /\ current[1] = a
  /\ \A i \in 1 .. Len(nodes) : nodes[i][1] \in visited
  /\ \A j \in 1 .. Len(queue) : queue[j][1] \in visited
  /\ btPc = "name" => current[1] \in visited

(* Level by level: what waits is on the level reached or the next one, in  *)
(* that order, and no deeper than was asked for.                           *)
InLevels ==
  /\ \A i \in 1 .. Len(nodes) : nodes[i][2] <= reached
  /\ \A j \in 1 .. Len(queue) : /\ reached <= queue[j][2]
                                /\ queue[j][2] <= reached + 1
                                /\ queue[j][2] <= maxDepth
  /\ \A i, j \in 1 .. Len(queue) : i < j => queue[i][2] <= queue[j][2]
  /\ btPc \notin {"name", "failed"} =>
       nodes = <<>> \/ \E j \in 1 .. Len(nodes) : nodes[j][2] = reached

(* An entry hangs on one of the nodes before it, but for the start. *)
HangsIn(ns, es, dir, entry, n) ==
  \E i \in 1 .. n : /\ ns[i][2] + 1 = entry[2]
                    /\ LinkedIn(es, dir, ns[i][1], entry[1])

Hangs(entry, n) == HangsIn(nodes, edges, direction, entry, n)

Hung ==
  /\ \A j \in 1 .. Len(nodes) :
       (nodes[j][2] = 0 /\ j = 1) \/ Hangs(nodes[j], j - 1)
  /\ \A j \in 1 .. Len(queue) :
       \/ btPc = "pop" /\ queue[j][2] = 0 /\ nodes = <<>> /\ j = 1
       \/ Hangs(queue[j], Len(nodes))
  /\ btPc = "name" =>
       (current[2] = 0 /\ nodes = <<>>) \/ Hangs(current, Len(nodes))

(* An edge leads from a node, and no more than one level down; or to an    *)
(* address that found no room, and then none will find any.                *)
EdgesLead ==
  /\ \A a, b \in Addresses :
       Linked(a, b) => \E i \in 1 .. Len(nodes) : nodes[i][1] = a
  /\ \A i, j \in 1 .. Len(nodes) :
       Linked(nodes[i][1], nodes[j][1]) => nodes[j][2] <= nodes[i][2] + 1
  /\ \A i \in 1 .. Len(nodes), j \in 1 .. Len(queue) :
       Linked(nodes[i][1], queue[j][1]) => queue[j][2] <= nodes[i][2] + 1
  /\ btPc = "name" => \A i \in 1 .. Len(nodes) :
       Linked(nodes[i][1], current[1]) => current[2] <= nodes[i][2] + 1
  /\ btPc # "failed" =>
       \A a \in Addresses, b \in Addresses \ visited : Linked(a, b) => Full

(* The xrefs of a node that the loop is through with. *)
Seen(i) ==
  IF btPc = "each" /\ i = Len(nodes)
  THEN ToSet(answers[nodes[i][1]]) \ ToSet(rest)
  ELSE IF btPc = "ask" /\ i = Len(nodes) THEN {}
  ELSE ToSet(answers[nodes[i][1]])

(* As long as there is room for edges, none was left out. *)
NoneLeftOut ==
  Working /\ Len(edges) < EdgeCap =>
    \A i \in 1 .. Len(nodes) : nodes[i][2] < maxDepth =>
      \A x \in Seen(i) :
        LET target == ExtractTarget(x, direction)
        IN  target # NoAddress => Linked(nodes[i][1], target)

IInv ==
  /\ TraceTypeOK /\ TraceRoom
  /\ Place /\ OnePlace /\ InLevels /\ Hung /\ EdgesLead /\ NoneLeftOut

-----------------------------------------------------------------------------

(* ClampDepth answers a depth between one and MAX_DEPTH. *)
LEMMA ClampRange ==
  ASSUME NEW d \in Int
  PROVE  ClampDepth(d) \in 1 .. DepthCap
BY TraceBfsAssumption, SMT DEF ClampDepth

(* What a cross-reference leads to, if anything, is an address. *)
LEMMA TargetIsAddress ==
  ASSUME TraceTypeOK, rest # <<>>,
         ExtractTarget(Head(rest), direction) # NoAddress
  PROVE  ExtractTarget(Head(rest), direction) \in Addresses
<1>1. Head(rest) \in Xrefs
  BY HeadTailProperties DEF TraceTypeOK
<1> QED
  BY <1>1, XrefAssumption DEF TraceTypeOK

(* One more edge links one more pair. *)
LEMMA LinkedByOneMore ==
  ASSUME NEW es \in Seq(Addresses \X Addresses),
         NEW dir \in {"forward", "backward"},
         NEW c \in Addresses, NEW t \in Addresses,
         NEW a \in Addresses, NEW b \in Addresses
  PROVE  LinkedIn(Append(es, BuildEdge(c, t, dir)), dir, a, b)
           <=> LinkedIn(es, dir, a, b) \/ (a = c /\ b = t)
<1> DEFINE more == Append(es, BuildEdge(c, t, dir))
<1>1. BuildEdge(c, t, dir) \in Addresses \X Addresses
  BY DEF BuildEdge
<1>2. /\ more \in Seq(Addresses \X Addresses)
      /\ Len(more) = Len(es) + 1 /\ Len(es) \in Nat
      /\ \A i \in 1 .. Len(es) : more[i] = es[i]
      /\ more[Len(es) + 1] = BuildEdge(c, t, dir)
  BY <1>1, AppendProperties, LenProperties
<1>3. DOMAIN more = 1 .. Len(es) + 1 /\ DOMAIN es = 1 .. Len(es)
  BY <1>2, LenProperties
<1>4. BuildEdge(c, t, dir) = BuildEdge(a, b, dir) <=> a = c /\ b = t
  BY DEF BuildEdge
<1>5. ASSUME LinkedIn(more, dir, a, b)
      PROVE  LinkedIn(es, dir, a, b) \/ (a = c /\ b = t)
  <2>1. PICK i \in 1 .. Len(es) + 1 : more[i] = BuildEdge(a, b, dir)
    BY <1>3, <1>5 DEF LinkedIn
  <2>2. CASE i = Len(es) + 1
    BY <2>1, <2>2, <1>2, <1>4
  <2>3. CASE i \in 1 .. Len(es)
    BY <2>1, <2>3, <1>2, <1>3 DEF LinkedIn
  <2> QED
    BY <2>1, <2>2, <2>3, <1>2
<1>6. ASSUME LinkedIn(es, dir, a, b)
      PROVE  LinkedIn(more, dir, a, b)
  <2>1. PICK i \in 1 .. Len(es) : es[i] = BuildEdge(a, b, dir)
    BY <1>3, <1>6 DEF LinkedIn
  <2>2. i \in 1 .. Len(es) + 1 /\ more[i] = BuildEdge(a, b, dir)
    BY <2>1, <1>2
  <2> QED
    BY <2>2, <1>3 DEF LinkedIn
<1>7. ASSUME a = c, b = t
      PROVE  LinkedIn(more, dir, a, b)
  <2>1. Len(es) + 1 \in DOMAIN more
    BY <1>2, <1>3
  <2> QED
    BY <2>1, <1>2, <1>7 DEF LinkedIn
<1> QED
  BY <1>5, <1>6, <1>7

(* A list that is not empty holds its head and what its tail holds. *)
LEMMA RestIsHeadAndTail ==
  ASSUME NEW S, NEW list \in Seq(S), list # <<>>
  PROVE  ToSet(list) = {Head(list)} \cup ToSet(Tail(list))
<1>1. /\ Len(list) \in Nat /\ Len(list) > 0
      /\ Len(Tail(list)) = Len(list) - 1 /\ Tail(list) \in Seq(S)
      /\ \A i \in 1 .. Len(Tail(list)) : Tail(list)[i] = list[i + 1]
      /\ Head(list) = list[1]
  BY HeadTailProperties, LenProperties, EmptySeq
<1>2. DOMAIN list = 1 .. Len(list) /\ DOMAIN Tail(list) = 1 .. Len(list) - 1
  BY <1>1, LenProperties
<1>3. ASSUME NEW x \in ToSet(list), x # Head(list)
      PROVE  x \in ToSet(Tail(list))
  <2>1. PICK i \in 1 .. Len(list) : list[i] = x
    BY <1>2, <1>3 DEF ToSet
  <2>2. i - 1 \in 1 .. Len(list) - 1
    BY <2>1, <1>1, <1>3
  <2>3. Tail(list)[i - 1] = list[i - 1 + 1] /\ i - 1 + 1 = i
    BY <2>1, <2>2, <1>1
  <2> QED
    BY <2>1, <2>2, <2>3, <1>2 DEF ToSet
<1>4. ASSUME NEW x \in ToSet(Tail(list)) PROVE x \in ToSet(list)
  <2>1. PICK i \in 1 .. Len(list) - 1 : Tail(list)[i] = x
    BY <1>2, <1>4 DEF ToSet
  <2>2. i + 1 \in 1 .. Len(list) /\ list[i + 1] = x
    BY <2>1, <1>1
  <2> QED
    BY <2>2, <1>2 DEF ToSet
<1>5. Head(list) \in ToSet(list)
  BY <1>1, <1>2 DEF ToSet
<1> QED
  BY <1>3, <1>4, <1>5

(* The initial state. *)
LEMMA InitInv == TraceInit => IInv
<1> SUFFICES ASSUME TraceInit PROVE IInv
  OBVIOUS
<1>1. TraceTypeOK
  BY TraceBfsAssumption DEF TraceInit, TraceTypeOK
<1>2. TraceRoom
  BY TraceBfsAssumption DEF TraceInit, TraceRoom, Pending
<1>3. Place
  BY DEF TraceInit, Place, AtEntry, AtNode
<1>4. OnePlace
  BY DEF TraceInit, OnePlace
<1>5. InLevels /\ Hung
  BY DEF TraceInit, InLevels, Hung
<1>6. EdgesLead
  BY DEF TraceInit, EdgesLead, Linked, LinkedIn
<1>7. NoneLeftOut
  BY DEF TraceInit, NoneLeftOut, Working
<1> QED
  BY <1>1, <1>2, <1>3, <1>4, <1>5, <1>6, <1>7 DEF IInv

-----------------------------------------------------------------------------

(* The steps that find nothing: they leave nodes, edges and queue alone. *)
QuietNext == TraceEnds \/ AskXrefs \/ CallFails \/ EachEnds \/ SkipXref

KeepsResult ==
  UNCHANGED <<direction, maxDepth, visited, queue, current, nodes, edges,
              reached>>

(* What all quiet steps have in common. *)
LEMMA QuietKeeps ==
  ASSUME QuietNext
  PROVE  /\ KeepsResult
         /\ btPc # "idle"
         /\ btPc' \notin {"idle", "name"}
         /\ btPc = "name" => btPc' = "failed"
         /\ btPc # "failed"
         /\ btPc = "pop" => queue = <<>>
         /\ AtNode' => AtNode
         /\ btPc' = "done" => queue = <<>>
<1>1. CASE TraceEnds
  BY <1>1 DEF TraceEnds, KeepsResult, AtNode
<1>2. CASE AskXrefs
  BY <1>2 DEF AskXrefs, KeepsResult, AtNode
<1>3. CASE CallFails
  BY <1>3 DEF CallFails, KeepsResult, AtNode
<1>4. CASE EachEnds
  BY <1>4 DEF EachEnds, KeepsResult, AtNode
<1>5. CASE SkipXref
  BY <1>5 DEF SkipXref, KeepsResult, AtNode
<1> QED
  BY <1>1, <1>2, <1>3, <1>4, <1>5 DEF QuietNext

(* A quiet step keeps the types. *)
LEMMA QuietType ==
  ASSUME TraceTypeOK, Place, QuietNext
  PROVE  TraceTypeOK'
<1>1. CASE TraceEnds
  BY <1>1 DEF TraceEnds, TraceTypeOK
<1>2. CASE AskXrefs
  <2>1. PICK list \in XrefLists :
          rest' = list /\ answers' = [answers EXCEPT ![current[1]] = list]
    BY <1>2 DEF AskXrefs
  <2>2. list \in Seq(Xrefs)
    BY XrefAssumption
  <2> QED
    BY <1>2, <2>1, <2>2 DEF AskXrefs, TraceTypeOK
<1>3. CASE CallFails
  BY <1>3 DEF CallFails, TraceTypeOK
<1>4. CASE EachEnds
  BY <1>4 DEF EachEnds, TraceTypeOK
<1>5. CASE SkipXref
  <2>1. rest' \in Seq(Xrefs)
    BY <1>5, HeadTailProperties DEF SkipXref, TraceTypeOK
  <2> QED
    BY <1>5, <2>1 DEF SkipXref, TraceTypeOK
<1> QED
  BY <1>1, <1>2, <1>3, <1>4, <1>5 DEF QuietNext

(* A quiet step keeps what the invariant says of nodes, queue and edges. *)
LEMMA QuietResult ==
  ASSUME TraceTypeOK, TraceRoom, Place, OnePlace, InLevels, Hung, EdgesLead,
         QuietNext
  PROVE  (TraceRoom /\ Place /\ OnePlace /\ InLevels /\ Hung /\ EdgesLead)'
<1>1. /\ KeepsResult /\ btPc # "idle" /\ btPc' \notin {"idle", "name"}
      /\ btPc = "name" => btPc' = "failed"
      /\ btPc # "failed"
      /\ btPc = "pop" => queue = <<>>
      /\ AtNode' => AtNode
      /\ btPc' = "done" => queue = <<>>
  BY QuietKeeps
<1>2. TraceRoom'
  <2>1. Len(nodes) \in Nat /\ Len(queue) \in Nat
    BY LenProperties DEF TraceTypeOK
  <2>2. Pending' <= Pending /\ Pending \in Nat /\ Pending' \in Nat
    BY <1>1 DEF Pending
  <2> QED
    BY <1>1, <2>1, <2>2, TraceBfsAssumption DEF TraceRoom, KeepsResult
<1>3. Place'
  BY <1>1 DEF Place, KeepsResult, AtEntry, AtNode
<1>4. OnePlace'
  BY <1>1 DEF OnePlace, KeepsResult
<1>5. InLevels'
  BY <1>1 DEF InLevels, KeepsResult
<1>6. Hung'
  <2>1. Len(queue) = 0 \/ btPc # "pop"
    BY <1>1, EmptySeq
  <2> QED
    BY <1>1, <2>1 DEF Hung, Hangs, KeepsResult
<1>7. EdgesLead'
  <2>1. ASSUME btPc' # "failed" PROVE Full' <=> Full
    BY <1>1, <2>1 DEF Full, Pending, KeepsResult
  <2> QED
    BY <1>1, <2>1 DEF EdgesLead, Linked, KeepsResult
<1> QED
  BY <1>2, <1>3, <1>4, <1>5, <1>6, <1>7

(* A quiet step leaves out no edge: what it passes over leads nowhere. *)
LEMMA QuietLeavesNoneOut ==
  ASSUME IInv, QuietNext
  PROVE  NoneLeftOut'
<1>1. KeepsResult
  BY QuietKeeps
<1> SUFFICES ASSUME Working', Len(edges) < EdgeCap,
                    NEW i \in 1 .. Len(nodes), nodes[i][2] < maxDepth,
                    NEW x \in Seen(i)',
                    ExtractTarget(x, direction) # NoAddress
             PROVE  Linked(nodes[i][1], ExtractTarget(x, direction))
  BY <1>1 DEF NoneLeftOut, KeepsResult, Linked
<1> USE DEF IInv
<1>2. ASSUME x \in Seen(i), Working
      PROVE  Linked(nodes[i][1], ExtractTarget(x, direction))
  BY <1>2 DEF NoneLeftOut
<1>3. CASE TraceEnds
  BY <1>2, <1>3 DEF TraceEnds, Seen, Working
<1>4. CASE AskXrefs
  <2>1. AtNode /\ AtEntry /\ btPc' = "each" /\ btPc = "ask" /\ Working
    BY <1>4 DEF AskXrefs, AtNode, AtEntry, Working
  <2>2. current[1] \in Addresses /\ nodes[Len(nodes)] = current
    BY <2>1 DEF Place
  <2>3. PICK list \in XrefLists :
          rest' = list /\ answers' = [answers EXCEPT ![current[1]] = list]
    BY <1>4 DEF AskXrefs
  <2>4. CASE i = Len(nodes)
    <3>1. answers'[nodes[i][1]] = rest'
      BY <2>2, <2>3, <2>4 DEF TraceTypeOK
    <3>2. nodes' = nodes
      BY <1>1 DEF KeepsResult
    <3> QED
      BY <2>1, <2>4, <3>1, <3>2 DEF Seen
  <2>5. CASE i # Len(nodes)
    <3>1. Len(nodes) \in 1 .. Len(nodes)
      BY <2>1, LenProperties DEF Place, TraceTypeOK
    <3>2. nodes[i][1] # current[1]
      BY <2>2, <2>5, <3>1 DEF OnePlace
    <3>3. answers'[nodes[i][1]] = answers[nodes[i][1]]
      BY <2>3, <3>2, ElementOfSeq DEF TraceTypeOK
    <3>4. nodes' = nodes
      BY <1>1 DEF KeepsResult
    <3>5. x \in Seen(i)
      BY <2>5, <3>3, <3>4 DEF Seen
    <3> QED
      BY <1>2, <2>1, <3>5
  <2> QED
    BY <2>4, <2>5
<1>5. CASE CallFails
  BY <1>5 DEF CallFails, Working
<1>6. CASE EachEnds
  <2>1. rest = <<>>
    <3>1. Len(edges) \in Nat
      BY LenProperties DEF TraceTypeOK
    <3> QED
      BY <1>6, <3>1, TraceBfsAssumption DEF EachEnds
  <2>2. ToSet(rest) = {}
    BY <2>1 DEF ToSet
  <2>3. x \in Seen(i)
    BY <1>6, <2>2 DEF EachEnds, Seen
  <2> QED
    BY <1>2, <1>6, <2>3 DEF EachEnds, Working
<1>7. CASE SkipXref
  <2>1. ToSet(rest) = {Head(rest)} \cup ToSet(Tail(rest))
    BY <1>7, RestIsHeadAndTail DEF SkipXref, TraceTypeOK
  <2>2. x \in Seen(i)
    BY <1>7, <2>1 DEF SkipXref, Seen
  <2> QED
    BY <1>2, <1>7, <2>2 DEF SkipXref, Working
<1> QED
  BY <1>3, <1>4, <1>5, <1>6, <1>7 DEF QuietNext

-----------------------------------------------------------------------------

(* The loop takes the first entry, and finds room and depth for it. *)
LEMMA PopFrontTakes ==
  ASSUME TraceTypeOK, TraceRoom, InLevels, PopFront
  PROVE  /\ btPc = "pop" /\ btPc' = "name"
         /\ Len(queue) \in Nat /\ Len(queue) >= 1
         /\ queue[1] \in Addresses \X Nat
         /\ current' = queue[1]
         /\ queue' \in Seq(Addresses \X Nat)
         /\ Len(queue') = Len(queue) - 1
         /\ \A j \in 1 .. Len(queue') : queue'[j] = queue[j + 1]
         /\ reached' = queue[1][2]
         /\ reached <= reached' /\ reached' <= reached + 1
         /\ UNCHANGED <<direction, maxDepth, visited, rest, nodes, edges,
                        answers>>
<1>1. /\ btPc = "pop" /\ queue # <<>>
      /\ queue' = Tail(queue) /\ current' = Head(queue)
      /\ UNCHANGED <<direction, maxDepth, visited, rest, nodes, edges, answers>>
  BY DEF PopFront
<1>2. /\ Len(queue) \in Nat /\ Len(queue) >= 1 /\ Head(queue) = queue[1]
      /\ queue' \in Seq(Addresses \X Nat)
      /\ Len(queue') = Len(queue) - 1
      /\ \A j \in 1 .. Len(queue') : queue'[j] = queue[j + 1]
  BY <1>1, HeadTailProperties, EmptySeq, LenProperties DEF TraceTypeOK
<1>3. queue[1] \in Addresses \X Nat
  BY <1>2, ElementOfSeq DEF TraceTypeOK
<1>4. queue[1][2] \in Nat /\ reached \in Nat /\ maxDepth \in Nat
  BY <1>3, TraceBfsAssumption DEF TraceTypeOK
<1>5. 1 \in 1 .. Len(queue)
  BY <1>2
<1>6. /\ reached <= queue[1][2] /\ queue[1][2] <= reached + 1
      /\ queue[1][2] <= maxDepth
  BY <1>5 DEF InLevels
<1>7. Len(nodes) \in Nat /\ Len(nodes) < NodeCap
  <2>1. Len(nodes) \in Nat
    BY LenProperties DEF TraceTypeOK
  <2> QED
    BY <1>1, <1>2, <2>1, TraceBfsAssumption DEF TraceRoom, Pending
<1>8. /\ reached' = IF queue[1][2] > reached THEN queue[1][2] ELSE reached
      /\ btPc' = "name"
  BY <1>2, <1>4, <1>6, <1>7, TraceBfsAssumption DEF PopFront
<1>9. reached' = queue[1][2]
  BY <1>4, <1>6, <1>8
<1> QED
  BY <1>1, <1>2, <1>3, <1>4, <1>6, <1>8, <1>9

(* Taking an entry from the queue keeps the invariant. *)
LEMMA PopFrontInv ==
  ASSUME IInv, PopFront
  PROVE  IInv'
<1> USE DEF IInv
<1>1. /\ btPc = "pop" /\ btPc' = "name"
      /\ Len(queue) \in Nat /\ Len(queue) >= 1
      /\ queue[1] \in Addresses \X Nat
      /\ current' = queue[1]
      /\ queue' \in Seq(Addresses \X Nat)
      /\ Len(queue') = Len(queue) - 1
      /\ \A j \in 1 .. Len(queue') : queue'[j] = queue[j + 1]
      /\ reached' = queue[1][2]
      /\ reached <= reached' /\ reached' <= reached + 1
      /\ UNCHANGED <<direction, maxDepth, visited, rest, nodes, edges, answers>>
  BY PopFrontTakes
<1>2. /\ 1 \in 1 .. Len(queue)
      /\ \A j \in 1 .. Len(queue') : j + 1 \in 1 .. Len(queue) /\ j + 1 # 1
  BY <1>1
<1>3. Len(nodes) \in Nat /\ reached \in Nat /\ reached' \in Nat
  BY <1>1, LenProperties DEF TraceTypeOK
<1>4. TraceTypeOK'
  BY <1>1, <1>3 DEF TraceTypeOK
<1>5. TraceRoom'
  BY <1>1, <1>3, TraceBfsAssumption DEF TraceRoom, Pending
<1>6. Place'
  BY <1>1 DEF Place, AtEntry, AtNode
<1>7. OnePlace'
  <2>1. \A i, j \in 1 .. Len(queue') : queue'[i][1] = queue'[j][1] => i = j
    <3> SUFFICES ASSUME NEW i \in 1 .. Len(queue'),
                        NEW j \in 1 .. Len(queue'),
                        queue'[i][1] = queue'[j][1]
                 PROVE  i = j
      OBVIOUS
    <3>1. queue[i + 1][1] = queue[j + 1][1]
      BY <1>1
    <3>2. i + 1 = j + 1
      BY <1>2, <3>1 DEF OnePlace
    <3> QED
      BY <3>2
  <2>2. /\ \A i \in 1 .. Len(nodes) : nodes[i][1] # queue[1][1]
        /\ queue[1][1] \in visited
    BY <1>2 DEF OnePlace
  <2>3. ASSUME NEW j \in 1 .. Len(queue')
        PROVE  /\ \A i \in 1 .. Len(nodes) : nodes[i][1] # queue'[j][1]
               /\ queue'[j][1] \in visited
               /\ queue'[j][1] # queue[1][1]
    <3>1. j + 1 \in 1 .. Len(queue) /\ j + 1 # 1 /\ queue'[j] = queue[j + 1]
      BY <1>1, <1>2
    <3>2. /\ \A i \in 1 .. Len(nodes) : nodes[i][1] # queue[j + 1][1]
          /\ queue[j + 1][1] \in visited
      BY <3>1 DEF OnePlace
    <3>3. queue[j + 1][1] # queue[1][1]
      BY <1>2, <3>1 DEF OnePlace
    <3> QED
      BY <3>1, <3>2, <3>3
  <2>4. ASSUME NEW a \in visited
        PROVE  \/ \E i \in 1 .. Len(nodes) : nodes[i][1] = a
               \/ \E j \in 1 .. Len(queue') : queue'[j][1] = a
               \/ queue[1][1] = a
    <3>1. ASSUME NEW j \in 1 .. Len(queue), queue[j][1] = a, j # 1
          PROVE  \E k \in 1 .. Len(queue') : queue'[k][1] = a
      <4>1. j - 1 \in 1 .. Len(queue') /\ (j - 1) + 1 = j
        BY <1>1, <3>1
      <4>2. queue'[j - 1] = queue[j]
        BY <1>1, <4>1
      <4> QED
        BY <3>1, <4>1, <4>2
    <3> QED
      BY <1>1, <3>1 DEF OnePlace
  <2>5. /\ \A i, j \in 1 .. Len(nodes) : nodes[i][1] = nodes[j][1] => i = j
        /\ \A i \in 1 .. Len(nodes) : nodes[i][1] \in visited
    BY DEF OnePlace
  <2> QED
    BY <1>1, <2>1, <2>2, <2>3, <2>4, <2>5 DEF OnePlace
<1>8. InLevels'
  <2>1. \A i \in 1 .. Len(nodes) : nodes[i][2] <= reached'
    <3>1. \A i \in 1 .. Len(nodes) : nodes[i][2] \in Nat
      <4>1. nodes \in Seq(Addresses \X Nat)
        BY DEF TraceTypeOK
      <4> HIDE DEF IInv
      <4> QED
        BY <4>1, ElementOfSeq
    <3>2. \A i \in 1 .. Len(nodes) : nodes[i][2] <= reached
      BY DEF InLevels
    <3> HIDE DEF IInv
    <3> QED
      BY <1>1, <1>3, <3>1, <3>2
  <2>2. \A j \in 1 .. Len(queue) : queue[j][2] \in Nat
    <3>1. queue \in Seq(Addresses \X Nat)
      BY DEF TraceTypeOK
    <3> HIDE DEF IInv
    <3> QED
      BY <3>1, ElementOfSeq
  <2>3. ASSUME NEW j \in 1 .. Len(queue')
        PROVE  /\ reached' <= queue'[j][2]
               /\ queue'[j][2] <= reached' + 1
               /\ queue'[j][2] <= maxDepth
    <3>1. /\ j + 1 \in 1 .. Len(queue) /\ 1 < j + 1
          /\ queue'[j] = queue[j + 1]
      BY <1>1, <1>2
    <3>2. /\ queue[1][2] <= queue[j + 1][2]
          /\ queue[j + 1][2] <= reached + 1 /\ queue[j + 1][2] <= maxDepth
      BY <1>2, <3>1 DEF InLevels
    <3>3. queue[1][2] \in Nat /\ queue[j + 1][2] \in Nat
      BY <1>2, <2>2, <3>1
    <3>4. /\ reached' = queue[1][2] /\ reached <= reached'
          /\ reached' \in Nat /\ reached \in Nat
          /\ maxDepth' = maxDepth
      BY <1>1, <1>3
    <3> HIDE DEF IInv
    <3> QED
      BY <3>1, <3>2, <3>3, <3>4
  <2>4. ASSUME NEW i \in 1 .. Len(queue'), NEW j \in 1 .. Len(queue'), i < j
        PROVE  queue'[i][2] <= queue'[j][2]
    <3>1. /\ i + 1 \in 1 .. Len(queue) /\ j + 1 \in 1 .. Len(queue)
          /\ i + 1 < j + 1
      BY <1>2, <2>4
    <3> QED
      BY <1>1, <3>1 DEF InLevels
  <2> QED
    BY <1>1, <2>1, <2>3, <2>4 DEF InLevels
<1>9. Hung'
  <2>1. \A j \in 1 .. Len(queue') : Hangs(queue'[j], Len(nodes))
    BY <1>1, <1>2 DEF Hung
  <2>2. (queue[1][2] = 0 /\ nodes = <<>>) \/ Hangs(queue[1], Len(nodes))
    BY <1>2 DEF Hung
  <2> QED
    BY <1>1, <2>1, <2>2 DEF Hung, Hangs
<1>10. EdgesLead'
  <2>1. Full' <=> Full
    BY <1>1, <1>3, TraceBfsAssumption DEF Full, Pending
  <2>2. \A i \in 1 .. Len(nodes), j \in 1 .. Len(queue') :
          Linked(nodes[i][1], queue'[j][1]) => queue'[j][2] <= nodes[i][2] + 1
    BY <1>1, <1>2 DEF EdgesLead
  <2>3. \A i \in 1 .. Len(nodes) :
          Linked(nodes[i][1], queue[1][1]) => queue[1][2] <= nodes[i][2] + 1
    BY <1>2 DEF EdgesLead
  <2> QED
    BY <1>1, <2>1, <2>2, <2>3 DEF EdgesLead, Linked
<1>11. NoneLeftOut'
  BY <1>1 DEF NoneLeftOut, Working, Seen, Linked
<1> QED
  BY <1>4, <1>5, <1>6, <1>7, <1>8, <1>9, <1>10, <1>11

(* The node is listed: it was the entry at hand. *)
LEMMA PushNodeInv ==
  ASSUME IInv, PushNode
  PROVE  IInv'
<1> USE DEF IInv
<1>1. /\ btPc = "name"
      /\ nodes' = Append(nodes, current)
      /\ btPc' = IF current[2] >= maxDepth THEN "pop" ELSE "ask"
      /\ UNCHANGED <<direction, maxDepth, visited, queue, current, rest,
                     edges, reached, answers>>
  BY DEF PushNode
<1>0. PICK n \in Nat : n = Len(nodes) + 1
  BY LenProperties DEF TraceTypeOK
<1>2. /\ current \in Addresses \X Nat /\ current[1] \in Addresses
      /\ current[2] = reached
  BY <1>1 DEF Place, AtEntry, TraceTypeOK
<1>3. /\ nodes' \in Seq(Addresses \X Nat)
      /\ Len(nodes) \in Nat /\ Len(queue) \in Nat
      /\ Len(nodes') = n /\ n \in 1 .. n
      /\ \A i \in 1 .. Len(nodes) : nodes'[i] = nodes[i]
      /\ nodes'[n] = current
      /\ nodes' # <<>>
  <2>1. nodes \in Seq(Addresses \X Nat) /\ queue \in Seq(Addresses \X Nat)
    BY DEF TraceTypeOK
  <2>2. Len(nodes) \in Nat /\ Len(queue) \in Nat
    BY <2>1, LenProperties
  <2>3. /\ nodes' \in Seq(Addresses \X Nat) /\ nodes' # <<>>
        /\ Len(nodes') = Len(nodes) + 1
        /\ \A i \in 1 .. Len(nodes) : nodes'[i] = nodes[i]
        /\ nodes'[Len(nodes) + 1] = current
    <3>1. PICK S : S = Addresses \X Nat
      OBVIOUS
    <3>2. nodes \in Seq(S) /\ current \in S
      BY <1>2, <2>1, <3>1
    <3>3. /\ Append(nodes, current) \in Seq(S) /\ Append(nodes, current) # <<>>
          /\ Len(Append(nodes, current)) = Len(nodes) + 1
          /\ \A i \in 1 .. Len(nodes) : Append(nodes, current)[i] = nodes[i]
          /\ Append(nodes, current)[Len(nodes) + 1] = current
      BY <3>2, AppendProperties
    <3> QED
      BY <1>1, <3>1, <3>3
  <2> QED
    BY <1>0, <2>2, <2>3
<1>4. /\ \A i \in 1 .. n : i \in 1 .. Len(nodes) \/ i = n
      /\ \A i \in 1 .. Len(nodes) : i \in 1 .. n
  BY <1>0, <1>3
<1>5. ASSUME NEW i \in 1 .. Len(nodes)
      PROVE  nodes[i][1] \in Addresses /\ nodes[i][2] \in Nat
  <2>1. nodes[i] \in Addresses \X Nat
    BY ElementOfSeq DEF TraceTypeOK
  <2> QED
    BY <2>1
<1>6. /\ maxDepth \in Nat /\ reached \in Nat
      /\ btPc' = "pop" => current[2] >= maxDepth
      /\ btPc' = "ask" => current[2] < maxDepth
      /\ btPc' \in {"pop", "ask"}
  BY <1>1, <1>2, TraceBfsAssumption DEF TraceTypeOK
<1>7. TraceTypeOK'
  BY <1>1, <1>3, <1>6 DEF TraceTypeOK
<1>8. TraceRoom'
  BY <1>0, <1>1, <1>3, <1>6, TraceBfsAssumption DEF TraceRoom, Pending
<1>9. Place'
  <2>1. AtNode' => n > 0 /\ current[2] < maxDepth
    BY <1>3, <1>6 DEF AtNode
  <2> QED
    BY <1>1, <1>2, <1>3, <1>6, <2>1 DEF Place, AtNode, AtEntry
<1>10. OnePlace'
  <2>1. \A i, j \in 1 .. n : nodes'[i][1] = nodes'[j][1] => i = j
    BY <1>1, <1>3, <1>4 DEF OnePlace
  <2>2. \A i \in 1 .. n, j \in 1 .. Len(queue) : nodes'[i][1] # queue[j][1]
    BY <1>1, <1>3, <1>4 DEF OnePlace
  <2>3. \A a \in visited :
          \/ \E i \in 1 .. n : nodes'[i][1] = a
          \/ \E j \in 1 .. Len(queue) : queue[j][1] = a
    BY <1>1, <1>3, <1>4 DEF OnePlace
  <2>4. \A i \in 1 .. n : nodes'[i][1] \in visited
    BY <1>1, <1>3, <1>4 DEF OnePlace
  <2>5. /\ \A i, j \in 1 .. Len(queue) : queue[i][1] = queue[j][1] => i = j
        /\ \A j \in 1 .. Len(queue) : queue[j][1] \in visited
    BY DEF OnePlace
  <2>6. /\ Len(nodes') = n /\ queue' = queue /\ visited' = visited
        /\ btPc' # "name"
    BY <1>1, <1>3, <1>6
  <2> HIDE DEF IInv
  <2> QED
    BY <2>1, <2>2, <2>3, <2>4, <2>5, <2>6 DEF OnePlace
<1>11. InLevels'
  <2>1. \A i \in 1 .. n : nodes'[i][2] <= reached
    <3>1. \A i \in 1 .. Len(nodes) : nodes'[i][2] <= reached
      BY <1>3 DEF InLevels
    <3>2. nodes'[n][2] <= reached
      BY <1>2, <1>3, <1>6
    <3> QED
      BY <1>4, <3>1, <3>2
  <2>2. \E i \in 1 .. n : nodes'[i][2] = reached
    BY <1>2, <1>3
  <2> QED
    BY <1>1, <1>3, <2>1, <2>2 DEF InLevels
<1>12. ASSUME NEW entry, NEW m \in 0 .. Len(nodes), Hangs(entry, m)
       PROVE  \A k \in m .. n : HangsIn(nodes', edges, direction, entry, k)
  <2>1. PICK i \in 1 .. m : /\ nodes[i][2] + 1 = entry[2]
                            /\ LinkedIn(edges, direction, nodes[i][1], entry[1])
    BY <1>12 DEF Hangs, HangsIn
  <2>2. nodes'[i] = nodes[i] /\ \A k \in m .. n : i \in 1 .. k
    BY <1>3, <2>1
  <2> QED
    BY <2>1, <2>2 DEF HangsIn
<1>13. Hung'
  <2> DEFINE H(entry, m) == HangsIn(nodes', edges, direction, entry, m)
  <2>1. ASSUME NEW j \in 1 .. Len(nodes)
        PROVE  (nodes'[j][2] = 0 /\ j = 1) \/ H(nodes'[j], j - 1)
    <3>1. /\ nodes'[j] = nodes[j]
          /\ j - 1 \in 0 .. Len(nodes) /\ j - 1 \in j - 1 .. n
      BY <1>0, <1>3
    <3>2. (nodes[j][2] = 0 /\ j = 1) \/ Hangs(nodes[j], j - 1)
      BY DEF Hung
    <3>3. Hangs(nodes[j], j - 1) => H(nodes[j], j - 1)
      BY <1>12, <3>1
    <3> QED
      BY <3>1, <3>2, <3>3
  <2>2. (nodes'[n][2] = 0 /\ n = 1) \/ H(nodes'[n], n - 1)
    <3>1. (current[2] = 0 /\ nodes = <<>>) \/ Hangs(current, Len(nodes))
      BY <1>1 DEF Hung
    <3>2. nodes = <<>> => n = 1
      BY <1>0, EmptySeq
    <3>3. n - 1 = Len(nodes) /\ Len(nodes) \in 0 .. Len(nodes)
          /\ Len(nodes) \in Len(nodes) .. n
      BY <1>0, <1>3
    <3>4. Hangs(current, Len(nodes)) => H(current, n - 1)
      BY <1>12, <3>3
    <3> QED
      BY <1>3, <3>1, <3>2, <3>4
  <2>3. ASSUME NEW j \in 1 .. Len(queue)
        PROVE  H(queue[j], n)
    <3>1. Hangs(queue[j], Len(nodes))
      BY <1>1 DEF Hung
    <3>2. Len(nodes) \in 0 .. Len(nodes) /\ n \in Len(nodes) .. n
      BY <1>0, <1>3
    <3> QED
      BY <1>12, <3>1, <3>2
  <2>4. \A j \in 1 .. n : (nodes'[j][2] = 0 /\ j = 1) \/ H(nodes'[j], j - 1)
    BY <1>4, <2>1, <2>2
  <2> HIDE DEF H
  <2>5. /\ \A j \in 1 .. Len(nodes') :
             (nodes'[j][2] = 0 /\ j = 1) \/ Hangs(nodes[j], j - 1)'
        /\ \A j \in 1 .. Len(queue') : Hangs(queue[j], Len(nodes))'
    BY <1>1, <1>3, <2>3, <2>4 DEF Hangs, H
  <2> QED
    BY <1>6, <2>5 DEF Hung
<1>14. EdgesLead'
  <2>1. \A b \in Addresses : ~ Linked(current[1], b)
    BY <1>1, <1>2 DEF EdgesLead, OnePlace
  <2>2. \A a, b \in Addresses :
          Linked(a, b) => \E i \in 1 .. n : nodes'[i][1] = a
    BY <1>3, <1>4 DEF EdgesLead
  <2>3. ASSUME NEW i \in 1 .. n, NEW j \in 1 .. n,
               Linked(nodes'[i][1], nodes'[j][1])
        PROVE  nodes'[j][2] <= nodes'[i][2] + 1
    <3>1. i \in 1 .. Len(nodes)
      BY <1>2, <1>3, <1>4, <1>5, <2>1, <2>3
    <3> QED
      BY <1>1, <1>3, <1>4, <2>3, <3>1 DEF EdgesLead
  <2>4. ASSUME NEW i \in 1 .. n, NEW j \in 1 .. Len(queue),
               Linked(nodes'[i][1], queue[j][1])
        PROVE  queue[j][2] <= nodes'[i][2] + 1
    <3>1. queue[j][1] \in Addresses
      BY ElementOfSeq DEF TraceTypeOK
    <3>2. i \in 1 .. Len(nodes)
      BY <1>3, <1>4, <2>1, <2>4, <3>1
    <3> QED
      BY <1>3, <2>4, <3>2 DEF EdgesLead
  <2>5. Full' <=> Full
    BY <1>0, <1>1, <1>3, <1>6, TraceBfsAssumption DEF Full, Pending
  <2>6. \A a \in Addresses, b \in Addresses \ visited : Linked(a, b) => Full
    BY <1>1 DEF EdgesLead
  <2> QED
    BY <1>1, <1>3, <1>6, <2>2, <2>3, <2>4, <2>5, <2>6 DEF EdgesLead, Linked
<1>15. NoneLeftOut'
  <2> SUFFICES ASSUME Len(edges) < EdgeCap, NEW i \in 1 .. n,
                      nodes'[i][2] < maxDepth, NEW x \in Seen(i)',
                      ExtractTarget(x, direction) # NoAddress
               PROVE  Linked(nodes'[i][1], ExtractTarget(x, direction))
    BY <1>1, <1>3 DEF NoneLeftOut, Linked
  <2>1. i \in 1 .. Len(nodes)
    <3>1. CASE i = n
      BY <1>3, <1>6, <3>1 DEF Seen
    <3> QED
      BY <1>4, <3>1
  <2>2. i # n /\ nodes'[i] = nodes[i]
    BY <1>0, <1>3, <2>1
  <2>3. x \in Seen(i)
    BY <1>1, <1>3, <1>6, <2>2 DEF Seen
  <2> QED
    BY <1>1, <2>1, <2>2, <2>3 DEF NoneLeftOut, Working
<1> QED
  BY <1>7, <1>8, <1>9, <1>10, <1>11, <1>13, <1>14, <1>15

(* What a step along a cross-reference does: one more edge, and one more *)
(* entry when the address is new and there is room for its node.         *)
LEMMA PushEdgeAdds ==
  ASSUME TraceTypeOK, Place, PushEdge
  PROVE  \E t \in Addresses :
           /\ t = ExtractTarget(Head(rest), direction)
           /\ edges' \in Seq(Addresses \X Addresses)
           /\ Len(edges') = Len(edges) + 1
           /\ \A a, b \in Addresses :
                Linked(a, b)' <=> Linked(a, b) \/ (a = current[1] /\ b = t)
           /\ \/ /\ t \notin visited /\ HasRoom
                 /\ visited' = visited \cup {t}
                 /\ queue' = Append(queue, <<t, current[2] + 1>>)
              \/ /\ t \in visited \/ ~ HasRoom
                 /\ UNCHANGED <<visited, queue>>
<1>1. /\ btPc = "each" /\ rest # <<>>
      /\ ExtractTarget(Head(rest), direction) # NoAddress
      /\ edges' = Append(edges, BuildEdge(current[1],
                     ExtractTarget(Head(rest), direction), direction))
      /\ direction' = direction
  BY DEF PushEdge
<1>2. PICK t \in Addresses : t = ExtractTarget(Head(rest), direction)
  BY <1>1, TargetIsAddress
<1>3. current[1] \in Addresses
  BY <1>1 DEF Place, AtEntry
<1>4. BuildEdge(current[1], t, direction) \in Addresses \X Addresses
  BY <1>2, <1>3 DEF BuildEdge
<1>5. /\ edges' \in Seq(Addresses \X Addresses)
      /\ Len(edges') = Len(edges) + 1
  BY <1>1, <1>2, <1>4, AppendProperties DEF TraceTypeOK
<1>6. \A a, b \in Addresses :
        Linked(a, b)' <=> Linked(a, b) \/ (a = current[1] /\ b = t)
  <2> SUFFICES ASSUME NEW a \in Addresses, NEW b \in Addresses
               PROVE  Linked(a, b)'
                        <=> Linked(a, b) \/ (a = current[1] /\ b = t)
    OBVIOUS
  <2>1. /\ edges \in Seq(Addresses \X Addresses)
        /\ direction \in {"forward", "backward"}
    BY DEF TraceTypeOK
  <2>2. LinkedIn(Append(edges, BuildEdge(current[1], t, direction)),
                 direction, a, b)
          <=> LinkedIn(edges, direction, a, b) \/ (a = current[1] /\ b = t)
    BY <1>3, <2>1, LinkedByOneMore
  <2> QED
    BY <1>1, <1>2, <2>2 DEF Linked
<1>7. \/ /\ t \notin visited /\ HasRoom
         /\ visited' = visited \cup {t}
         /\ queue' = Append(queue, <<t, current[2] + 1>>)
      \/ /\ t \in visited \/ ~ HasRoom
         /\ UNCHANGED <<visited, queue>>
  BY <1>2 DEF PushEdge, Follow
<1> QED
  BY <1>2, <1>5, <1>6, <1>7

(* Following a cross-reference keeps the invariant. *)
LEMMA PushEdgeInv ==
  ASSUME IInv, PushEdge
  PROVE  IInv'
<1> USE DEF IInv
<1>1. /\ btPc = "each" /\ rest # <<>> /\ rest' = Tail(rest)
      /\ Len(edges) < EdgeCap
      /\ UNCHANGED <<btPc, direction, maxDepth, current, nodes, reached,
                     answers>>
  BY DEF PushEdge
<1>2. PICK t \in Addresses :
        /\ t = ExtractTarget(Head(rest), direction)
        /\ edges' \in Seq(Addresses \X Addresses)
        /\ Len(edges') = Len(edges) + 1
        /\ \A a, b \in Addresses :
             Linked(a, b)' <=> Linked(a, b) \/ (a = current[1] /\ b = t)
        /\ \/ /\ t \notin visited /\ HasRoom
              /\ visited' = visited \cup {t}
              /\ queue' = Append(queue, <<t, current[2] + 1>>)
           \/ /\ t \in visited \/ ~ HasRoom
              /\ UNCHANGED <<visited, queue>>
  BY PushEdgeAdds
<1>3. /\ current \in Addresses \X Nat /\ current[1] \in Addresses
      /\ current[2] = reached /\ current[2] < maxDepth
      /\ Len(nodes) > 0 /\ nodes[Len(nodes)] = current
  BY <1>1 DEF Place, AtEntry, AtNode, TraceTypeOK
<1>4. /\ Len(nodes) \in Nat /\ Len(queue) \in Nat /\ Len(edges) \in Nat
      /\ maxDepth \in Nat /\ reached \in Nat
  BY LenProperties, TraceBfsAssumption DEF TraceTypeOK
<1>5. Len(nodes) \in 1 .. Len(nodes)
  BY <1>3, <1>4
<1>6. ASSUME NEW i \in 1 .. Len(nodes)
      PROVE  /\ nodes[i][1] \in Addresses /\ nodes[i][2] \in Nat
             /\ nodes[i][1] = current[1] => i = Len(nodes)
  <2>1. nodes[i] \in Addresses \X Nat
    BY ElementOfSeq DEF TraceTypeOK
  <2> QED
    BY <2>1, <1>3, <1>5 DEF OnePlace
<1>7. ASSUME NEW j \in 1 .. Len(queue)
      PROVE  queue[j][1] \in Addresses /\ queue[j][2] \in Nat
  <2>1. queue[j] \in Addresses \X Nat
    BY ElementOfSeq DEF TraceTypeOK
  <2> QED
    BY <2>1
<1>8. ASSUME NEW entry, NEW m \in Nat, m <= Len(nodes), entry[1] \in Addresses,
             Hangs(entry, m)
      PROVE  HangsIn(nodes, edges', direction, entry, m)
  <2>1. PICK i \in 1 .. m : /\ nodes[i][2] + 1 = entry[2]
                            /\ Linked(nodes[i][1], entry[1])
    BY <1>8 DEF Hangs, HangsIn, Linked
  <2>2. nodes[i][1] \in Addresses
    BY <1>4, <1>6, <1>8
  <2>3. LinkedIn(edges', direction, nodes[i][1], entry[1])
    BY <1>1, <1>2, <1>8, <2>1, <2>2 DEF Linked
  <2> QED
    BY <2>1, <2>3 DEF HangsIn
<1>9. \A j \in 1 .. Len(nodes) :
        \/ nodes[j][2] = 0 /\ j = 1
        \/ HangsIn(nodes, edges', direction, nodes[j], j - 1)
  <2> SUFFICES ASSUME NEW j \in 1 .. Len(nodes), ~ (nodes[j][2] = 0 /\ j = 1)
               PROVE  HangsIn(nodes, edges', direction, nodes[j], j - 1)
    OBVIOUS
  <2>1. Hangs(nodes[j], j - 1)
    BY DEF Hung
  <2>2. j - 1 \in Nat /\ j - 1 <= Len(nodes)
    BY <1>4
  <2> QED
    BY <1>6, <1>8, <2>1, <2>2
<1>10. \A j \in 1 .. Len(queue) :
         HangsIn(nodes, edges', direction, queue[j], Len(nodes))
  <2>1. \A j \in 1 .. Len(queue) : Hangs(queue[j], Len(nodes))
    BY <1>1 DEF Hung
  <2> QED
    BY <1>4, <1>7, <1>8, <2>1
<1>11. /\ \A a, b \in Addresses :
            Linked(a, b)' => \E i \in 1 .. Len(nodes) : nodes[i][1] = a
       /\ \A i, j \in 1 .. Len(nodes) :
            Linked(nodes[i][1], nodes[j][1])' => nodes[j][2] <= nodes[i][2] + 1
       /\ \A i \in 1 .. Len(nodes), j \in 1 .. Len(queue) :
            LinkedIn(edges', direction, nodes[i][1], queue[j][1])
              => queue[j][2] <= nodes[i][2] + 1
  <2>1. \A a, b \in Addresses :
          Linked(a, b)' => \E i \in 1 .. Len(nodes) : nodes[i][1] = a
    BY <1>2, <1>3, <1>5 DEF EdgesLead
  <2>2. ASSUME NEW i \in 1 .. Len(nodes), NEW j \in 1 .. Len(nodes),
               LinkedIn(edges', direction, nodes[i][1], nodes[j][1])
        PROVE  nodes[j][2] <= nodes[i][2] + 1
    <3>1. CASE Linked(nodes[i][1], nodes[j][1])
      BY <3>1 DEF EdgesLead
    <3>2. CASE i = Len(nodes)
      <4>1. nodes[j][2] <= nodes[i][2]
        BY <1>3, <3>2 DEF InLevels
      <4> QED
        BY <1>6, <4>1
    <3> QED
      BY <1>1, <1>2, <1>6, <2>2, <3>1, <3>2 DEF Linked
  <2>3. ASSUME NEW i \in 1 .. Len(nodes), NEW j \in 1 .. Len(queue),
               LinkedIn(edges', direction, nodes[i][1], queue[j][1])
        PROVE  queue[j][2] <= nodes[i][2] + 1
    <3>1. CASE Linked(nodes[i][1], queue[j][1])
      BY <3>1 DEF EdgesLead
    <3>2. CASE i = Len(nodes)
      BY <1>3, <3>2 DEF InLevels
    <3> QED
      BY <1>1, <1>2, <1>6, <1>7, <2>3, <3>1, <3>2 DEF Linked
  <2> QED
    BY <1>1, <2>1, <2>2, <2>3 DEF Linked
<1>12. NoneLeftOut'
  <2> SUFFICES ASSUME NEW i \in 1 .. Len(nodes), nodes[i][2] < maxDepth,
                      NEW x \in Seen(i)',
                      ExtractTarget(x, direction) # NoAddress
               PROVE  LinkedIn(edges', direction, nodes[i][1],
                               ExtractTarget(x, direction))
    BY <1>1 DEF NoneLeftOut, Linked
  <2>1. ToSet(rest) = {Head(rest)} \cup ToSet(rest')
    BY <1>1, RestIsHeadAndTail DEF TraceTypeOK
  <2>2. x \in Seen(i) \/ (i = Len(nodes) /\ x = Head(rest))
    BY <1>1, <2>1 DEF Seen
  <2>3. CASE x \in Seen(i)
    <3>1. Linked(nodes[i][1], ExtractTarget(x, direction))
      BY <1>1, <2>3 DEF NoneLeftOut, Working
    <3>2. x \in Xrefs
      <4>1. answers[nodes[i][1]] \in Seq(Xrefs) /\ rest \in Seq(Xrefs)
        BY <1>6 DEF TraceTypeOK
      <4>2. x \in ToSet(answers[nodes[i][1]])
        BY <2>3 DEF Seen
      <4> QED
        BY <4>1, <4>2, LenProperties, ElementOfSeq DEF ToSet
    <3>3. ExtractTarget(x, direction) \in Addresses
      BY <3>2, XrefAssumption DEF TraceTypeOK
    <3> QED
      BY <1>1, <1>2, <1>6, <3>1, <3>3 DEF Linked
  <2>4. CASE i = Len(nodes) /\ x = Head(rest)
    BY <1>1, <1>2, <1>3, <2>4 DEF Linked
  <2> QED
    BY <2>2, <2>3, <2>4
<1>13. rest' \in Seq(Xrefs)
  BY <1>1, HeadTailProperties DEF TraceTypeOK
<1>14. CASE /\ t \in visited \/ ~ HasRoom
            /\ UNCHANGED <<visited, queue>>
  <2>1. TraceTypeOK' /\ Place' /\ TraceRoom'
    <3>1. TraceTypeOK' /\ Place'
      BY <1>1, <1>2, <1>13, <1>14 DEF TraceTypeOK, Place, AtEntry, AtNode
    <3>2. TraceRoom'
      BY <1>1, <1>2, <1>4, <1>14, TraceBfsAssumption DEF TraceRoom, Pending
    <3> QED
      BY <3>1, <3>2
  <2>2. OnePlace' /\ InLevels'
    BY <1>1, <1>14 DEF OnePlace, InLevels
  <2>3. Hung'
    BY <1>1, <1>9, <1>10, <1>14 DEF Hung, Hangs
  <2>4. Full' <=> Full
    BY <1>1, <1>14 DEF Full, Pending
  <2>5. t \notin visited => Full
    BY <1>1, <1>4, <1>14, TraceBfsAssumption DEF Full, HasRoom, Pending
  <2>6. \A a \in Addresses, b \in Addresses \ visited : Linked(a, b)' => Full'
    BY <1>1, <1>2, <2>4, <2>5 DEF EdgesLead
  <2>7. EdgesLead'
    BY <1>1, <1>11, <1>14, <2>6 DEF EdgesLead, Linked
  <2> QED
    BY <1>12, <2>1, <2>2, <2>3, <2>7
<1>15. CASE /\ t \notin visited /\ HasRoom
            /\ visited' = visited \cup {t}
            /\ queue' = Append(queue, <<t, current[2] + 1>>)
  <2> DEFINE entry == <<t, current[2] + 1>>
  <2>0. PICK n \in Nat : n = Len(queue) + 1
    BY <1>4
  <2>1. /\ queue' \in Seq(Addresses \X Nat) /\ Len(queue') = n
        /\ \A j \in 1 .. Len(queue) : queue'[j] = queue[j]
        /\ queue'[n] = entry
    <3>1. entry \in Addresses \X Nat
      BY <1>3
    <3>2. queue \in Seq(Addresses \X Nat)
      BY DEF TraceTypeOK
    <3> QED
      BY <1>15, <2>0, <3>1, <3>2, AppendProperties
  <2>2. /\ \A j \in 1 .. n : j \in 1 .. Len(queue) \/ j = n
        /\ n \in 1 .. n /\ \A j \in 1 .. Len(queue) : j \in 1 .. n /\ j < n
    BY <1>4, <2>0
  <2>3. entry[1] = t /\ entry[2] = reached + 1
    BY <1>3
  <2> HIDE DEF entry
  <2>4. Len(nodes) + Len(queue) < NodeCap /\ ~ Full
    BY <1>1, <1>4, <1>15, TraceBfsAssumption DEF HasRoom, Full, Pending
  <2>5. TraceTypeOK' /\ Place'
    BY <1>1, <1>2, <1>13, <1>15, <2>1
       DEF TraceTypeOK, Place, AtEntry, AtNode
  <2>6. TraceRoom'
    BY <1>1, <1>2, <1>4, <2>0, <2>1, <2>4, TraceBfsAssumption
       DEF TraceRoom, Pending
  <2>7. OnePlace'
    <3>1. /\ \A i \in 1 .. Len(nodes) : nodes[i][1] # t
          /\ \A j \in 1 .. Len(queue) : queue[j][1] # t
      BY <1>15 DEF OnePlace
    <3>2. \A i, j \in 1 .. n : queue'[i][1] = queue'[j][1] => i = j
      <4>1. \A i, j \in 1 .. Len(queue) : queue[i][1] = queue[j][1] => i = j
        BY DEF OnePlace
      <4> HIDE DEF IInv
      <4> QED
        BY <2>1, <2>2, <2>3, <3>1, <4>1
    <3>3. \A i \in 1 .. Len(nodes), j \in 1 .. n : nodes[i][1] # queue'[j][1]
      <4>1. \A i \in 1 .. Len(nodes), j \in 1 .. Len(queue) :
              nodes[i][1] # queue[j][1]
        BY DEF OnePlace
      <4> HIDE DEF IInv
      <4> QED
        BY <2>1, <2>2, <2>3, <3>1, <4>1
    <3>4. \A a \in visited' :
            \/ \E i \in 1 .. Len(nodes) : nodes[i][1] = a
            \/ \E j \in 1 .. n : queue'[j][1] = a
      <4>1. \A a \in visited :
              \/ \E i \in 1 .. Len(nodes) : nodes[i][1] = a
              \/ \E j \in 1 .. Len(queue) : queue[j][1] = a
        BY <1>1 DEF OnePlace
      <4>2. \E j \in 1 .. n : queue'[j][1] = t
        BY <2>1, <2>2, <2>3
      <4>3. ASSUME NEW j \in 1 .. Len(queue)
            PROVE  \E k \in 1 .. n : queue'[k][1] = queue[j][1]
        BY <2>1, <2>2
      <4> HIDE DEF IInv
      <4>4. ASSUME NEW a \in visited
            PROVE  \/ \E i \in 1 .. Len(nodes) : nodes[i][1] = a
                   \/ \E j \in 1 .. n : queue'[j][1] = a
        BY <4>1, <4>3
      <4> QED
        BY <1>15, <4>2, <4>4
    <3>5. \A j \in 1 .. n : queue'[j][1] \in visited'
      BY <1>15, <2>1, <2>2, <2>3 DEF OnePlace
    <3>6. /\ \A i, j \in 1 .. Len(nodes) : nodes[i][1] = nodes[j][1] => i = j
          /\ \A i \in 1 .. Len(nodes) : nodes[i][1] \in visited'
      BY <1>15 DEF OnePlace
    <3>7. nodes' = nodes /\ Len(queue') = n /\ btPc' # "name"
      BY <1>1, <2>1
    <3> HIDE DEF IInv
    <3> QED
      BY <3>2, <3>3, <3>4, <3>5, <3>6, <3>7 DEF OnePlace
  <2>8. InLevels'
    <3>1. ASSUME NEW j \in 1 .. n
          PROVE  /\ reached <= queue'[j][2] /\ queue'[j][2] <= reached + 1
                 /\ queue'[j][2] <= maxDepth
      <4>1. CASE j = n
        BY <1>3, <1>4, <2>1, <2>3, <4>1
      <4> QED
        BY <2>1, <2>2, <4>1 DEF InLevels
    <3>2. ASSUME NEW i \in 1 .. n, NEW j \in 1 .. n, i < j
          PROVE  queue'[i][2] <= queue'[j][2]
      <4>1. i \in 1 .. Len(queue)
        BY <1>4, <2>0, <3>2
      <4>2. CASE j = n
        BY <2>1, <2>3, <3>1, <4>2
      <4>3. CASE j \in 1 .. Len(queue)
        BY <2>1, <3>2, <4>1, <4>3 DEF InLevels
      <4> QED
        BY <2>2, <4>2, <4>3
    <3>3. Len(queue') = n
      BY <2>1
    <3>4. /\ \A i \in 1 .. Len(nodes) : nodes[i][2] <= reached
          /\ nodes = <<>> \/ \E j \in 1 .. Len(nodes) : nodes[j][2] = reached
      BY <1>1 DEF InLevels
    <3> HIDE DEF IInv
    <3> QED
      BY <1>1, <3>1, <3>2, <3>3, <3>4 DEF InLevels
  <2>9. Hung'
    <3>1. HangsIn(nodes, edges', direction, entry, Len(nodes))
      BY <1>1, <1>2, <1>3, <1>5, <2>3 DEF HangsIn, Linked
    <3>2. \A j \in 1 .. n :
            HangsIn(nodes, edges', direction, queue'[j], Len(nodes))
      BY <1>10, <2>1, <2>2, <3>1
    <3> QED
      BY <1>1, <1>9, <2>1, <3>2 DEF Hung, Hangs
  <2>10. EdgesLead'
    <3>1. ASSUME NEW i \in 1 .. Len(nodes), NEW j \in 1 .. n,
                 LinkedIn(edges', direction, nodes[i][1], queue'[j][1])
          PROVE  queue'[j][2] <= nodes[i][2] + 1
      <4>1. CASE j \in 1 .. Len(queue)
        BY <1>11, <2>1, <3>1, <4>1
      <4>2. CASE j = n
        <5>1. ~ Linked(nodes[i][1], t)
          <6>1. btPc # "failed" => \A a \in Addresses, b \in Addresses \ visited :
                                     Linked(a, b) => Full
            BY DEF EdgesLead
          <6> HIDE DEF IInv
          <6> QED
            BY <1>1, <1>6, <1>15, <2>4, <6>1
        <5>2. i = Len(nodes)
          <6>1. LinkedIn(edges', direction, nodes[i][1], t)
            BY <2>1, <2>3, <3>1, <4>2
          <6> HIDE DEF IInv
          <6>2. nodes[i][1] = current[1]
            BY <1>1, <1>2, <1>6, <5>1, <6>1 DEF Linked
          <6> QED
            BY <1>6, <6>2
        <5> QED
          BY <1>3, <2>1, <2>3, <4>2, <5>2
      <4> QED
        BY <2>2, <4>1, <4>2
    <3>2. \A a \in Addresses, b \in Addresses \ visited' : ~ Linked(a, b)'
      BY <1>1, <1>2, <1>15, <2>4 DEF EdgesLead
    <3>3. Len(queue') = n
      BY <2>1
    <3> QED
      BY <1>1, <1>11, <3>1, <3>2, <3>3 DEF EdgesLead, Linked
  <2> QED
    BY <1>12, <2>5, <2>6, <2>7, <2>8, <2>9, <2>10
<1> QED
  BY <1>2, <1>14, <1>15

(* The trace begins: only its start waits. *)
LEMMA TraceStartInv ==
  ASSUME IInv, TraceStart
  PROVE  IInv'
<1> USE DEF IInv
<1>1. PICK a \in Addresses, d \in RequestedDepths, dir \in Directions :
        /\ direction' = dir /\ maxDepth' = ClampDepth(d)
        /\ visited' = {a} /\ queue' = << <<a, 0>> >>
  BY DEF TraceStart
<1>2. /\ btPc = "idle" /\ btPc' = "pop"
      /\ UNCHANGED <<current, rest, nodes, edges, reached, answers>>
  BY DEF TraceStart
<1>3. nodes = <<>> /\ edges = <<>> /\ reached = 0
  BY <1>2 DEF Place
<1>4. /\ Len(queue') = 1 /\ queue'[1] = <<a, 0>>
      /\ Len(nodes') = 0 /\ Len(edges') = 0
      /\ \A j \in 1 .. Len(queue') : j = 1
      /\ queue' \in Seq(Addresses \X Nat)
  BY <1>1, <1>2, <1>3
<1>5. maxDepth' \in 1 .. DepthCap
  BY <1>1, ClampRange, TraceBfsAssumption
<1>6. TraceTypeOK'
  BY <1>1, <1>2, <1>4, <1>5, TraceBfsAssumption DEF TraceTypeOK
<1>7. TraceRoom' /\ Place'
  BY <1>2, <1>4, TraceBfsAssumption
     DEF TraceRoom, Pending, Place, AtEntry, AtNode
<1>8. OnePlace'
  BY <1>1, <1>2, <1>4 DEF OnePlace
<1>9. InLevels' /\ Hung'
  BY <1>1, <1>2, <1>3, <1>4, <1>5 DEF InLevels, Hung
<1>10. EdgesLead'
  BY <1>2, <1>3, <1>4 DEF EdgesLead, Linked, LinkedIn
<1>11. NoneLeftOut'
  BY <1>2, <1>4 DEF NoneLeftOut
<1> QED
  BY <1>6, <1>7, <1>8, <1>9, <1>10, <1>11

(* Every step keeps the invariant. *)
LEMMA NextInv ==
  ASSUME IInv, [TraceNext]_btVars
  PROVE  IInv'
<1>1. CASE QuietNext
  <2>1. NoneLeftOut'
    BY <1>1, QuietLeavesNoneOut
  <2> QED
    BY <1>1, <2>1, QuietType, QuietResult DEF IInv
<1>2. CASE TraceStart
  BY <1>2, TraceStartInv
<1>3. CASE PopFront
  BY <1>3, PopFrontInv
<1>4. CASE PushNode
  BY <1>4, PushNodeInv
<1>5. CASE PushEdge
  BY <1>5, PushEdgeInv
<1>6. CASE UNCHANGED btVars
  <2>1. TraceTypeOK' /\ TraceRoom' /\ Place'
    BY <1>6 DEF btVars, IInv, TraceTypeOK, TraceRoom, Pending, Place, AtEntry,
                AtNode
  <2>2. OnePlace' /\ InLevels' /\ Hung'
    BY <1>6 DEF btVars, IInv, OnePlace, InLevels, Hung, Hangs
  <2>3. EdgesLead' /\ NoneLeftOut'
    BY <1>6 DEF btVars, IInv, EdgesLead, Linked, Full, Pending, NoneLeftOut,
                Working, Seen
  <2> QED
    BY <2>1, <2>2, <2>3 DEF IInv
<1> QED
  BY <1>1, <1>2, <1>3, <1>4, <1>5, <1>6 DEF TraceNext, QuietNext

-----------------------------------------------------------------------------

(* A finished trace that met no cap lacks no edge and no node. *)
LEMMA WholeWhenDone ==
  ASSUME IInv
  PROVE  TraceComplete
<1> USE DEF IInv
<1> SUFFICES ASSUME btPc = "done", Len(nodes) < NodeCap, Len(edges) < EdgeCap,
                    NEW i \in 1 .. Len(nodes), nodes[i][2] < maxDepth,
                    NEW x \in ToSet(answers[nodes[i][1]]),
                    ExtractTarget(x, direction) # NoAddress
             PROVE  /\ Linked(nodes[i][1], ExtractTarget(x, direction))
                    /\ \E d \in 0 .. nodes[i][2] + 1 :
                         Distance(ExtractTarget(x, direction), d)
  <2>1. DOMAIN nodes = 1 .. Len(nodes)
    BY LenProperties DEF TraceTypeOK
  <2> QED
    BY <2>1 DEF TraceComplete
<1>1. DOMAIN nodes = 1 .. Len(nodes) /\ Len(nodes) \in Nat
  BY LenProperties DEF TraceTypeOK
<1>2. Linked(nodes[i][1], ExtractTarget(x, direction))
  <2>1. x \in Seen(i)
    BY DEF Seen
  <2> QED
    BY <2>1 DEF NoneLeftOut, Working
<1>3. nodes[i][1] \in Addresses /\ nodes[i][2] \in Nat
  <2>1. nodes[i] \in Addresses \X Nat
    BY ElementOfSeq DEF TraceTypeOK
  <2> QED
    BY <2>1
<1>4. ExtractTarget(x, direction) \in Addresses
  <2>1. answers[nodes[i][1]] \in Seq(Xrefs)
    BY <1>3 DEF TraceTypeOK
  <2>2. x \in Xrefs
    BY <2>1, LenProperties, ElementOfSeq DEF ToSet
  <2> QED
    BY <2>2, XrefAssumption DEF TraceTypeOK
<1>5. Len(queue) = 0 /\ ~ Full
  <2>1. Len(queue) = 0
    BY EmptySeq DEF TraceRoom
  <2> QED
    BY <1>1, <2>1, TraceBfsAssumption DEF Full, Pending
<1>6. ExtractTarget(x, direction) \in visited
  BY <1>2, <1>3, <1>4, <1>5 DEF EdgesLead
<1>7. PICK j \in 1 .. Len(nodes) : nodes[j][1] = ExtractTarget(x, direction)
  BY <1>5, <1>6 DEF OnePlace
<1>8. nodes[j] \in Addresses \X Nat
  BY ElementOfSeq DEF TraceTypeOK
<1>9. nodes[j][2] \in 0 .. nodes[i][2] + 1
  BY <1>2, <1>3, <1>7, <1>8 DEF EdgesLead
<1>10. nodes[j] = <<ExtractTarget(x, direction), nodes[j][2]>>
  BY <1>7, <1>8
<1> QED
  BY <1>1, <1>2, <1>9, <1>10 DEF Distance

(* The depths of the nodes are distances. *)
LEMMA LevelsAreDistances ==
  ASSUME IInv
  PROVE  TraceLevels
<1> USE DEF IInv
<1>1. DOMAIN nodes = 1 .. Len(nodes)
  BY LenProperties DEF TraceTypeOK
<1>2. \A i, j \in 1 .. Len(nodes) :
        /\ Linked(nodes[i][1], nodes[j][1]) => nodes[j][2] <= nodes[i][2] + 1
        /\ nodes[i][1] = nodes[j][1] => i = j
  BY DEF EdgesLead, OnePlace
<1>3. \A j \in 1 .. Len(nodes) :
        \/ nodes[j][2] = 0 /\ j = 1
        \/ \E i \in 1 .. j - 1 : /\ nodes[i][2] + 1 = nodes[j][2]
                                 /\ Linked(nodes[i][1], nodes[j][1])
  BY DEF Hung, Hangs, HangsIn, Linked
<1>4. /\ \A j \in 1 .. Len(nodes) : nodes[j][2] <= reached
      /\ btPc \notin {"name", "failed"} =>
           nodes = <<>> \/ \E j \in 1 .. Len(nodes) : nodes[j][2] = reached
  BY DEF InLevels
<1> HIDE DEF IInv
<1> QED
  BY <1>1, <1>2, <1>3, <1>4 DEF TraceLevels

(***************************************************************************)
(* The invariant holds of every trace.                                     *)
(***************************************************************************)
THEOREM TraceInvariant == TraceSpec => []IInv
<1>1. TraceInit => IInv
  BY InitInv
<1>2. IInv /\ [TraceNext]_btVars => IInv'
  BY NextInv
<1> QED
  BY <1>1, <1>2, PTL DEF TraceSpec

(***************************************************************************)
(* Whatever radare2 answers, with whatever caps, however deep: a trace is  *)
(* the neighbourhood of its start in the call graph, with distances as     *)
(* depths, whole when it met no cap (trace_data_flow).                     *)
(***************************************************************************)
THEOREM TraceIsFaithful == TraceSpec => []TraceFollowsGraph
<1>1. IInv => TraceFollowsGraph
  BY WholeWhenDone, LevelsAreDistances DEF TraceFollowsGraph, IInv
<1> QED
  BY <1>1, TraceInvariant, PTL

-----------------------------------------------------------------------------
(***************************************************************************)
(* SeedTrace: what is copied from a seed.                                  *)
(***************************************************************************)

Cpus == [regs : SUBSET Registers, stack : SUBSET Int, sp : Int, known : BOOLEAN]

(* What a trace tracks is of its type, and as long as the processor's stack *)
(* pointer is known it is no higher than the trace believes: a push that is *)
(* not tracked moves only the processor's, and no step makes up for that.   *)
Follows ==
  /\ regs \subseteq seen /\ seen \subseteq Registers
  /\ stack \subseteq Int /\ spDelta \in Int
  /\ cpu \in Cpus
  /\ cpu.known => /\ cpu.sp <= spDelta
                  /\ spDelta = cpu.sp => CopiesFollowed

LEMMA OperandIs ==
  ASSUME NEW o \in Operands
  PROVE  /\ o.kind \in {"reg", "slot", "mem", "imm"}
         /\ o.kind = "reg" => o.name \in Registers
         /\ o.kind = "slot" => o.off \in Int
         /\ o.kind = "imm" => o.val \in Int
BY DEF Operands

LEMMA CpuHas ==
  ASSUME NEW c \in Cpus
  PROVE  c.regs \subseteq Registers /\ c.stack \subseteq Int /\ c.sp \in Int /\ c.known \in BOOLEAN
BY DEF Cpus

LEMMA CpuWriteIs ==
  ASSUME NEW c \in Cpus, NEW dst \in Operands, NEW copy \in BOOLEAN
  PROVE  LET d == CpuWrites(c, dst, copy)
         IN  /\ d \in Cpus /\ d.sp = c.sp /\ (d.known => c.known)
             /\ d.regs = IF dst.kind = "reg" THEN Mark(c.regs, dst.name, copy) ELSE c.regs
             /\ d.stack = IF dst.kind = "slot" THEN Mark(c.stack, c.sp + dst.off, copy)
                          ELSE c.stack
<1> DEFINE d == CpuWrites(c, dst, copy)
           R == IF dst.kind = "reg" THEN Mark(c.regs, dst.name, copy) ELSE c.regs
           T == IF dst.kind = "slot" THEN Mark(c.stack, c.sp + dst.off, copy) ELSE c.stack
           k == c.known /\ ~IsStackPointer(dst)
           n == c.sp
<1>1. R \in SUBSET Registers
  BY CpuHas, OperandIs DEF Mark
<1>2. T \in SUBSET Int
  <2>1. CASE dst.kind = "slot"
    <3>1. c.sp + dst.off \in Int
      BY <2>1, CpuHas, OperandIs
    <3> QED
      BY <2>1, <3>1, CpuHas DEF Mark
  <2>2. CASE dst.kind # "slot"
    BY <2>2, CpuHas
  <2> QED
    BY <2>1, <2>2
<1>3. k \in BOOLEAN /\ n \in Int /\ (k => c.known)
  BY CpuHas
<1>4. d = [c EXCEPT !.regs = R, !.stack = T, !.sp = n, !.known = k]
  BY DEF CpuWrites, Cpus
<1> HIDE DEF d, R, T, k, n
<1>5. d \in Cpus /\ d.regs = R /\ d.stack = T /\ d.sp = n /\ d.known = k
  BY <1>1, <1>2, <1>3, <1>4 DEF Cpus
<1> QED
  BY <1>3, <1>5 DEF d, R, T, n

LEMMA CpuMoveIs ==
  ASSUME cpu \in Cpus, NEW by \in Int
  PROVE  LET d == CpuMoves(by)
         IN  /\ d \in Cpus /\ d.sp = cpu.sp + by /\ d.known = cpu.known /\ d.regs = cpu.regs
             /\ d.stack = {s \in cpu.stack : s >= cpu.sp + by}
<1> DEFINE d == CpuMoves(by)
           T == {s \in cpu.stack : s >= cpu.sp + by}
<1>1. cpu.sp + by \in Int /\ T \in SUBSET Int
  BY CpuHas
<1>2. d = [cpu EXCEPT !.regs = cpu.regs, !.stack = T, !.sp = cpu.sp + by, !.known = cpu.known]
  BY DEF CpuMoves, Cpus
<1>3. cpu.regs \in SUBSET Registers /\ cpu.known \in BOOLEAN
  BY CpuHas
<1> HIDE DEF d, T
<1>4. /\ d \in Cpus /\ d.sp = cpu.sp + by /\ d.known = cpu.known /\ d.regs = cpu.regs
      /\ d.stack = T
  BY <1>1, <1>2, <1>3 DEF Cpus
<1> QED
  BY <1>4 DEF d, T

(* What a mov, or another write of one operand, does to trace and processor. *)
LEMMA WriteFollows ==
  ASSUME Follows, NEW dst \in Operands, NEW taint, NEW copy \in BOOLEAN,
         WriteDestination(dst, taint), spDelta' = spDelta,
         cpu' = CpuWrites(cpu, dst, copy),
         cpu.known /\ spDelta = cpu.sp /\ copy => taint
  PROVE  Follows'
<1> USE OperandIs
<1>1. /\ regs' \subseteq seen' /\ seen' \subseteq Registers
      /\ stack' \subseteq Int /\ spDelta' \in Int
  <2>1. CASE dst.kind = "reg"
    BY <2>1 DEF Follows, WriteDestination, Mark
  <2>2. CASE dst.kind = "slot"
    <3>1. Slot(dst) \in Int
      BY <2>2 DEF Follows, Slot
    <3> QED
      BY <2>2, <3>1 DEF Follows, WriteDestination, Mark
  <2>3. CASE dst.kind \notin {"reg", "slot"}
    BY <2>3 DEF Follows, WriteDestination
  <2> QED
    BY <2>1, <2>2, <2>3
<1>3. /\ cpu' \in Cpus
      /\ cpu'.sp = cpu.sp /\ (cpu'.known => cpu.known)
      /\ cpu'.regs = IF dst.kind = "reg" THEN Mark(cpu.regs, dst.name, copy) ELSE cpu.regs
      /\ cpu'.stack = IF dst.kind = "slot" THEN Mark(cpu.stack, cpu.sp + dst.off, copy)
                      ELSE cpu.stack
  BY CpuWriteIs DEF Follows
<1>4. ASSUME cpu.known, spDelta = cpu.sp PROVE CopiesFollowed'
  <2>1. cpu.regs \subseteq regs /\ cpu.stack \subseteq stack /\ (copy => taint)
    BY <1>4 DEF Follows, CopiesFollowed
  <2>2. cpu'.regs \subseteq regs'
    BY <1>3, <2>1 DEF WriteDestination, Mark
  <2>3. cpu'.stack \subseteq stack'
    BY <1>3, <1>4, <2>1 DEF WriteDestination, Mark, Slot
  <2> QED
    BY <2>2, <2>3 DEF CopiesFollowed
<1>5. cpu'.known => /\ cpu'.sp <= spDelta' /\ (spDelta' = cpu'.sp => CopiesFollowed')
  BY <1>3, <1>4 DEF Follows
<1> QED
  BY <1>1, <1>3, <1>5 DEF Follows

LEMMA AssignFollows ==
  ASSUME Follows, NEW dst \in Operands, NEW src \in Operands, HandleAssignment(dst, src),
         cpu' = CpuWrites(cpu, dst, Holds(src))
  PROVE  Follows'
<1>1. Holds(src) \in BOOLEAN
  <2>1. Holds(src) <=> \/ src.kind = "reg" /\ src.name \in cpu.regs
                       \/ src.kind = "slot" /\ cpu.sp + src.off \in cpu.stack
    BY DEF Holds
  <2>2. Holds(src) = TRUE \/ Holds(src) = FALSE
    BY DEF Holds, Cpus, Follows
  <2> QED
    BY <2>2
<1>2. ASSUME cpu.known, spDelta = cpu.sp, Holds(src) PROVE Resolves(src)
  BY <1>2, OperandIs DEF Holds, Resolves, Slot, Follows, CopiesFollowed
<1>3. WriteDestination(dst, Resolves(src) \/ Mentions(src)) /\ spDelta' = spDelta
  BY DEF HandleAssignment
<1> QED
  BY <1>1, <1>2, <1>3, WriteFollows

LEMMA LeaFollows ==
  ASSUME Follows, NEW dst \in Operands, NEW src, HandleAssignment(dst, src),
         cpu' = CpuWrites(cpu, dst, FALSE)
  PROVE  Follows'
BY WriteFollows DEF HandleAssignment

LEMMA PushFollows ==
  ASSUME Follows, NEW src \in Operands, HandlePush(src),
         cpu' = [cpu EXCEPT !.sp = @ - 1, !.stack = Mark(@, cpu.sp - 1, Holds(src))]
  PROVE  Follows'
<1> DEFINE T == Mark(cpu.stack, cpu.sp - 1, Holds(src))
<1>0. cpu.sp - 1 \in Int /\ T \in SUBSET Int
  BY CpuHas DEF Follows, Mark
<1>9. cpu' = [cpu EXCEPT !.regs = cpu.regs, !.stack = T, !.sp = cpu.sp - 1, !.known = cpu.known]
  BY DEF Follows, Cpus
<1>8. /\ cpu' \in Cpus /\ cpu'.sp = cpu.sp - 1 /\ cpu'.known = cpu.known /\ cpu'.regs = cpu.regs
      /\ cpu'.stack = T
  <2>1. cpu \in Cpus /\ cpu.regs \in SUBSET Registers /\ cpu.known \in BOOLEAN
    BY CpuHas DEF Follows
  <2> HIDE DEF T
  <2> QED
    BY <1>0, <1>9, <2>1 DEF Cpus
<1>1. cpu' \in Cpus /\ cpu.sp \in Int
  BY <1>8, CpuHas DEF Follows
<1>2. /\ cpu'.sp = cpu.sp - 1 /\ cpu'.known = cpu.known /\ cpu'.regs = cpu.regs
      /\ cpu'.stack = Mark(cpu.stack, cpu.sp - 1, Holds(src))
  BY <1>8
<1>3. UNCHANGED <<regs, memory, seen>>
  BY DEF HandlePush
<1>4. CASE Resolves(src)
  <2>1. spDelta' = spDelta - 1 /\ stack' = stack \cup {spDelta - 1}
    BY <1>4 DEF HandlePush
  <2> QED
    BY <1>1, <1>2, <1>3, <2>1 DEF Follows, CopiesFollowed, Mark
<1>5. CASE ~ Resolves(src)
  <2>1. spDelta' = spDelta /\ stack' = stack
    BY <1>5 DEF HandlePush
  <2> QED
    BY <1>1, <1>2, <1>3, <2>1 DEF Follows
<1> QED
  BY <1>4, <1>5

LEMMA PopFollows ==
  ASSUME Follows, NEW dst \in Operands, HandlePop(dst),
         cpu' = CpuWrites(CpuMoves(1), dst, cpu.sp \in cpu.stack)
  PROVE  Follows'
<1> USE OperandIs
<1> DEFINE copy == cpu.sp \in cpu.stack
           left == {s \in cpu.stack : s >= cpu.sp + 1}
<1>1. /\ cpu' \in Cpus
      /\ cpu'.sp = cpu.sp + 1 /\ (cpu'.known => cpu.known)
      /\ cpu'.regs = IF dst.kind = "reg" THEN Mark(cpu.regs, dst.name, copy) ELSE cpu.regs
      /\ cpu'.stack = IF dst.kind = "slot" THEN Mark(left, cpu.sp + 1 + dst.off, copy)
                      ELSE left
  <2> DEFINE c == CpuMoves(1)
  <2>1. /\ c \in Cpus /\ c.sp = cpu.sp + 1 /\ c.known = cpu.known /\ c.regs = cpu.regs
        /\ c.stack = left
    BY CpuMoveIs DEF Follows
  <2> HIDE DEF c, left, copy
  <2>2. copy \in BOOLEAN
    BY DEF copy
  <2>3. cpu' = CpuWrites(c, dst, copy)
    BY DEF c, copy
  <2> QED
    BY <2>1, <2>2, <2>3, CpuWriteIs
<1>2. spDelta' = spDelta + 1
  BY DEF HandlePop
<1>3. /\ regs' \subseteq seen' /\ seen' \subseteq Registers /\ stack' \subseteq Int
  <2>1. regs' \subseteq seen' /\ seen' \subseteq Registers
    BY DEF Follows, HandlePop
  <2>2. CASE dst.kind = "slot"
    <3>1. spDelta + 1 + dst.off \in Int
      BY <2>2 DEF Follows
    <3> QED
      BY <2>1, <2>2, <3>1 DEF Follows, HandlePop
  <2>3. CASE dst.kind # "slot"
    BY <2>1, <2>3 DEF Follows, HandlePop
  <2> QED
    BY <2>2, <2>3
<1>4. ASSUME cpu.known, spDelta = cpu.sp PROVE CopiesFollowed'
  <2>1. cpu.regs \subseteq regs /\ cpu.stack \subseteq stack /\ (copy => spDelta \in stack)
    BY <1>4 DEF Follows, CopiesFollowed
  <2>2. cpu'.regs \subseteq regs'
    BY <1>1, <2>1 DEF HandlePop, Mark
  <2>3. left \subseteq stack \ {spDelta}
    BY <1>4, <2>1 DEF Follows
  <2>4. cpu'.stack \subseteq stack'
    BY <1>1, <1>4, <2>1, <2>3 DEF HandlePop, Mark
  <2> QED
    BY <2>2, <2>4 DEF CopiesFollowed
<1>5. cpu'.known => /\ cpu'.sp <= spDelta' /\ (spDelta' = cpu'.sp => CopiesFollowed')
  <2>1. cpu.sp \in Int /\ spDelta \in Int /\ (cpu.known => cpu.sp <= spDelta)
    BY CpuHas DEF Follows
  <2>2. cpu'.sp = cpu.sp + 1 /\ (cpu'.known => cpu.known)
    BY <1>1
  <2> QED
    BY <1>2, <1>4, <2>1, <2>2
<1>6. spDelta' \in Int
  BY <1>2 DEF Follows
<1> HIDE DEF copy, left
<1> QED
  BY <1>1, <1>3, <1>5, <1>6 DEF Follows

LEMMA AdjustFollows ==
  ASSUME Follows, NEW mn \in {"add", "sub"}, NEW n \in Int, AdjustStackPointer(mn, n),
         cpu' = CpuMoves(IF mn = "add" THEN n ELSE -n)
  PROVE  Follows'
<1> DEFINE by == IF mn = "add" THEN n ELSE -n
<1>1. by \in Int
  OBVIOUS
<1>2. /\ cpu' \in Cpus
      /\ cpu'.sp = cpu.sp + by /\ cpu'.known = cpu.known /\ cpu'.regs = cpu.regs
      /\ cpu'.stack = {s \in cpu.stack : s >= cpu.sp + by}
  <2> HIDE DEF by
  <2>1. cpu' = CpuMoves(by)
    BY DEF by
  <2> QED
    BY <1>1, <2>1, CpuMoveIs DEF Follows
<1>3. spDelta' = spDelta + by /\ UNCHANGED <<regs, seen>> /\ stack' \subseteq stack
  BY DEF AdjustStackPointer, Follows
<1>4. ASSUME cpu.known, spDelta = cpu.sp PROVE cpu'.stack \subseteq stack'
  <2>1. CASE mn = "sub"
    BY <1>2, <1>4, <2>1 DEF Follows, CopiesFollowed, AdjustStackPointer
  <2>2. CASE mn = "add"
    <3>1. by = n /\ cpu.stack \subseteq stack /\ cpu.sp = spDelta /\ cpu.stack \subseteq Int
      BY <1>4, <2>2, CpuHas DEF Follows, CopiesFollowed
    <3>2. stack' = {s \in stack : ~(spDelta <= s /\ s < spDelta + n)}
      BY <2>2 DEF AdjustStackPointer
    <3>3. cpu'.stack = {s \in cpu.stack : s >= spDelta + n}
      BY <1>2, <3>1
    <3>4. spDelta + n \in Int
      BY DEF Follows
    <3> QED
      BY <3>1, <3>2, <3>3, <3>4
  <2> QED
    BY <2>1, <2>2
<1> HIDE DEF by
<1>5. cpu'.known => /\ cpu'.sp <= spDelta' /\ (spDelta' = cpu'.sp => CopiesFollowed')
  <2>1. cpu.sp \in Int /\ spDelta \in Int /\ (cpu.known => cpu.sp <= spDelta)
    BY CpuHas DEF Follows
  <2>2. spDelta' = cpu'.sp => spDelta = cpu.sp
    BY <1>1, <1>2, <1>3, <2>1
  <2>3. cpu.known /\ spDelta = cpu.sp => cpu.regs \subseteq regs
    BY DEF Follows, CopiesFollowed
  <2> QED
    BY <1>1, <1>2, <1>3, <1>4, <2>1, <2>2, <2>3 DEF CopiesFollowed
<1>6. spDelta' \in Int /\ stack' \subseteq Int
  BY <1>1, <1>3 DEF Follows
<1> QED
  BY <1>2, <1>3, <1>5, <1>6 DEF Follows

LEMMA MutateFollows ==
  ASSUME Follows, NEW dst \in Operands, NEW sources, MutateDestination(dst, sources),
         cpu' = CpuWrites(cpu, dst, FALSE)
  PROVE  Follows'
<1> USE OperandIs
<1>1. /\ cpu' \in Cpus
      /\ cpu'.sp = cpu.sp /\ (cpu'.known => cpu.known)
      /\ cpu'.regs \subseteq cpu.regs /\ cpu'.stack \subseteq cpu.stack
  BY CpuWriteIs DEF Follows, Mark
<1>2. /\ regs \subseteq regs' /\ regs' \subseteq seen' /\ seen' \subseteq Registers
      /\ UNCHANGED <<stack, spDelta>>
  BY DEF Follows, MutateDestination
<1> QED
  BY <1>1, <1>2 DEF Follows, CopiesFollowed

LEMMA CallFollows ==
  ASSUME Follows, NEW targets, HandleCall(targets), cpu' = CpuCalls
  PROVE  Follows'
<1>1. /\ cpu' \in Cpus
      /\ cpu'.sp = cpu.sp /\ cpu'.known = cpu.known
      /\ cpu'.regs = cpu.regs \ Clobbered /\ cpu'.stack \subseteq cpu.stack
  <2> DEFINE c == CpuMoves(0)
  <2>1. /\ c \in Cpus /\ c.sp = cpu.sp /\ c.known = cpu.known /\ c.regs = cpu.regs
        /\ c.stack \subseteq cpu.stack
    BY CpuMoveIs, CpuHas DEF Follows
  <2>2. cpu' = [c EXCEPT !.regs = @ \ Clobbered]
    BY DEF CpuCalls
  <2> HIDE DEF c
  <2> QED
    BY <2>1, <2>2 DEF Cpus
<1>2. regs' = regs \ Clobbered /\ UNCHANGED <<stack, spDelta, seen>>
  BY DEF HandleCall, ClearRegisters
<1> QED
  BY <1>1, <1>2 DEF Follows, CopiesFollowed

LEMMA NothingMoves ==
  ASSUME Follows, UNCHANGED <<regs, stack, spDelta, seen, cpu>>
  PROVE  Follows'
BY DEF Follows, CopiesFollowed

(* Every instruction of the scan keeps the trace beside the processor. *)
LEMMA OpFollows ==
  ASSUME Follows, NEW op \in Ops, Handles(op), cpu' = Executes(op)
  PROVE  Follows'
<1> DEFINE args == op.args
<1>1. args \in Seq(Operands)
  BY OperandsAssumption
<1> HIDE DEF args
<1>2. /\ Len(args) >= 2 => args[1] \in Operands /\ args[2] \in Operands
      /\ args # <<>> => args[1] \in Operands
  BY <1>1, ElementOfSeq, LenProperties, EmptySeq
<1>3. CASE op.mn \in Assigns /\ Len(args) >= 2
  <2>1. HandleAssignment(args[1], args[2]) /\ cpu' = CpuWrites(cpu, args[1], Holds(args[2]))
    BY <1>3 DEF Handles, Executes, Assigns, Mutates, Mutates1, args
  <2> QED
    BY <1>2, <1>3, <2>1, AssignFollows
<1>4. CASE op.mn = "lea" /\ Len(args) >= 2
  <2>1. /\ HandleAssignment(args[1], [args[2] EXCEPT !.kind = "addr"])
        /\ cpu' = CpuWrites(cpu, args[1], FALSE)
    BY <1>4 DEF Handles, Executes, Assigns, Mutates, Mutates1, Adjusts, args
  <2> QED
    BY <1>2, <1>4, <2>1, LeaFollows
<1>5. CASE op.mn = "push" /\ args # <<>>
  <2>1. /\ HandlePush(args[1])
        /\ cpu' = [cpu EXCEPT !.sp = @ - 1, !.stack = Mark(@, cpu.sp - 1, Holds(args[1]))]
    BY <1>5 DEF Handles, Executes, Assigns, Mutates, Mutates1, args
  <2> QED
    BY <1>2, <1>5, <2>1, PushFollows
<1>6. CASE op.mn = "pop" /\ args # <<>>
  <2>1. /\ HandlePop(args[1])
        /\ cpu' = CpuWrites(CpuMoves(1), args[1], cpu.sp \in cpu.stack)
    BY <1>6 DEF Handles, Executes, Assigns, Mutates, Mutates1, args
  <2> QED
    BY <1>2, <1>6, <2>1, PopFollows
<1>7. CASE op.mn \in Mutates /\ Len(args) >= 2
  <2>1. /\ HandleMutation(op.mn, args[1], args[2])
        /\ cpu' = IF Adjusts(op)
                  THEN CpuMoves(IF op.mn = "add" THEN args[2].val ELSE -args[2].val)
                  ELSE CpuWrites(cpu, args[1], FALSE)
    BY <1>7 DEF Handles, Executes, Assigns, Mutates, Mutates1, args
  <2>2. CASE Adjusts(op)
    <3>1. op.mn \in {"add", "sub"} /\ args[2].val \in Int
      BY <1>2, <1>7, <2>2, OperandIs DEF Adjusts, args
    <3>2. AdjustStackPointer(op.mn, args[2].val)
      BY <2>1, <2>2 DEF Adjusts, IsStackPointer, HandleMutation, args
    <3> QED
      BY <2>1, <2>2, <3>1, <3>2, AdjustFollows
  <2>3. CASE ~ Adjusts(op)
    <3>1. MutateDestination(args[1], {args[2]})
      BY <2>1, <2>3 DEF Adjusts, IsStackPointer, HandleMutation, args
    <3> QED
      BY <1>2, <1>7, <2>1, <2>3, <3>1, MutateFollows
  <2> QED
    BY <2>2, <2>3
<1>8. CASE op.mn \in Mutates1 /\ args # <<>>
  <2>1. MutateDestination(args[1], {}) /\ cpu' = CpuWrites(cpu, args[1], FALSE)
    BY <1>8 DEF Handles, Executes, Assigns, Mutates, Mutates1, args
  <2> QED
    BY <1>2, <1>8, <2>1, MutateFollows
<1>9. CASE op.mn = "call"
  <2>1. HandleCall(ToSet(SubSeq(args, 1, 1))) /\ cpu' = CpuCalls
    BY <1>9 DEF Handles, Executes, Assigns, Mutates, Mutates1, args
  <2> QED
    BY <2>1, CallFollows
<1>10. CASE op.mn = "jmp"
  <2>1. HandleJump(ToSet(SubSeq(args, 1, 1))) /\ cpu' = cpu
    BY <1>10 DEF Handles, Executes, Assigns, Mutates, Mutates1, args
  <2> QED
    BY <2>1, NothingMoves DEF HandleJump, tracked
<1>11. CASE /\ ~ (op.mn \in Assigns \cup Mutates \cup {"lea"} /\ Len(args) >= 2)
            /\ ~ (op.mn \in Mutates1 \cup {"push", "pop"} /\ args # <<>>)
            /\ op.mn \notin {"call", "jmp"}
  <2>1. IF op.type \in CallKinds THEN HandleCall({}) /\ cpu' = CpuCalls
        ELSE UNCHANGED <<tracked, log, cpu>>
    BY <1>11 DEF Handles, Executes, args
  <2> QED
    BY <2>1, CallFollows, NothingMoves DEF tracked
<1> QED
  BY <1>3, <1>4, <1>5, <1>6, <1>7, <1>8, <1>9, <1>10, <1>11

-----------------------------------------------------------------------------
(* The log *)

(* An event as the log keeps it. *)
SeedEvents == [at : Nat, kind : EventKinds]

(* The events kept are all there were, or the first ones and as many as may *)
(* be kept.                                                                *)
LogIsKept ==
  /\ events \in Seq(SeedEvents) /\ emitted \in Seq(SeedEvents)
  /\ Len(events) <= MaxEvents
  /\ Len(events) <= Len(emitted)
  /\ \A i \in 1 .. Len(events) : events[i] = emitted[i]
  /\ cut => Len(events) = MaxEvents
  /\ cut \in BOOLEAN
  /\ cut <=> Len(emitted) > Len(events)
  /\ lastEvent = IF emitted = <<>> THEN NoEvent ELSE emitted[Len(emitted)]
  /\ \/ /\ firstCT = NoEvent
        /\ \A i \in 1 .. Len(emitted) : emitted[i].kind \notin Transfers
     \/ \E i \in 1 .. Len(emitted) :
          /\ firstCT = emitted[i] /\ firstCT.kind \in Transfers
          /\ \A j \in 1 .. Len(emitted) : emitted[j].kind \in Transfers => i <= j

(* Emitting an event keeps the log right, cut or not. *)
LEMMA LogGrows ==
  ASSUME LogIsKept, scanned \in Nat, NEW kind \in EventKinds, PushEvent(kind)
  PROVE  LogIsKept'
<1> DEFINE e == Event(kind)
           n == Len(events)
           m == Len(emitted)
<1>1. e \in SeedEvents /\ e.kind = kind /\ e # NoEvent
  BY EventAssumption DEF SeedEvents, Event
<1>2. /\ lastEvent' = e /\ emitted' = Append(emitted, e)
      /\ IF n < MaxEvents THEN events' = Append(events, e) /\ cut' = cut
         ELSE cut' = TRUE /\ events' = events
      /\ firstCT' = IF kind \in Transfers /\ firstCT = NoEvent THEN e ELSE firstCT
  BY DEF PushEvent
<1>3. /\ events \in Seq(SeedEvents) /\ emitted \in Seq(SeedEvents)
      /\ n <= MaxEvents /\ n <= m /\ (cut => n = MaxEvents) /\ cut \in BOOLEAN
      /\ cut <=> m > n
      /\ \A i \in 1 .. n : events[i] = emitted[i]
  BY DEF LogIsKept
<1>4. n \in Nat /\ m \in Nat
  BY <1>3, LenProperties
<1> HIDE DEF e
<1>5. /\ emitted' \in Seq(SeedEvents) /\ Len(emitted') = m + 1 /\ emitted'[m + 1] = e
      /\ \A i \in 1 .. m : emitted'[i] = emitted[i]
  BY <1>1, <1>2, <1>3, AppendProperties
<1>6. /\ events' \in Seq(SeedEvents) /\ Len(events') <= MaxEvents
      /\ Len(events') <= Len(emitted')
      /\ \A i \in 1 .. Len(events') : events'[i] = emitted'[i]
      /\ cut' => Len(events') = MaxEvents
      /\ cut' \in BOOLEAN
      /\ cut' <=> Len(emitted') > Len(events')
  <2>1. CASE n < MaxEvents
    <3>1. n = m /\ cut' = cut /\ cut = FALSE
      BY <1>2, <1>3, <1>4, <2>1
    <3>2. /\ events' \in Seq(SeedEvents) /\ Len(events') = n + 1 /\ events'[n + 1] = e
          /\ \A i \in 1 .. n : events'[i] = events[i]
      BY <1>1, <1>2, <1>3, <2>1, AppendProperties
    <3>3. \A i \in 1 .. n + 1 : i = n + 1 \/ i \in 1 .. n
      BY <1>4
    <3> HIDE DEF n, m
    <3>4. \A i \in 1 .. n + 1 : events'[i] = emitted'[i]
      BY <1>3, <1>5, <3>1, <3>2, <3>3
    <3>5. MaxEvents \in Nat
      BY SeedTraceAssumption
    <3>6. n + 1 <= MaxEvents
      BY <1>4, <2>1, <3>5
    <3>7. cut' = FALSE
      BY <3>1
    <3>8. Len(events') = n + 1 /\ Len(emitted') = n + 1 /\ n \in Nat
      BY <1>4, <1>5, <3>1, <3>2
    <3>9. /\ Len(events') <= MaxEvents /\ Len(events') <= Len(emitted')
          /\ ~ (Len(emitted') > Len(events'))
      BY <3>5, <3>6, <3>8
    <3>10. \A i \in 1 .. Len(events') : events'[i] = emitted'[i]
      BY <3>4, <3>8
    <3> QED
      BY <3>2, <3>7, <3>9, <3>10, Zenon
  <2>2. CASE ~ (n < MaxEvents)
    <3>1. cut' = TRUE /\ events' = events /\ n = MaxEvents
      BY <1>2, <1>3, <1>4, <2>2, SeedTraceAssumption
    <3>2. \A i \in 1 .. n : i \in 1 .. m
      BY <1>3, <1>4
    <3>3. Len(events') = n
      BY <3>1
    <3> HIDE DEF n, m
    <3> QED
      BY <1>3, <1>4, <1>5, <3>1, <3>2, <3>3
  <2> QED
    BY <2>1, <2>2
<1>7. lastEvent' = IF emitted' = <<>> THEN NoEvent ELSE emitted'[Len(emitted')]
  <2>1. emitted' # <<>>
    BY <1>4, <1>5, EmptySeq
  <2> QED
    BY <1>2, <1>5, <2>1
<1>8. \/ /\ firstCT' = NoEvent
         /\ \A i \in 1 .. Len(emitted') : emitted'[i].kind \notin Transfers
      \/ \E i \in 1 .. Len(emitted') :
           /\ firstCT' = emitted'[i] /\ firstCT'.kind \in Transfers
           /\ \A j \in 1 .. Len(emitted') : emitted'[j].kind \in Transfers => i <= j
  <2>0. \A i \in 1 .. m + 1 : i = m + 1 \/ i \in 1 .. m
    BY <1>4
  <2>1. CASE /\ firstCT = NoEvent
             /\ \A i \in 1 .. m : emitted[i].kind \notin Transfers
    <3>1. CASE kind \in Transfers
      <4>1. firstCT' = e /\ m + 1 \in 1 .. m + 1
        BY <1>2, <1>4, <2>1, <3>1
      <4>2. \A j \in 1 .. m + 1 : emitted'[j].kind \in Transfers => m + 1 <= j
        BY <1>4, <1>5, <2>0, <2>1
      <4> HIDE DEF m
      <4> QED
        BY <1>1, <1>5, <3>1, <4>1, <4>2
    <3>2. CASE kind \notin Transfers
      <4>1. firstCT' = NoEvent
        BY <1>2, <2>1, <3>2
      <4>2. \A j \in 1 .. m + 1 : emitted'[j].kind \notin Transfers
        BY <1>1, <1>5, <2>0, <2>1, <3>2
      <4> HIDE DEF m
      <4> QED
        BY <1>5, <4>1, <4>2
    <3> QED
      BY <3>1, <3>2
  <2>2. CASE \E i \in 1 .. m :
               /\ firstCT = emitted[i] /\ firstCT.kind \in Transfers
               /\ \A j \in 1 .. m : emitted[j].kind \in Transfers => i <= j
    <3>1. PICK i \in 1 .. m :
            /\ firstCT = emitted[i] /\ firstCT.kind \in Transfers
            /\ \A j \in 1 .. m : emitted[j].kind \in Transfers => i <= j
      BY <2>2
    <3>2. emitted[i] \in SeedEvents
      BY <1>3, ElementOfSeq
    <3>3. firstCT' = firstCT
      BY <1>2, <3>1, <3>2, EventAssumption DEF SeedEvents
    <3>4. i \in 1 .. m + 1 /\ i <= m + 1
      BY <1>4
    <3>5. \A j \in 1 .. m + 1 : emitted'[j].kind \in Transfers => i <= j
      BY <1>5, <2>0, <3>1, <3>4
    <3> HIDE DEF m
    <3> QED
      BY <1>5, <3>1, <3>3, <3>4, <3>5
  <2> QED
    BY <2>1, <2>2 DEF LogIsKept
<1> QED
  BY <1>5, <1>6, <1>7, <1>8 DEF LogIsKept

LEMMA LogStays ==
  ASSUME LogIsKept, UNCHANGED log
  PROVE  LogIsKept'
BY DEF LogIsKept, log

LEMMA LogIsRight ==
  ASSUME LogIsKept
  PROVE  LogIsPrefix /\ Len(events) <= MaxEvents
<1>1. events \in Seq(SeedEvents) /\ emitted \in Seq(SeedEvents)
  BY DEF LogIsKept
<1>2. Len(events) \in Nat /\ Len(emitted) \in Nat /\ DOMAIN emitted = 1 .. Len(emitted)
  BY <1>1, LenProperties
<1>3. IsPrefix(events, emitted)
  <2> DEFINE n == Len(events)
             s == SubSeq(events, 1, n)
             t == SubSeq(emitted, 1, n)
  <2>1. n \in Nat /\ n <= Len(emitted) /\ n <= Len(events)
        /\ \A i \in 1 .. n : events[i] = emitted[i]
    BY <1>2 DEF LogIsKept
  <2>2. IsSeq(events) /\ IsSeq(emitted)
    BY <1>1 DEF IsSeq
  <2> HIDE DEF n
  <2>3. IsSeq(s) /\ Len(s) = n /\ \A i \in 1 .. n : s[i] = events[i]
    BY <2>1, <2>2, IsSeqPart
  <2>4. IsSeq(t) /\ Len(t) = n /\ \A i \in 1 .. n : t[i] = emitted[i]
    BY <2>1, <2>2, IsSeqPart
  <2> HIDE DEF s, t
  <2>5. \A i \in 1 .. Len(s) : s[i] = t[i]
    BY <2>1, <2>3, <2>4
  <2>6. s = t
    BY <2>3, <2>4, <2>5, SameSeq
  <2> QED
    BY <2>1, <2>6 DEF IsPrefix, n, s, t
<1>4. lastEvent = IF emitted = <<>> THEN NoEvent ELSE Last(emitted)
  BY DEF LogIsKept, Last
<1> DEFINE transfers == {i \in DOMAIN emitted : emitted[i].kind \in Transfers}
<1>5. IF transfers = {} THEN firstCT = NoEvent
      ELSE \E i \in transfers : firstCT = emitted[i] /\ \A j \in transfers : i <= j
  <2>1. CASE /\ firstCT = NoEvent
             /\ \A i \in 1 .. Len(emitted) : emitted[i].kind \notin Transfers
    BY <1>2, <2>1
  <2>2. CASE \E i \in 1 .. Len(emitted) :
               /\ firstCT = emitted[i] /\ firstCT.kind \in Transfers
               /\ \A j \in 1 .. Len(emitted) : emitted[j].kind \in Transfers => i <= j
    BY <1>2, <2>2
  <2> QED
    BY <2>1, <2>2 DEF LogIsKept
<1>6. (cut <=> Len(emitted) > Len(events)) /\ Len(events) <= MaxEvents
  BY DEF LogIsKept
<1> QED
  BY <1>3, <1>4, <1>5, <1>6 DEF LogIsPrefix

LEMMA OpLogs ==
  ASSUME LogIsKept, scanned \in Nat, NEW op \in Ops, Handles(op)
  PROVE  LogIsKept'
<1> DEFINE args == op.args
<1>1. ASSUME NEW kind \in EventKinds, NEW happens \in BOOLEAN, PushEventIf(happens, kind)
      PROVE  LogIsKept'
  BY <1>1, LogGrows, LogStays DEF PushEventIf
<1>2. ASSUME NEW kind \in EventKinds, NEW happens, PushEventIf(happens, kind)
      PROVE  LogIsKept'
  BY <1>2, LogGrows, LogStays DEF PushEventIf
<1> HIDE DEF args
<1> USE DEF EventKinds
<1>3. CASE op.mn \in Assigns /\ Len(args) >= 2
  <2>1. HandleAssignment(args[1], args[2])
    BY <1>3 DEF Handles, Assigns, Mutates, Mutates1, args
  <2> QED
    BY <1>2, <2>1 DEF HandleAssignment
<1>4. CASE op.mn = "lea" /\ Len(args) >= 2
  <2>1. HandleAssignment(args[1], [args[2] EXCEPT !.kind = "addr"])
    BY <1>4 DEF Handles, Assigns, Mutates, Mutates1, args
  <2> QED
    BY <1>2, <2>1 DEF HandleAssignment
<1>5. CASE op.mn = "push" /\ args # <<>>
  <2>1. HandlePush(args[1])
    BY <1>5 DEF Handles, Assigns, Mutates, Mutates1, args
  <2> QED
    BY <1>2, <2>1 DEF HandlePush
<1>6. CASE op.mn = "pop" /\ args # <<>>
  <2>1. HandlePop(args[1])
    BY <1>6 DEF Handles, Assigns, Mutates, Mutates1, args
  <2> QED
    BY <1>2, <2>1 DEF HandlePop
<1>7. CASE op.mn \in Mutates /\ Len(args) >= 2
  <2>1. HandleMutation(op.mn, args[1], args[2])
    BY <1>7 DEF Handles, Assigns, Mutates, Mutates1, args
  <2>2. AdjustStackPointer(op.mn, args[2].val) \/ MutateDestination(args[1], {args[2]})
    BY <2>1 DEF HandleMutation
  <2> QED
    BY <1>2, <2>2, LogStays DEF AdjustStackPointer, MutateDestination
<1>8. CASE op.mn \in Mutates1 /\ args # <<>>
  <2>1. MutateDestination(args[1], {})
    BY <1>8 DEF Handles, Assigns, Mutates, Mutates1, args
  <2> QED
    BY <1>2, <2>1 DEF MutateDestination
<1>9. CASE op.mn = "call"
  <2>1. HandleCall(ToSet(SubSeq(args, 1, 1)))
    BY <1>9 DEF Handles, Assigns, Mutates, Mutates1, args
  <2> QED
    BY <1>2, <2>1 DEF HandleCall
<1>10. CASE op.mn = "jmp"
  <2>1. HandleJump(ToSet(SubSeq(args, 1, 1)))
    BY <1>10 DEF Handles, Assigns, Mutates, Mutates1, args
  <2> QED
    BY <1>2, <2>1 DEF HandleJump
<1>11. CASE /\ ~ (op.mn \in Assigns \cup Mutates \cup {"lea"} /\ Len(args) >= 2)
            /\ ~ (op.mn \in Mutates1 \cup {"push", "pop"} /\ args # <<>>)
            /\ op.mn \notin {"call", "jmp"}
  <2>1. IF op.type \in CallKinds THEN HandleCall({}) ELSE UNCHANGED <<tracked, log>>
    BY <1>11 DEF Handles, args
  <2> QED
    BY <1>2, <2>1, LogStays DEF HandleCall
<1> QED
  BY <1>3, <1>4, <1>5, <1>6, <1>7, <1>8, <1>9, <1>10, <1>11

-----------------------------------------------------------------------------
(* A trace of nothing *)

LEMMA NothingResolves ==
  ASSUME NothingTracked, NEW o, o \in Operands \/ o.kind = "addr"
  PROVE  ~ Resolves(o) /\ ~ Mentions(o)
BY OperandIs DEF NothingTracked, Resolves, Mentions

(* Without anything tracked, and nothing on the stack, no event appears. *)
LEMMA OpStartsNothing ==
  ASSUME NothingTracked, NEW op \in Ops, Handles(op)
  PROVE  NothingTracked' /\ emitted' = emitted
<1> DEFINE args == op.args
<1>1. args \in Seq(Operands)
  BY OperandsAssumption
<1> HIDE DEF args
<1>2. /\ Len(args) >= 2 => args[1] \in Operands /\ args[2] \in Operands
      /\ args # <<>> => args[1] \in Operands
  BY <1>1, ElementOfSeq, LenProperties, EmptySeq
<1>13. regs = {} /\ stack = {} /\ memory = {}
  BY DEF NothingTracked
<1>14. ASSUME NEW dst, NEW src, HandleAssignment(dst, src), ~ Resolves(src), ~ Mentions(src)
       PROVE  NothingTracked' /\ emitted' = emitted
  BY <1>13, <1>14 DEF HandleAssignment, WriteDestination, Mark, PushEventIf, log, NothingTracked
<1>15. ASSUME NEW dst, NEW sources, MutateDestination(dst, sources),
              \A src \in sources : ~ Resolves(src) /\ ~ Mentions(src)
       PROVE  NothingTracked' /\ emitted' = emitted
  BY <1>13, <1>15 DEF MutateDestination, PushEventIf, log, NothingTracked
<1>16. ASSUME NEW targets, HandleCall(targets), \A t \in targets : ~ Resolves(t)
       PROVE  NothingTracked' /\ emitted' = emitted
  BY <1>13, <1>16 DEF HandleCall, ClearRegisters, PushEventIf, log, NothingTracked
<1>17. \A t \in ToSet(SubSeq(args, 1, 1)) : ~ Resolves(t)
  <2>1. CASE args = <<>>
    <3>1. SubSeq(args, 1, 1) = <<>>
      BY <2>1
    <3>2. DOMAIN (<<>>) = {}
      OBVIOUS
    <3> QED
      BY <3>1, <3>2 DEF ToSet
  <2>2. CASE args # <<>>
    <3>1. Len(args) \in Nat /\ 1 <= Len(args)
      BY <1>1, <2>2, LenProperties, EmptySeq
    <3>2. IsSeq(args)
      BY <1>1 DEF IsSeq
    <3>3. /\ IsSeq(SubSeq(args, 1, 1)) /\ Len(SubSeq(args, 1, 1)) = 1
          /\ \A i \in 1 .. 1 : SubSeq(args, 1, 1)[i] = args[i]
      BY <3>1, <3>2, IsSeqPart
    <3>4. \A t \in ToSet(SubSeq(args, 1, 1)) : t = args[1]
      BY <3>3, SeqIs DEF ToSet
    <3> QED
      BY <1>2, <2>2, <3>4, NothingResolves
  <2> QED
    BY <2>1, <2>2
<1>3. CASE op.mn \in Assigns /\ Len(args) >= 2
  <2>1. HandleAssignment(args[1], args[2])
    BY <1>3 DEF Handles, Assigns, Mutates, Mutates1, args
  <2> QED
    BY <1>2, <1>3, <1>14, <2>1, NothingResolves
<1>4. CASE op.mn = "lea" /\ Len(args) >= 2
  <2>1. HandleAssignment(args[1], [args[2] EXCEPT !.kind = "addr"])
    BY <1>4 DEF Handles, Assigns, Mutates, Mutates1, args
  <2>2. [args[2] EXCEPT !.kind = "addr"].kind = "addr"
    BY <1>2, <1>4 DEF Operands
  <2> QED
    BY <1>14, <2>1, <2>2, NothingResolves
<1>5. CASE op.mn = "push" /\ args # <<>>
  <2>1. HandlePush(args[1])
    BY <1>5 DEF Handles, Assigns, Mutates, Mutates1, args
  <2>2. ~ Resolves(args[1])
    BY <1>2, <1>5, NothingResolves
  <2> QED
    BY <1>13, <2>1, <2>2 DEF HandlePush, PushEventIf, log, NothingTracked
<1>6. CASE op.mn = "pop" /\ args # <<>>
  <2>1. HandlePop(args[1])
    BY <1>6 DEF Handles, Assigns, Mutates, Mutates1, args
  <2> QED
    BY <1>13, <2>1 DEF HandlePop, PushEventIf, log, NothingTracked
<1>7. CASE op.mn \in Mutates /\ Len(args) >= 2
  <2>1. HandleMutation(op.mn, args[1], args[2])
    BY <1>7 DEF Handles, Assigns, Mutates, Mutates1, args
  <2>2. CASE AdjustStackPointer(op.mn, args[2].val)
    BY <1>13, <2>2 DEF AdjustStackPointer, log, NothingTracked
  <2>3. CASE MutateDestination(args[1], {args[2]})
    BY <1>2, <1>7, <1>15, <2>3, NothingResolves
  <2> QED
    BY <2>1, <2>2, <2>3 DEF HandleMutation
<1>8. CASE op.mn \in Mutates1 /\ args # <<>>
  <2>1. MutateDestination(args[1], {})
    BY <1>8 DEF Handles, Assigns, Mutates, Mutates1, args
  <2> QED
    BY <1>15, <2>1
<1>9. CASE op.mn = "call"
  <2>1. HandleCall(ToSet(SubSeq(args, 1, 1)))
    BY <1>9 DEF Handles, Assigns, Mutates, Mutates1, args
  <2> QED
    BY <1>16, <1>17, <2>1
<1>10. CASE op.mn = "jmp"
  <2>1. HandleJump(ToSet(SubSeq(args, 1, 1)))
    BY <1>10 DEF Handles, Assigns, Mutates, Mutates1, args
  <2> QED
    BY <1>13, <1>17, <2>1 DEF HandleJump, PushEventIf, log, tracked, NothingTracked
<1>11. CASE /\ ~ (op.mn \in Assigns \cup Mutates \cup {"lea"} /\ Len(args) >= 2)
            /\ ~ (op.mn \in Mutates1 \cup {"push", "pop"} /\ args # <<>>)
            /\ op.mn \notin {"call", "jmp"}
  <2>1. IF op.type \in CallKinds THEN HandleCall({}) ELSE UNCHANGED <<tracked, log>>
    BY <1>11 DEF Handles, args
  <2> QED
    BY <1>13, <1>16, <2>1 DEF log, tracked, NothingTracked
<1> QED
  BY <1>3, <1>4, <1>5, <1>6, <1>7, <1>8, <1>9, <1>10, <1>11

-----------------------------------------------------------------------------
(* The whole trace *)

(* What is true of a trace between any two of its steps. *)
SeedInv ==
  /\ Follows /\ LogIsKept
  /\ stPc \in {"idle", "scan", "done", "refused"}
  /\ stPc = "idle" => cpu.sp = 0 /\ spDelta = 0 /\ ~ cut
  /\ window \in 0 .. MaxScanned /\ scanned \in 0 .. window

LEMMA SeedInitInv ==
  ASSUME SeedInit
  PROVE  SeedInv
<1>1. Follows
  BY DEF SeedInit, Follows, Cpus, CopiesFollowed
<1>2. LogIsKept
  <2>1. <<>> \in Seq(SeedEvents) /\ Len(<<>>) = 0 /\ 1 .. 0 = {} /\ 0 <= MaxEvents
    BY EmptySeq, SeedTraceAssumption
  <2>2. /\ events = <<>> /\ emitted = <<>> /\ cut = FALSE
        /\ firstCT = NoEvent /\ lastEvent = NoEvent
    BY DEF SeedInit
  <2>3. Len(events) = 0 /\ Len(emitted) = 0
    BY <2>1, <2>2
  <2>4. /\ \A i \in 1 .. Len(events) : events[i] = emitted[i]
        /\ \A i \in 1 .. Len(emitted) : emitted[i].kind \notin Transfers
    BY <2>1, <2>3
  <2>5. events \in Seq(SeedEvents) /\ emitted \in Seq(SeedEvents)
    BY <2>1, <2>2
  <2>6. /\ Len(events) <= MaxEvents /\ Len(events) <= Len(emitted)
        /\ ~ (Len(emitted) > Len(events))
    BY <2>1, <2>3
  <2> QED
    BY <2>2, <2>4, <2>5, <2>6, Zenon DEF LogIsKept
<1> QED
  BY <1>1, <1>2, SeedTraceAssumption DEF SeedInit, SeedInv

(* Every step keeps the invariant, and starts nothing from nothing. *)
LEMMA SeedStepInv ==
  ASSUME SeedInv, [SeedNext]_stVars
  PROVE  SeedInv' /\ [NothingFromNothing]_stVars
<1>1. CASE SeedStart
  <2>1. PICK seeds \in Seeds :
          LET Of(kind) == {seed \in seeds : seed.kind = kind}
              r == {seed.name : seed \in Of("reg")}
              s == {seed.off : seed \in Of("slot")}
          IN  /\ regs' = r
              /\ seen' = r
              /\ stack' = s
              /\ cpu' = [regs |-> r, stack |-> s, sp |-> 0, known |-> TRUE]
              /\ stPc' \in {"scan", "refused"}
    BY <1>1 DEF SeedStart
  <2> DEFINE r == {seed.name : seed \in {q \in seeds : q.kind = "reg"}}
             s == {seed.off : seed \in {q \in seeds : q.kind = "slot"}}
  <2>2. r \subseteq Registers /\ s \subseteq Int
    <3>1. seeds \subseteq Operands
      BY OperandsAssumption
    <3> QED
      BY <3>1, OperandIs
  <2>3. /\ regs' = r /\ seen' = r /\ stack' = s
        /\ cpu' = [regs |-> r, stack |-> s, sp |-> 0, known |-> TRUE]
        /\ stPc' \in {"scan", "refused"}
    BY <2>1
  <2> HIDE DEF r, s
  <2>4. UNCHANGED <<window, scanned, spDelta, log>>
    BY <1>1 DEF SeedStart
  <2>5. spDelta = 0 /\ stPc = "idle"
    BY <1>1 DEF SeedInv, SeedStart
  <2>6. Follows'
    BY <2>2, <2>3, <2>4, <2>5 DEF Follows, Cpus, CopiesFollowed
  <2>7. LogIsKept'
    BY <2>4, LogStays DEF SeedInv
  <2> QED
    BY <2>3, <2>4, <2>5, <2>6, <2>7 DEF SeedInv, NothingFromNothing
<1>2. CASE ScanSkips
  <2>1. stPc = "scan" /\ window < MaxScanned /\ window' = window + 1
        /\ UNCHANGED <<stPc, scanned, tracked, log, cpu>>
    BY <1>2 DEF ScanSkips
  <2>2. Follows' /\ LogIsKept'
    BY <2>1, NothingMoves, LogStays DEF SeedInv, tracked
  <2>3. window' \in 0 .. MaxScanned /\ scanned' \in 0 .. window'
    BY <2>1, SeedTraceAssumption DEF SeedInv
  <2> QED
    BY <2>1, <2>2, <2>3 DEF SeedInv, NothingFromNothing, NothingTracked, tracked, log
<1>3. CASE ScanOp
  <2>1. PICK op \in Ops : /\ Handles(op) /\ cpu' = Executes(op)
                          /\ stPc' \in {"done", "scan"}
    BY <1>3 DEF ScanOp
  <2>2. stPc = "scan" /\ window < MaxScanned /\ window' = window + 1 /\ scanned' = scanned + 1
    BY <1>3 DEF ScanOp
  <2>3. scanned \in Nat /\ window' \in 0 .. MaxScanned /\ scanned' \in 0 .. window'
    BY <2>2, SeedTraceAssumption DEF SeedInv
  <2>4. Follows' /\ LogIsKept'
    BY <2>1, <2>3, OpFollows, OpLogs DEF SeedInv
  <2>5. NothingTracked => NothingTracked' /\ emitted' = emitted
    BY <2>1, OpStartsNothing
  <2> QED
    BY <2>1, <2>3, <2>4, <2>5 DEF SeedInv, NothingFromNothing
<1>4. CASE ScanEnds \/ UNCHANGED stVars
  <2>1. /\ stPc' \in {stPc, "done"} /\ (stPc' = "idle" => stPc = "idle")
        /\ UNCHANGED <<window, scanned, tracked, log, cpu>>
    BY <1>4 DEF ScanEnds, stVars, tracked, log
  <2>2. Follows' /\ LogIsKept'
    BY <2>1, NothingMoves, LogStays DEF SeedInv, tracked
  <2> QED
    BY <2>1, <2>2 DEF SeedInv, NothingFromNothing, NothingTracked, tracked, log
<1> QED
  BY <1>1, <1>2, <1>3, <1>4 DEF SeedNext

(* The invariant holds the properties that are checked of a trace. *)
LEMMA SeedInvIsEnough ==
  ASSUME SeedInv
  PROVE  SeedTypeOK /\ CopiesFollowedInStep /\ LogIsPrefix
<1>1. LogIsPrefix /\ Len(events) <= MaxEvents
  BY LogIsRight DEF SeedInv
<1>2. CopiesFollowedInStep
  BY DEF SeedInv, Follows, CopiesFollowedInStep
<1> QED
  BY <1>1, <1>2 DEF SeedInv, SeedTypeOK, Follows

-----------------------------------------------------------------------------
(***************************************************************************)
(* FieldXrefs: the fields of an object.                                    *)
(***************************************************************************)

Accesses == {"read", "write", "read_write"}

Summaries == [read : Nat, write : Nat, read_write : Nat, addresses : Seq(Nat)]

KeyOf(ref) == At(ref.object, ref.off)

(* References, as far as counting them needs. *)
FieldRefs(s) == /\ IsSeq(s)
                /\ \A i \in 1 .. Len(s) : s[i].at \in Nat /\ s[i].access \in Accesses

LEMMA SummaryHas ==
  ASSUME NEW s \in Summaries, NEW a \in Accesses
  PROVE  s[a] \in Nat /\ s.addresses \in Seq(Nat)
BY DEF Summaries, Accesses

IsTable(fs) == fs = [f \in DOMAIN fs |-> fs[f]] /\ \A f \in DOMAIN fs : fs[f] \in Summaries

(* What the summary of the reference's field was before it. *)
Before(fs, ref) == IF KeyOf(ref) \in DOMAIN fs THEN fs[KeyOf(ref)] ELSE NoSummary

LEMMA BumpIs ==
  ASSUME NEW fs, IsTable(fs), NEW ref, ref.at \in Nat, ref.access \in Accesses
  PROVE  LET g == BumpField(fs, ref)
             had == Before(fs, ref)
             new == g[KeyOf(ref)]
         IN  /\ IsTable(g) /\ DOMAIN g = DOMAIN fs \cup {KeyOf(ref)}
             /\ \A f \in DOMAIN fs : f # KeyOf(ref) => g[f] = fs[f]
             /\ had \in Summaries
             /\ new[ref.access] = had[ref.access] + 1
             /\ \A a \in Accesses : a # ref.access => new[a] = had[a]
             /\ Len(new.addresses) = IF Len(had.addresses) < PreviewRows
                                     THEN Len(had.addresses) + 1 ELSE Len(had.addresses)
<1> DEFINE key == KeyOf(ref)
           had == Before(fs, ref)
           a == ref.access
           kept == IF Len(had.addresses) < PreviewRows THEN Append(had.addresses, ref.at)
                   ELSE had.addresses
           new == [had EXCEPT ![a] = had[a] + 1, !.addresses = kept]
           g == BumpField(fs, ref)
<1>1. had \in Summaries
  <2>1. NoSummary \in Summaries
    BY EmptySeq DEF NoSummary, Summaries
  <2> QED
    BY <2>1 DEF Before, IsTable
<1>2. g = [f \in DOMAIN fs \cup {key} |-> IF f = key THEN new ELSE fs[f]]
  BY DEF BumpField, Before, KeyOf
<1> HIDE DEF had, g, key
<1>3. had[a] + 1 \in Nat /\ had.addresses \in Seq(Nat)
  BY <1>1, SummaryHas
<1>4. /\ kept \in Seq(Nat)
      /\ Len(kept) = IF Len(had.addresses) < PreviewRows
                     THEN Len(had.addresses) + 1 ELSE Len(had.addresses)
  BY <1>3, AppendProperties
<1> HIDE DEF kept
<1>5. /\ new \in Summaries /\ new.addresses = kept /\ new[a] = had[a] + 1
      /\ \A b \in Accesses : b # a => new[b] = had[b]
  <2> DEFINE n == had[a] + 1
  <2>1. a \in Accesses /\ n \in Nat
    BY <1>3
  <2>2. new = [had EXCEPT ![a] = n, !.addresses = kept]
    OBVIOUS
  <2> HIDE DEF a, n, new
  <2>3. /\ new \in Summaries /\ new.addresses = kept /\ new[a] = n
        /\ \A b \in Accesses : b # a => new[b] = had[b]
    BY <1>1, <1>4, <2>1, <2>2 DEF Summaries, Accesses
  <2> QED
    BY <2>3 DEF n
<1> HIDE DEF new
<1>6. DOMAIN g = DOMAIN fs \cup {key} /\ g[key] = new
      /\ \A f \in DOMAIN fs : f # key => g[f] = fs[f]
  BY <1>2
<1>7. IsTable(g)
  BY <1>2, <1>5, <1>6 DEF IsTable
<1> QED
  BY <1>1, <1>4, <1>5, <1>6, <1>7 DEF had, g, key

-----------------------------------------------------------------------------
(* Counting references *)

(* The references to field f with access a among the first n. *)
Hits(refs, f, a, n) == {j \in 1 .. n : KeyOf(refs[j]) = f /\ refs[j].access = a}

LEMMA HitsAreFinite ==
  ASSUME NEW refs, NEW f, NEW a, NEW n \in Nat
  PROVE  /\ IsFiniteSet(Hits(refs, f, a, n)) /\ Cardinality(Hits(refs, f, a, n)) \in Nat
         /\ (\A i \in 1 .. n : KeyOf(refs[i]) # f) => Cardinality(Hits(refs, f, a, n)) = 0
<1>1. IsFiniteSet(1 .. n)
  BY FS_Interval
<1>2. IsFiniteSet(Hits(refs, f, a, n))
  BY <1>1, FS_Subset DEF Hits
<1>3. (\A i \in 1 .. n : KeyOf(refs[i]) # f) => Hits(refs, f, a, n) = {}
  BY DEF Hits
<1> QED
  BY <1>2, <1>3, FS_CardinalityType, FS_EmptySet

LEMMA OneHitMore ==
  ASSUME NEW refs, NEW f, NEW a, NEW n \in Nat
  PROVE  Cardinality(Hits(refs, f, a, n + 1))
           = IF KeyOf(refs[n + 1]) = f /\ refs[n + 1].access = a
             THEN Cardinality(Hits(refs, f, a, n)) + 1
             ELSE Cardinality(Hits(refs, f, a, n))
<1> DEFINE new == KeyOf(refs[n + 1]) = f /\ refs[n + 1].access = a
<1>1. n + 1 \notin Hits(refs, f, a, n)
  BY DEF Hits
<1>2. Hits(refs, f, a, n + 1) = Hits(refs, f, a, n) \cup (IF new THEN {n + 1} ELSE {})
  <2>1. \A j : j \in 1 .. n + 1 <=> j \in 1 .. n \/ j = n + 1
    OBVIOUS
  <2> QED
    BY <2>1 DEF Hits
<1>3. IsFiniteSet(Hits(refs, f, a, n))
  BY HitsAreFinite
<1>4. CASE new
  <2>1. Hits(refs, f, a, n + 1) = Hits(refs, f, a, n) \cup {n + 1}
    BY <1>2, <1>4
  <2>2. Cardinality(Hits(refs, f, a, n) \cup {n + 1}) = Cardinality(Hits(refs, f, a, n)) + 1
    BY <1>1, <1>3, FS_AddElement
  <2> QED
    BY <1>4, <2>1, <2>2
<1>5. CASE ~ new
  <2>1. Hits(refs, f, a, n + 1) = Hits(refs, f, a, n)
    BY <1>2, <1>5
  <2> QED
    BY <1>5, <2>1
<1> QED
  BY <1>4, <1>5

(* The table counts the first n references. *)
Counted(fs, refs, n) ==
  /\ IsTable(fs)
  /\ \A f : f \in DOMAIN fs <=> \E i \in 1 .. n : KeyOf(refs[i]) = f
  /\ \A f \in DOMAIN fs :
       /\ Len(fs[f].addresses) \in 1 .. PreviewRows
       /\ \A a \in Accesses : fs[f][a] = Cardinality(Hits(refs, f, a, n))

LEMMA BumpCounts ==
  ASSUME NEW fs, NEW refs, NEW n \in Nat, Counted(fs, refs, n),
         refs[n + 1].at \in Nat, refs[n + 1].access \in Accesses
  PROVE  Counted(BumpField(fs, refs[n + 1]), refs, n + 1)
<1> DEFINE ref == refs[n + 1]
           key == KeyOf(ref)
           g == BumpField(fs, ref)
           had == Before(fs, ref)
<1>0. IsTable(fs)
  BY DEF Counted
<1>6. ref.at \in Nat /\ ref.access \in Accesses
  OBVIOUS
<1> HIDE DEF g, had, ref
<1>1. /\ IsTable(g) /\ DOMAIN g = DOMAIN fs \cup {key}
      /\ \A f \in DOMAIN fs : f # key => g[f] = fs[f]
      /\ had \in Summaries
      /\ g[key][ref.access] = had[ref.access] + 1
      /\ \A a \in Accesses : a # ref.access => g[key][a] = had[a]
      /\ Len(g[key].addresses) = IF Len(had.addresses) < PreviewRows
                                 THEN Len(had.addresses) + 1 ELSE Len(had.addresses)
  BY <1>0, <1>6, BumpIs DEF g, had
<1>2. \A f : f \in DOMAIN g <=> \E i \in 1 .. n + 1 : KeyOf(refs[i]) = f
  <2>1. \A i \in 1 .. n + 1 : i = n + 1 \/ i \in 1 .. n
    OBVIOUS
  <2>2. n + 1 \in 1 .. n + 1 /\ \A i \in 1 .. n : i \in 1 .. n + 1
    OBVIOUS
  <2>3. \A f : f \in DOMAIN fs <=> \E i \in 1 .. n : KeyOf(refs[i]) = f
    BY DEF Counted
  <2> QED
    BY <1>1, <2>1, <2>2, <2>3 DEF ref
<1>3. ASSUME NEW f \in DOMAIN g
      PROVE  /\ Len(g[f].addresses) \in 1 .. PreviewRows
             /\ \A a \in Accesses : g[f][a] = Cardinality(Hits(refs, f, a, n + 1))
  <2>1. CASE f # key
    <3>1. f \in DOMAIN fs /\ g[f] = fs[f]
      BY <1>1, <2>1
    <3>2. \A a \in Accesses : Cardinality(Hits(refs, f, a, n + 1)) = Cardinality(Hits(refs, f, a, n))
      BY <2>1, OneHitMore DEF ref
    <3> QED
      BY <3>1, <3>2 DEF Counted
  <2>2. CASE f = key
    <3>1. /\ \A a \in Accesses : had[a] = Cardinality(Hits(refs, key, a, n))
          /\ Len(had.addresses) \in 0 .. PreviewRows
      <4>1. CASE key \in DOMAIN fs
        <5>1. had = fs[key]
          BY <4>1 DEF had, Before
        <5>2. /\ Len(fs[key].addresses) \in 1 .. PreviewRows
              /\ \A a \in Accesses : fs[key][a] = Cardinality(Hits(refs, key, a, n))
          BY <4>1 DEF Counted
        <5> QED
          BY <5>1, <5>2
      <4>2. CASE key \notin DOMAIN fs
        <5>1. had = NoSummary
          BY <4>2 DEF had, Before
        <5>2. \A i \in 1 .. n : KeyOf(refs[i]) # key
          BY <4>2 DEF Counted
        <5>3. \A a \in Accesses : Cardinality(Hits(refs, key, a, n)) = 0
          BY <5>2, HitsAreFinite
        <5>4. \A a \in Accesses : had[a] = 0
          BY <5>1 DEF NoSummary, Accesses
        <5>5. Len(had.addresses) = 0
          BY <5>1, EmptySeq DEF NoSummary
        <5> QED
          BY <5>3, <5>4, <5>5, FieldXrefsAssumption
      <4> QED
        BY <4>1, <4>2
    <3>2. Len(g[key].addresses) \in 1 .. PreviewRows
      BY <1>1, <3>1, FieldXrefsAssumption
    <3>3. \A a \in Accesses : g[key][a] = Cardinality(Hits(refs, key, a, n + 1))
      <4> TAKE a \in Accesses
      <4>1. Cardinality(Hits(refs, key, a, n + 1))
              = IF ref.access = a THEN Cardinality(Hits(refs, key, a, n)) + 1
                ELSE Cardinality(Hits(refs, key, a, n))
        BY OneHitMore DEF ref
      <4> QED
        BY <1>1, <3>1, <4>1
    <3> QED
      BY <2>2, <3>2, <3>3
  <2> QED
    BY <2>1, <2>2
<1> QED
  BY <1>1, <1>2, <1>3 DEF Counted, g, ref

(* All tables with keys in K. *)
Tables(K) == UNION {[D -> Summaries] : D \in SUBSET K}

LEMMA TablesAre ==
  ASSUME NEW K, NEW fs
  PROVE  fs \in Tables(K) <=> IsTable(fs) /\ DOMAIN fs \subseteq K
<1>1. ASSUME fs \in Tables(K) PROVE IsTable(fs) /\ DOMAIN fs \subseteq K
  <2>1. PICK D \in SUBSET K : fs \in [D -> Summaries]
    BY <1>1 DEF Tables
  <2> QED
    BY <2>1 DEF IsTable
<1>2. ASSUME IsTable(fs), DOMAIN fs \subseteq K PROVE fs \in Tables(K)
  <2>1. fs \in [DOMAIN fs -> Summaries]
    BY <1>2 DEF IsTable
  <2> QED
    BY <1>2, <2>1 DEF Tables
<1> QED
  BY <1>1, <1>2

LEMMA BumpRows ==
  ASSUME NEW fs, IsTable(fs), NEW refs, FieldRefs(refs)
  PROVE  \E rows : /\ rows[0] = fs /\ \A n \in 0 .. Len(refs) : IsTable(rows[n])
                   /\ \A n \in 1 .. Len(refs) : rows[n] = BumpField(rows[n - 1], refs[n])
                   /\ BumpFields(fs, refs) = rows[Len(refs)]
<1> DEFINE len == Len(refs)
           K == DOMAIN fs \cup {KeyOf(refs[i]) : i \in 1 .. len}
           V == Tables(K)
           step == [n \in 1 .. len |-> [v \in V |-> BumpField(v, refs[n])]]
           Rows(h) == [n \in 0 .. len |-> IF n = 0 THEN fs ELSE BumpField(h[n - 1], refs[n])]
<1>1. len \in Nat
  BY SeqIs DEF FieldRefs
<1>2. fs \in V
  BY TablesAre
<1>3. \A n \in 1 .. len, v \in V : BumpField(v, refs[n]) \in V
  <2> TAKE n \in 1 .. len, v \in V
  <2>1. IsTable(v) /\ DOMAIN v \subseteq K /\ KeyOf(refs[n]) \in K
    BY TablesAre
  <2>2. refs[n].at \in Nat /\ refs[n].access \in Accesses
    BY DEF FieldRefs
  <2> DEFINE g == BumpField(v, refs[n])
  <2>3. IsTable(g) /\ DOMAIN g = DOMAIN v \cup {KeyOf(refs[n])}
    BY <2>1, <2>2, BumpIs
  <2> HIDE DEF g, K
  <2>4. g \in V
    BY <2>1, <2>3, TablesAre
  <2> QED
    BY <2>4 DEF g
<1> HIDE DEF V
<1>4. step \in [1 .. len -> [V -> V]]
  BY <1>3
<1>5. PICK h \in [0 .. len -> V] :
        h[0] = fs /\ \A k \in 1 .. len : h[k] = step[k][h[k - 1]]
  <2> HIDE DEF step, len
  <2>1. PICK h : Stepwise(h, len, V, fs, step)
    BY <1>1, <1>2, <1>4, StepByStep
  <2> QED
    BY <2>1 DEF Stepwise
<1>6. \A k \in 1 .. len : h[k] = BumpField(h[k - 1], refs[k])
  <2> TAKE k \in 1 .. len
  <2>1. h[k - 1] \in V
    BY <1>1, <1>5
  <2> QED
    BY <1>5, <2>1
<1> HIDE DEF step
<1>7. h = Rows(h)
  <2>1. h = [n \in 0 .. len |-> h[n]]
    BY <1>5
  <2>2. \A n \in 0 .. len : h[n] = IF n = 0 THEN fs ELSE BumpField(h[n - 1], refs[n])
    <3> TAKE n \in 0 .. len
    <3>1. n = 0 \/ n \in 1 .. len
      BY <1>1
    <3> QED
      BY <1>5, <1>6, <3>1
  <2> QED
    BY <2>1, <2>2, Zenon
<1> DEFINE M == CHOOSE m : m = Rows(m)
<1>8. M = Rows(M)
  BY <1>7
<1>9. BumpFields(fs, refs) = M[len]
  BY DEF BumpFields
<1> HIDE DEF M
<1>10. M[0] = fs /\ \A n \in 1 .. len : M[n] = BumpField(M[n - 1], refs[n])
  <2>1. 0 \in 0 .. len /\ \A n \in 1 .. len : n \in 0 .. len /\ n # 0
    BY <1>1
  <2>2. \A n \in 0 .. len : M[n] = IF n = 0 THEN fs ELSE BumpField(M[n - 1], refs[n])
    BY <1>8, Zenon
  <2> QED
    BY <2>1, <2>2
<1>11. \A n \in 0 .. len : M[n] \in V
  <2> DEFINE S == {n \in 0 .. len : M[n] \in V}
  <2>1. 0 \in S
    BY <1>1, <1>2, <1>10
  <2>2. \A n \in 1 .. len : n - 1 \in S => n \in S
    BY <1>3, <1>10
  <2> HIDE DEF S
  <2>3. \A n \in 0 .. len : n \in S
    BY <1>1, <2>1, <2>2, ClimbTo
  <2> QED
    BY <2>3 DEF S
<1>12. \A n \in 0 .. len : IsTable(M[n])
  BY <1>11, TablesAre DEF V
<1> QED
  BY <1>9, <1>10, <1>12

(* A table that counts the references so far counts the next ones too. *)
LEMMA BumpFieldsCount ==
  ASSUME NEW fs, NEW all, NEW had \in Nat, Counted(fs, all, had),
         NEW refs, FieldRefs(refs), \A i \in 1 .. Len(refs) : all[had + i] = refs[i]
  PROVE  Counted(BumpFields(fs, refs), all, had + Len(refs))
<1> DEFINE len == Len(refs)
<1>1. len \in Nat
  BY SeqIs DEF FieldRefs
<1>2. PICK rows :
        /\ rows[0] = fs /\ \A n \in 0 .. len : IsTable(rows[n])
        /\ \A n \in 1 .. len : rows[n] = BumpField(rows[n - 1], refs[n])
        /\ BumpFields(fs, refs) = rows[len]
  BY BumpRows DEF Counted
<1> DEFINE S == {n \in 0 .. len : Counted(rows[n], all, had + n)}
<1>3. 0 \in S
  BY <1>1, <1>2
<1>4. \A n \in 1 .. len : n - 1 \in S => n \in S
  <2> SUFFICES ASSUME NEW n \in 1 .. len, n - 1 \in S PROVE n \in S
    OBVIOUS
  <2> DEFINE m == had + (n - 1)
  <2>1. m \in Nat /\ m + 1 = had + n
    BY <1>1
  <2>2. all[m + 1] = refs[n] /\ refs[n].at \in Nat /\ refs[n].access \in Accesses
    BY <2>1 DEF FieldRefs
  <2>3. Counted(rows[n - 1], all, m)
    OBVIOUS
  <2> HIDE DEF m
  <2>4. Counted(BumpField(rows[n - 1], all[m + 1]), all, m + 1)
    BY <2>1, <2>2, <2>3, BumpCounts
  <2>5. Counted(rows[n], all, had + n)
    BY <1>2, <2>1, <2>2, <2>4
  <2> QED
    BY <2>5
<1> HIDE DEF S
<1>5. \A n \in 0 .. len : n \in S
  BY <1>1, <1>3, <1>4, ClimbTo
<1>6. len \in S
  BY <1>1, <1>5
<1> QED
  BY <1>2, <1>6 DEF S

-----------------------------------------------------------------------------
(* Rows *)

LEMMA PushLimitedIs ==
  ASSUME NEW out, IsSeq(out), NEW rows, IsSeq(rows), Len(out) <= MaxRows
  PROVE  LET new == PushLimited(out, rows)
             fits == Len(out) + Len(rows) <= MaxRows
         IN  /\ IsSeq(new) /\ Len(new) = IF fits THEN Len(out) + Len(rows) ELSE MaxRows
             /\ \A i \in 1 .. Len(out) : new[i] = out[i]
             /\ \A i \in Len(out) + 1 .. Len(new) :
                  i - Len(out) \in 1 .. Len(rows) /\ new[i] = rows[i - Len(out)]
<1> DEFINE n == Len(out)
           k == Len(rows)
           m == IF n + k <= MaxRows THEN k ELSE MaxRows - n
           part == SubSeq(rows, 1, m)
           new == PushLimited(out, rows)
<1>1. n \in Nat /\ k \in Nat /\ MaxRows \in Nat /\ n <= MaxRows
  BY SeqIs, FieldXrefsAssumption
<1>2. m \in Nat /\ m <= k
  BY <1>1
<1>3. new = out \o part
  BY DEF PushLimited
<1>7. n + m = IF n + k <= MaxRows THEN n + k ELSE MaxRows
  BY <1>1
<1> HIDE DEF m, new
<1>4. IsSeq(part) /\ Len(part) = m /\ \A i \in 1 .. m : part[i] = rows[i]
  BY <1>2, IsSeqPart
<1> HIDE DEF part
<1>5. /\ IsSeq(new) /\ Len(new) = n + m
      /\ \A i \in 1 .. n : new[i] = out[i]
      /\ \A i \in 1 .. m : new[n + i] = part[i]
  <2> HIDE DEF n, k
  <2>1. IsSeq(out) /\ IsSeq(part)
    BY <1>4
  <2>2. /\ IsSeq(out \o part) /\ Len(out \o part) = Len(out) + Len(part)
        /\ \A i \in 1 .. Len(out) : (out \o part)[i] = out[i]
        /\ \A i \in 1 .. Len(part) : (out \o part)[Len(out) + i] = part[i]
    BY <2>1, IsSeqConcat
  <2> QED
    BY <1>3, <1>4, <2>2 DEF n
<1>6. \A i \in n + 1 .. n + m : i - n \in 1 .. m /\ i - n \in 1 .. k /\ n + (i - n) = i
  BY <1>1, <1>2
<1>8. \A i \in n + 1 .. n + m : i - n \in 1 .. k /\ new[i] = rows[i - n]
  BY <1>4, <1>5, <1>6
<1> HIDE DEF n, k
<1> QED
  BY <1>5, <1>7, <1>8 DEF new, n, k

(* What matters of the references of an instruction. *)
LEMMA RefsAre ==
  ASSUME NEW at \in Nat, NEW ins \in Code
  PROVE  /\ FieldRefs(Refs(at, ins))
         /\ Len(ins.args) >= 1 /\ KeepMemref(ins.args[1]) =>
              \E j \in 1 .. Len(Refs(at, ins)) :
                Refs(at, ins)[j] = [at |-> at, access |-> ClassifyAccess(ins, 1),
                                    object |-> ObjectFor(ins.args[1]),
                                    off |-> ins.args[1].off]
<1> DEFINE args == ins.args
           n == Len(args)
           places == [i \in DOMAIN args |-> i]
           chosen == {i \in DOMAIN args : KeepMemref(args[i])}
           kept == Kept(places, chosen)
           refs == Refs(at, ins)
<1>1. n \in Nat /\ DOMAIN args = 1 .. n
  <2>1. args \in Seq(FieldOperands)
    BY CodeAssumption
  <2> QED
    BY <2>1, LenProperties
<1>2. places \in Seq(Nat) /\ Len(places) = n /\ \A i \in 1 .. n : places[i] = i
  <2>1. places \in [1 .. n -> Nat]
    BY <1>1
  <2>2. places \in Seq(Nat)
    BY <1>1, <2>1, IsASeq
  <2>3. Len(places) = n
    BY <1>1, <2>1, <2>2, LenProperties
  <2> QED
    BY <1>1, <2>2, <2>3
<1>3. refs = [k \in DOMAIN kept |->
                [at |-> at, access |-> ClassifyAccess(ins, kept[k]),
                 object |-> ObjectFor(args[kept[k]]), off |-> args[kept[k]].off]]
  BY DEF Refs
<1> HIDE DEF refs, places, chosen
<1>4. kept \in Seq(Nat)
  BY <1>2, KeptIsSeq
<1>5. /\ KeptRight(places, chosen, n)
      /\ \A j \in 1 .. Len(kept) : \E i \in 1 .. n : kept[j] = i
  <2>1. KeptRight(places, chosen, Len(places))
    BY <1>2, KeptIsRight
  <2>2. \A j \in 1 .. Len(kept) : \E i \in 1 .. Len(places) : kept[j] = places[i]
    BY <1>2, KeptAreChosen
  <2> HIDE DEF kept, n
  <2> QED
    BY <1>2, <2>1, <2>2
<1>6. Len(kept) \in Nat /\ DOMAIN kept = 1 .. Len(kept)
  BY <1>4, LenProperties
<1>10. kept = KeptUpTo(places, chosen)[n]
  BY <1>2 DEF Kept
<1> HIDE DEF kept
<1>7. IsSeq(refs) /\ Len(refs) = Len(kept)
  <2> DEFINE len == Len(kept)
  <2>1. DOMAIN refs = 1 .. len /\ refs = [k \in 1 .. len |-> refs[k]]
    BY <1>3, <1>6
  <2> HIDE DEF len
  <2>2. len \in Nat
    BY <1>6 DEF len
  <2> QED
    BY <2>1, <2>2, MapIsSeq DEF len
<1>8. \A k \in 1 .. Len(kept) : refs[k].at \in Nat /\ refs[k].access \in Accesses
  <2> TAKE k \in 1 .. Len(kept)
  <2>1. refs[k].at = at /\ refs[k].access = ClassifyAccess(ins, kept[k]) /\ kept[k] \in 1 .. n
    BY <1>3, <1>5, <1>6
  <2>2. \A i \in 1 .. n : ClassifyAccess(ins, i) \in Accesses
    BY DEF ClassifyAccess, Accesses
  <2> QED
    BY <2>1, <2>2
<1>9. ASSUME n >= 1, KeepMemref(args[1])
      PROVE  \E j \in 1 .. Len(refs) :
               refs[j] = [at |-> at, access |-> ClassifyAccess(ins, 1),
                          object |-> ObjectFor(args[1]), off |-> args[1].off]
  <2>1. 1 \in PlacesIn(places, chosen, n)
    BY <1>1, <1>2, <1>9 DEF PlacesIn, chosen
  <2>2. PICK j \in 1 .. Len(KeptUpTo(places, chosen)[n]) :
          KeptUpTo(places, chosen)[n][j] = places[1]
    BY <1>5, <2>1 DEF KeptRight
  <2>3. j \in 1 .. Len(kept) /\ kept[j] = 1
    BY <1>2, <1>9, <1>10, <2>2
  <2> QED
    BY <1>3, <1>6, <1>7, <2>3
<1> QED
  BY <1>7, <1>8, <1>9 DEF FieldRefs, refs

-----------------------------------------------------------------------------
(* The scan *)

(* The row of an assignment shows the write ref. *)
Matches(ref, row) ==
  /\ ref.at = row.at /\ ref.access = "write"
  /\ ref.object = row.object /\ ref.off = row.off

(* The table counts every reference, the rows are the first of them, an *)
(* assignment is one of the writes, and a label that waits is the one   *)
(* pushed last.                                                         *)
FieldsInv ==
  /\ fxPc \in {"idle", "scan", "done"} /\ looked \in 0 .. CodeWindow
  /\ FieldRefs(refsSeen)
  /\ Counted(fields, refsSeen, Len(refsSeen))
  /\ IsSeq(fieldRefs) /\ Len(fieldRefs) <= MaxRows /\ Len(fieldRefs) <= Len(refsSeen)
  /\ \A i \in 1 .. Len(fieldRefs) : fieldRefs[i] = refsSeen[i]
  /\ Len(fieldRefs) < Len(refsSeen) => rowsCut /\ Len(fieldRefs) = MaxRows
  /\ IsSeq(assignments) /\ Len(assignments) <= MaxRows
  /\ \A i \in 1 .. Len(assignments) :
       \E j \in 1 .. Len(refsSeen) : Matches(refsSeen[j], assignments[i])
  /\ IsSeq(pushes)
  /\ pendingPush # NoPush =>
       /\ Len(pushes) >= 1 /\ pushes[Len(pushes)].op = "push"
       /\ pushes[Len(pushes)].label = pendingPush

(* What an instruction's rows add. *)
LEMMA CollectKeeps ==
  ASSUME FieldsInv, NEW at \in Nat, NEW ins \in Code, Collect(at, ins)
  PROVE  /\ FieldRefs(refsSeen)'
         /\ Counted(fields, refsSeen, Len(refsSeen))'
         /\ IsSeq(fieldRefs') /\ Len(fieldRefs') <= MaxRows
         /\ Len(fieldRefs') <= Len(refsSeen')
         /\ \A i \in 1 .. Len(fieldRefs') : fieldRefs'[i] = refsSeen'[i]
         /\ Len(fieldRefs') < Len(refsSeen') => rowsCut' /\ Len(fieldRefs') = MaxRows
         /\ IsSeq(assignments') /\ Len(assignments') <= MaxRows
         /\ \A i \in 1 .. Len(assignments') :
              \E j \in 1 .. Len(refsSeen') : Matches(refsSeen'[j], assignments'[i])
<1> DEFINE refs == Refs(at, ins)
           asg == Assignment(at, ins)
           n == Len(refsSeen)
           k == Len(refs)
           m == Len(fieldRefs)
           all == refsSeen \o refs
<1>1. /\ fields' = BumpFields(fields, refs)
      /\ fieldRefs' = PushLimited(fieldRefs, refs)
      /\ assignments' = PushLimited(assignments, asg)
      /\ rowsCut' = (rowsCut \/ m + k > MaxRows \/ Len(assignments) + Len(asg) > MaxRows)
      /\ refsSeen' = all
  BY DEF Collect
<1>2. FieldRefs(refs)
  BY RefsAre
<1>3. /\ IsSeq(refs) /\ k \in Nat
      /\ \A i \in 1 .. k : refs[i].at \in Nat /\ refs[i].access \in Accesses
  BY <1>2, SeqIs DEF FieldRefs
<1>4. /\ IsSeq(refsSeen) /\ n \in Nat
      /\ \A i \in 1 .. n : refsSeen[i].at \in Nat /\ refsSeen[i].access \in Accesses
  BY SeqIs DEF FieldsInv, FieldRefs
<1>20. /\ Len(asg) >= 1 => Len(asg) = 1 /\ \E j \in 1 .. k : Matches(refs[j], asg[1])
       /\ IsSeq(asg)
  <2> DEFINE row == [at |-> at, object |-> ObjectFor(ins.args[1]), off |-> ins.args[1].off,
                     source |-> SymbolicOperand(ins.args[2])]
             kept == ins.mn = "mov" /\ Len(ins.args) >= 2 /\ KeepMemref(ins.args[1])
  <2>1. asg = IF kept THEN <<row>> ELSE <<>>
    BY DEF Assignment
  <2>2. CASE kept
    <3>0. Len(ins.args) \in Nat
      <4>1. ins.args \in Seq(FieldOperands)
        BY CodeAssumption
      <4> QED
        BY <4>1, LenProperties
    <3>1. PICK j \in 1 .. k :
            refs[j] = [at |-> at, access |-> ClassifyAccess(ins, 1),
                       object |-> ObjectFor(ins.args[1]), off |-> ins.args[1].off]
      BY <2>2, <3>0, RefsAre
    <3>2. ClassifyAccess(ins, 1) = "write"
      BY <2>2 DEF ClassifyAccess
    <3>3. Matches(refs[j], row)
      BY <3>1, <3>2 DEF Matches
    <3> HIDE DEF row
    <3>4. asg = <<row>> /\ <<row>> \in Seq({row}) /\ Len(<<row>>) = 1 /\ <<row>>[1] = row
      BY <2>1, <2>2
    <3>5. IsSeq(asg) /\ Len(asg) = 1 /\ asg[1] = row
      BY <3>4 DEF IsSeq
    <3> QED
      BY <3>3, <3>5
  <2>3. CASE ~ kept
    <3>1. asg = <<>>
      BY <2>1, <2>3
    <3> QED
      BY <3>1, EmptySeq DEF IsSeq
  <2> QED
    BY <2>2, <2>3
<1> HIDE DEF refs, asg, all, n, k, m
<1>5. /\ IsSeq(all) /\ Len(all) = n + k
      /\ \A i \in 1 .. n : all[i] = refsSeen[i]
      /\ \A i \in 1 .. k : all[n + i] = refs[i]
  <2>1. IsSeq(refsSeen) /\ IsSeq(refs)
    BY <1>3, <1>4
  <2>2. /\ IsSeq(refsSeen \o refs)
        /\ Len(refsSeen \o refs) = Len(refsSeen) + Len(refs)
        /\ \A i \in 1 .. Len(refsSeen) : (refsSeen \o refs)[i] = refsSeen[i]
        /\ \A i \in 1 .. Len(refs) : (refsSeen \o refs)[Len(refsSeen) + i] = refs[i]
    BY <2>1, IsSeqConcat
  <2> QED
    BY <2>2 DEF all, n, k
<1>6. FieldRefs(all)
  <2>1. \A i \in 1 .. n + k : i \in 1 .. n \/ (i - n \in 1 .. k /\ n + (i - n) = i)
    BY <1>3, <1>4
  <2>2. \A i \in 1 .. n + k : all[i].at \in Nat /\ all[i].access \in Accesses
    BY <1>3, <1>4, <1>5, <2>1
  <2> QED
    BY <1>5, <2>2 DEF FieldRefs
<1>7. Counted(BumpFields(fields, refs), all, n + k)
  <2>1. Counted(fields, all, n)
    <3>1. Counted(fields, refsSeen, n)
      BY DEF FieldsInv, n
    <3>2. \A f, a : Hits(all, f, a, n) = Hits(refsSeen, f, a, n)
      BY <1>5 DEF Hits
    <3>3. \A f : (\E i \in 1 .. n : KeyOf(all[i]) = f)
                 <=> (\E i \in 1 .. n : KeyOf(refsSeen[i]) = f)
      BY <1>5
    <3> QED
      BY <3>1, <3>2, <3>3 DEF Counted
  <2>2. k = Len(refs) /\ \A i \in 1 .. Len(refs) : all[n + i] = refs[i]
    BY <1>5 DEF k
  <2>3. Counted(BumpFields(fields, refs), all, n + Len(refs))
    BY <1>2, <1>4, <2>1, <2>2, BumpFieldsCount
  <2> QED
    BY <2>2, <2>3
<1>8. /\ IsSeq(fieldRefs') /\ Len(fieldRefs') = IF m + k <= MaxRows THEN m + k ELSE MaxRows
      /\ \A i \in 1 .. m : fieldRefs'[i] = fieldRefs[i]
      /\ \A i \in m + 1 .. Len(fieldRefs') : i - m \in 1 .. k /\ fieldRefs'[i] = refs[i - m]
  BY <1>1, <1>3, PushLimitedIs DEF FieldsInv, m, k
<1>9. /\ m \in Nat /\ m <= MaxRows /\ m <= n /\ (m < n => rowsCut /\ m = MaxRows)
      /\ \A i \in 1 .. m : fieldRefs[i] = refsSeen[i]
  BY SeqIs DEF FieldsInv, m, n
<1>10. MaxRows \in Nat
  BY FieldXrefsAssumption
<1>11. /\ Len(fieldRefs') <= MaxRows /\ Len(fieldRefs') <= n + k
       /\ Len(fieldRefs') < n + k => rowsCut' /\ Len(fieldRefs') = MaxRows
  <2>1. m + k > MaxRows => rowsCut'
    BY <1>1
  <2>2. rowsCut => rowsCut'
    BY <1>1
  <2> DEFINE now == Len(fieldRefs')
  <2>3. now = IF m + k <= MaxRows THEN m + k ELSE MaxRows
    BY <1>8
  <2> HIDE DEF now
  <2>4. now <= MaxRows /\ now <= n + k
    BY <1>3, <1>4, <1>9, <1>10, <2>3
  <2>5. now < n + k => (m + k > MaxRows \/ m < n) /\ now = MaxRows
    BY <1>3, <1>4, <1>9, <1>10, <2>3
  <2>6. now < n + k => rowsCut'
    BY <1>9, <2>1, <2>2, <2>5
  <2> QED
    BY <2>4, <2>5, <2>6 DEF now
<1>12. ASSUME NEW i \in 1 .. Len(fieldRefs')
       PROVE  fieldRefs'[i] = all[i]
  <2>1. CASE i <= m
    <3>1. i \in 1 .. m /\ i \in 1 .. n
      BY <1>4, <1>9, <2>1
    <3> QED
      BY <1>5, <1>8, <1>9, <3>1
  <2>2. CASE i > m
    <3>1. i \in m + 1 .. Len(fieldRefs') /\ m = n
      BY <1>3, <1>4, <1>8, <1>9, <1>10, <2>2
    <3>2. i - n \in 1 .. k /\ n + (i - n) = i
      BY <1>4, <1>8, <3>1
    <3> QED
      BY <1>5, <1>8, <3>1, <3>2
  <2> QED
    BY <1>9, <2>1, <2>2
<1>13. /\ IsSeq(assignments') /\ Len(assignments') <= MaxRows
       /\ \A i \in 1 .. Len(assignments') :
            \E j \in 1 .. Len(all) : Matches(all[j], assignments'[i])
  <2> DEFINE r == Len(assignments)
  <2>1. /\ IsSeq(assignments')
        /\ Len(assignments') = IF r + Len(asg) <= MaxRows THEN r + Len(asg) ELSE MaxRows
        /\ \A i \in 1 .. r : assignments'[i] = assignments[i]
        /\ \A i \in r + 1 .. Len(assignments') :
             i - r \in 1 .. Len(asg) /\ assignments'[i] = asg[i - r]
    BY <1>1, <1>20, PushLimitedIs DEF FieldsInv
  <2>2. r \in Nat /\ Len(asg) \in Nat
    BY <1>20, SeqIs DEF FieldsInv
  <2>3. ASSUME NEW i \in 1 .. Len(assignments')
        PROVE  \E j \in 1 .. n + k : Matches(all[j], assignments'[i])
    <3>1. CASE i <= r
      <4>1. i \in 1 .. r /\ assignments'[i] = assignments[i]
        BY <2>1, <2>2, <3>1
      <4>2. PICK j \in 1 .. n : Matches(refsSeen[j], assignments[i])
        BY <4>1 DEF FieldsInv, n
      <4>3. j \in 1 .. n + k /\ all[j] = refsSeen[j]
        BY <1>3, <1>4, <1>5
      <4> QED
        BY <4>1, <4>2, <4>3
    <3>2. CASE i > r
      <4>1. i \in r + 1 .. Len(assignments')
        BY <2>1, <2>2, <3>2, <1>10
      <4>2. i - r \in 1 .. Len(asg) /\ assignments'[i] = asg[i - r]
        BY <2>1, <4>1
      <4>3. i - r = 1 /\ \E j \in 1 .. k : Matches(refs[j], asg[1])
        BY <1>20, <2>2, <4>2
      <4>4. PICK j \in 1 .. k : Matches(refs[j], assignments'[i])
        BY <4>2, <4>3
      <4>5. n + j \in 1 .. n + k /\ all[n + j] = refs[j]
        BY <1>3, <1>4, <1>5
      <4> QED
        BY <4>4, <4>5
    <3> QED
      BY <2>2, <3>1, <3>2
  <2>4. Len(assignments') <= MaxRows
    BY <1>10, <2>1, <2>2
  <2> QED
    BY <1>5, <2>1, <2>3, <2>4
<1> QED
  BY <1>1, <1>5, <1>6, <1>7, <1>8, <1>11, <1>12, <1>13

LEMMA FieldsInitInv ==
  ASSUME FieldsInit
  PROVE  FieldsInv
<1>1. IsSeq(<<>>) /\ Len(<<>>) = 0 /\ 1 .. 0 = {} /\ DOMAIN (<<>>) = {}
  BY EmptySeq DEF IsSeq
<1>2. /\ fxPc = "idle" /\ looked = 0 /\ fields = <<>> /\ pendingPush = NoPush
      /\ fieldRefs = <<>> /\ assignments = <<>> /\ refsSeen = <<>> /\ pushes = <<>>
  BY DEF FieldsInit
<1>3. Len(refsSeen) = 0 /\ Len(fieldRefs) = 0 /\ Len(assignments) = 0
  BY <1>1, <1>2
<1>4. FieldRefs(refsSeen)
  BY <1>1, <1>2, <1>3 DEF FieldRefs
<1>5. Counted(fields, refsSeen, 0)
  <2>1. IsTable(<<>>)
    BY <1>1 DEF IsTable
  <2> QED
    BY <1>1, <1>2, <2>1 DEF Counted
<1>6. IsSeq(fieldRefs) /\ IsSeq(assignments) /\ IsSeq(pushes)
  BY <1>1, <1>2
<1>7. 0 <= MaxRows /\ ~ (0 < 0) /\ looked \in 0 .. CodeWindow
  BY <1>2, FieldXrefsAssumption
<1> QED
  BY <1>1, <1>2, <1>3, <1>4, <1>5, <1>6, <1>7, FieldXrefsAssumption DEF FieldsInv

LEMMA FieldsOpKeeps ==
  ASSUME FieldsInv, FieldsOp
  PROVE  FieldsInv' /\ ResolvedFromItsPush
<1>1. PICK ins \in Code :
        /\ Collect(looked, ins)
        /\ UpdatePushResolverState(ins)
        /\ pushes' = IF ins.mn \in {"push", "call"}
                     THEN Append(pushes, [op |-> ins.mn, label |-> ConstantPushed(ins),
                                          resolver |-> IsResolver(ins)])
                     ELSE pushes
  BY DEF FieldsOp
<1>2. /\ fxPc' = fxPc /\ looked' = looked + 1 /\ looked < CodeWindow /\ looked \in Nat
      /\ looked' \in 0 .. CodeWindow
  BY FieldXrefsAssumption DEF FieldsOp, FieldsInv
<1> DEFINE row == [op |-> ins.mn, label |-> ConstantPushed(ins), resolver |-> IsResolver(ins)]
           n == Len(pushes)
<1>3. IsSeq(pushes) /\ n \in Nat
  BY SeqIs DEF FieldsInv
<1>10. row.op = ins.mn /\ row.label = ConstantPushed(ins) /\ (IsResolver(ins) => row.resolver)
  OBVIOUS
<1>11. ins.mn \in {"push", "call"} => pushes' = Append(pushes, row)
  BY <1>1
<1> HIDE DEF row
<1>4. ins.mn \in {"push", "call"} =>
        /\ IsSeq(pushes') /\ Len(pushes') = n + 1 /\ pushes'[n + 1] = row
        /\ \A i \in 1 .. n : pushes'[i] = pushes[i]
  <2>1. /\ IsSeq(Append(pushes, row)) /\ Len(Append(pushes, row)) = n + 1
        /\ Append(pushes, row)[n + 1] = row
        /\ \A i \in 1 .. n : Append(pushes, row)[i] = pushes[i]
    BY <1>3, IsSeqAppend
  <2> QED
    BY <1>11, <2>1
<1>5. ASSUME ins.mn = "push" PROVE ResolvedFromItsPush
  <2>1. pendingPush' = ConstantPushed(ins) /\ alias' = alias
    BY <1>1, <1>5 DEF UpdatePushResolverState
  <2> QED
    BY <1>3, <1>4, <1>5, <1>10, <2>1 DEF ResolvedFromItsPush
<1>6. ASSUME ins.mn = "call" PROVE ResolvedFromItsPush
  <2>1. /\ pendingPush' = NoPush
        /\ IF IsResolver(ins) /\ pendingPush # NoPush
           THEN SetAlias({"eax", "rax"}, pendingPush) ELSE UNCHANGED alias
    BY <1>1, <1>6 DEF UpdatePushResolverState
  <2>2. CASE IsResolver(ins) /\ pendingPush # NoPush
    <3>1. n >= 1 /\ pushes[n].op = "push" /\ pushes[n].label = pendingPush
      BY <2>2 DEF FieldsInv
    <3>2. \A r \in {"eax", "rax"} : alias'[r] = pendingPush
      BY <2>1, <2>2 DEF SetAlias
    <3>3. /\ Len(pushes') = n + 1 /\ pushes'[n + 1].op = "call" /\ pushes'[n + 1].resolver
          /\ n \in 1 .. n /\ (n + 1) - 1 = n /\ n + 1 > 1
      BY <1>3, <1>4, <1>6, <1>10, <2>2, <3>1
    <3>4. pushes'[(n + 1) - 1] = pushes[n]
      BY <1>4, <1>6, <3>3
    <3> QED
      BY <3>1, <3>2, <3>3, <3>4 DEF ResolvedFromItsPush
  <2>3. CASE ~ (IsResolver(ins) /\ pendingPush # NoPush)
    BY <2>1, <2>3 DEF ResolvedFromItsPush
  <2> QED
    BY <2>2, <2>3
<1>7. ASSUME ins.mn \notin {"push", "call"} PROVE ResolvedFromItsPush
  BY <1>1, <1>7 DEF ResolvedFromItsPush
<1>8. ResolvedFromItsPush
  BY <1>5, <1>6, <1>7
<1>9. /\ IsSeq(pushes')
      /\ pendingPush' # NoPush =>
           /\ Len(pushes') >= 1 /\ pushes'[Len(pushes')].op = "push"
           /\ pushes'[Len(pushes')].label = pendingPush'
  <2>1. CASE ins.mn = "push"
    <3>1. pendingPush' = ConstantPushed(ins)
      BY <1>1, <2>1 DEF UpdatePushResolverState
    <3> QED
      BY <1>3, <1>4, <1>10, <2>1, <3>1
  <2>2. CASE ins.mn = "call"
    <3>1. pendingPush' = NoPush
      BY <1>1, <2>2 DEF UpdatePushResolverState
    <3> QED
      BY <1>4, <2>2, <3>1
  <2>3. CASE ins.mn \notin {"push", "call"}
    <3>1. pushes' = pushes /\ pendingPush' = pendingPush
      BY <1>1, <2>3 DEF UpdatePushResolverState
    <3> QED
      BY <3>1 DEF FieldsInv
  <2> QED
    BY <2>1, <2>2, <2>3
<1>12. /\ FieldRefs(refsSeen)'
       /\ Counted(fields, refsSeen, Len(refsSeen))'
       /\ IsSeq(fieldRefs') /\ Len(fieldRefs') <= MaxRows
       /\ Len(fieldRefs') <= Len(refsSeen')
       /\ \A i \in 1 .. Len(fieldRefs') : fieldRefs'[i] = refsSeen'[i]
       /\ Len(fieldRefs') < Len(refsSeen') => rowsCut' /\ Len(fieldRefs') = MaxRows
       /\ IsSeq(assignments') /\ Len(assignments') <= MaxRows
       /\ \A i \in 1 .. Len(assignments') :
            \E j \in 1 .. Len(refsSeen') : Matches(refsSeen'[j], assignments'[i])
  BY <1>1, <1>2, CollectKeeps
<1>13. fxPc' \in {"idle", "scan", "done"}
  BY <1>2 DEF FieldsInv
<1> QED
  BY <1>2, <1>8, <1>9, <1>12, <1>13 DEF FieldsInv

(* Every step keeps the invariant, and names a result only after its push. *)
LEMMA FieldsStepInv ==
  ASSUME FieldsInv, [FieldsNext]_fxVars
  PROVE  FieldsInv' /\ [ResolvedFromItsPush]_fxVars
<1>1. CASE FieldsOp
  BY <1>1, FieldsOpKeeps
<1>2. CASE FieldsStart \/ FieldsSkip \/ FieldsEnd \/ UNCHANGED fxVars
  <2>1. UNCHANGED <<pendingPush, fields, fieldRefs, assignments, rowsCut, refsSeen, pushes>>
    BY <1>2 DEF FieldsStart, FieldsSkip, FieldsEnd, fxVars
  <2>2. fxPc' \in {"idle", "scan", "done"} /\ looked' \in 0 .. CodeWindow
    BY <1>2, FieldXrefsAssumption DEF FieldsInv, FieldsStart, FieldsSkip, FieldsEnd, fxVars
  <2>3. FieldsInv'
    BY <2>1, <2>2 DEF FieldsInv, FieldRefs, Counted
  <2> QED
    BY <2>1, <2>3 DEF ResolvedFromItsPush
<1> QED
  BY <1>1, <1>2 DEF FieldsNext

(* The invariant holds the properties that are checked of field *)
(* references.                                                  *)
LEMMA FieldsInvIsEnough ==
  ASSUME FieldsInv
  PROVE  FieldsTypeOK /\ SummariesCountAll /\ AssignmentsAreWrites
<1>1. /\ IsSeq(refsSeen) /\ IsSeq(fieldRefs) /\ IsSeq(assignments)
      /\ Counted(fields, refsSeen, Len(refsSeen))
  BY DEF FieldsInv, FieldRefs
<1>2. /\ DOMAIN refsSeen = 1 .. Len(refsSeen) /\ Len(refsSeen) \in Nat
      /\ DOMAIN assignments = 1 .. Len(assignments) /\ Len(fieldRefs) \in Nat
  BY <1>1, SeqIs
<1>3. FieldsTypeOK
  BY <1>1 DEF FieldsInv, FieldsTypeOK, Counted
<1>4. AssignmentsAreWrites
  BY <1>2 DEF FieldsInv, AssignmentsAreWrites, Matches
<1>5. IsPrefix(fieldRefs, refsSeen)
  <2> DEFINE n == Len(fieldRefs)
             s == SubSeq(fieldRefs, 1, n)
             t == SubSeq(refsSeen, 1, n)
  <2>1. n \in Nat /\ n <= Len(refsSeen) /\ n <= Len(fieldRefs)
        /\ \A i \in 1 .. n : fieldRefs[i] = refsSeen[i]
    BY <1>2 DEF FieldsInv
  <2> HIDE DEF n
  <2>3. IsSeq(s) /\ Len(s) = n /\ \A i \in 1 .. n : s[i] = fieldRefs[i]
    BY <1>1, <2>1, IsSeqPart
  <2>4. IsSeq(t) /\ Len(t) = n /\ \A i \in 1 .. n : t[i] = refsSeen[i]
    BY <1>1, <2>1, IsSeqPart
  <2> HIDE DEF s, t
  <2>5. \A i \in 1 .. Len(s) : s[i] = t[i]
    BY <2>1, <2>3, <2>4
  <2>6. s = t
    BY <2>3, <2>4, <2>5, SameSeq
  <2> QED
    BY <2>1, <2>6 DEF IsPrefix, n, s, t
<1>6. ~ rowsCut => fieldRefs = refsSeen
  <2> SUFFICES ASSUME ~ rowsCut PROVE fieldRefs = refsSeen
    OBVIOUS
  <2>1. Len(fieldRefs) = Len(refsSeen)
    BY <1>2 DEF FieldsInv
  <2>2. \A i \in 1 .. Len(fieldRefs) : fieldRefs[i] = refsSeen[i]
    BY DEF FieldsInv
  <2> QED
    BY <1>1, <2>1, <2>2, SameSeq
<1>7. /\ \A i \in DOMAIN refsSeen : At(refsSeen[i].object, refsSeen[i].off) \in DOMAIN fields
      /\ \A f \in DOMAIN fields, access \in {"read", "write", "read_write"} :
           fields[f][access] = RefsOf(f, access)
  BY <1>1, <1>2 DEF Counted, Hits, KeyOf, RefsOf, Accesses
<1> QED
  BY <1>3, <1>4, <1>5, <1>6, <1>7 DEF SummariesCountAll

-----------------------------------------------------------------------------
(***************************************************************************)
(* DriverDispatch: what DriverEntry stores in its DRIVER_OBJECT.           *)
(***************************************************************************)

-----------------------------------------------------------------------------
(* What is known of registers *)

(* The instructions before i that write register r. *)
WritersBefore(i, r) == {j \in 1 .. i - 1 : initCode[j].at # NoCode /\ WritesReg(initCode[j].op, r)}

IsCodeLea(j) == initCode[j].op.kind = "lea" /\ initCode[j].op.addr \in CodeAddresses

NoLea(i, r) == \A j \in 1 .. i - 1 : initCode[j].at = NoCode
                                     \/ initCode[j].op.kind # "lea"
                                     \/ initCode[j].op.reg # r

DriverCode == [at : Nat \cup {NoCode}, op : DriverOps]

(* The instructions read so far. *)
CodeInv == initCode \in Seq(DriverCode) /\ Len(initCode) <= ScanLimit

(* What is known of registers before instruction n is read. *)
RegsKnown(n) ==
  \A r \in GeneralRegs :
    LET lw == LastWriter(n, r)
    IN  /\ lw # 0 /\ IsCodeLea(lw) =>
             r \in DOMAIN regValues /\ regValues[r] = initCode[lw].op.addr
        /\ NoLea(n, r) => r \notin DOMAIN regValues

(* What the scan holds of registers after the instructions read so far. *)
RegsInv ==
  /\ DOMAIN regValues \subseteq GeneralRegs
  /\ \A r \in DOMAIN regValues : regValues[r] \in CodeAddresses
  /\ \A n \in Nat : n = Len(initCode) + 1 => RegsKnown(n)

LEMMA LastWriterIs ==
  ASSUME NEW i \in Nat \ {0}, NEW r
  PROVE  /\ LastWriter(i, r) \in 0 .. i - 1
         /\ LastWriter(i, r) # 0 => LastWriter(i, r) \in WritersBefore(i, r)
         /\ \A j \in WritersBefore(i, r) : j <= LastWriter(i, r)
<1>1. LastWriter(i, r) = IF WritersBefore(i, r) = {} THEN 0 ELSE Max(WritersBefore(i, r))
  BY DEF LastWriter, WritersBefore
<1>2. i - 1 \in Nat /\ WritersBefore(i, r) \subseteq 1 .. i - 1
  BY DEF WritersBefore
<1>3. CASE WritersBefore(i, r) = {}
  BY <1>1, <1>2, <1>3
<1>4. CASE WritersBefore(i, r) # {}
  <2>1. Max(WritersBefore(i, r)) \in WritersBefore(i, r) /\ \A j \in WritersBefore(i, r) : j <= Max(WritersBefore(i, r))
    BY <1>2, <1>4, MaxIsGreatest
  <2>2. LastWriter(i, r) = Max(WritersBefore(i, r))
    BY <1>1, <1>4
  <2> QED
    BY <1>2, <2>1, <2>2
<1> QED
  BY <1>3, <1>4

(* What the code adds leaves what is before it. *)
LEMMA CodeGrows ==
  ASSUME CodeInv, NEW ins \in DriverCode, initCode' = Append(initCode, ins)
  PROVE  /\ initCode' \in Seq(DriverCode) /\ Len(initCode') = Len(initCode) + 1
         /\ Len(initCode) \in Nat /\ initCode'[Len(initCode) + 1] = ins
         /\ \A j \in 1 .. Len(initCode) : initCode'[j] = initCode[j]
         /\ \A i \in 1 .. Len(initCode) + 1 : \A r :
              /\ LastWriter(i, r)' = LastWriter(i, r)
              /\ NoLea(i, r)' <=> NoLea(i, r)
<1> DEFINE n == Len(initCode)
<1>1. /\ initCode' \in Seq(DriverCode) /\ Len(initCode') = n + 1 /\ n \in Nat
      /\ initCode'[n + 1] = ins /\ \A j \in 1 .. n : initCode'[j] = initCode[j]
  BY AppendProperties, LenProperties DEF CodeInv
<1>2. ASSUME NEW i \in 1 .. n + 1, NEW r
      PROVE  LastWriter(i, r)' = LastWriter(i, r) /\ (NoLea(i, r)' <=> NoLea(i, r))
  <2>1. \A j \in 1 .. i - 1 : initCode'[j] = initCode[j]
    BY <1>1
  <2>2. {j \in 1 .. i - 1 : initCode'[j].at # NoCode /\ WritesReg(initCode'[j].op, r)}
          = {j \in 1 .. i - 1 : initCode[j].at # NoCode /\ WritesReg(initCode[j].op, r)}
    BY <2>1
  <2> QED
    BY <2>1, <2>2 DEF LastWriter, NoLea
<1> QED
  BY <1>1, <1>2

(* The last writer once one more instruction is read. *)
LEMMA NextWriter ==
  ASSUME CodeInv, NEW ins \in DriverCode, initCode' = Append(initCode, ins), NEW r,
         NEW n, n = Len(initCode) + 1
  PROVE  LastWriter(n + 1, r)' = IF ins.at # NoCode /\ WritesReg(ins.op, r) THEN n
                                 ELSE LastWriter(n, r)
<1> DEFINE B == {j \in 1 .. n - 1 : initCode[j].at # NoCode /\ WritesReg(initCode[j].op, r)}
           C == {j \in 1 .. n : initCode'[j].at # NoCode /\ WritesReg(initCode'[j].op, r)}
           writes == ins.at # NoCode /\ WritesReg(ins.op, r)
<1>1. /\ n \in Nat /\ n >= 1 /\ initCode'[n] = ins
      /\ \A j \in 1 .. n - 1 : initCode'[j] = initCode[j]
  BY CodeGrows
<1>2. LastWriter(n, r) = IF B = {} THEN 0 ELSE Max(B)
  BY DEF LastWriter
<1>3. LastWriter(n + 1, r)' = IF C = {} THEN 0 ELSE Max(C)
  <2>1. (n + 1) - 1 = n
    BY <1>1
  <2>2. LastWriter(n + 1, r)' =
          IF {j \in 1 .. (n + 1) - 1 : initCode'[j].at # NoCode /\ WritesReg(initCode'[j].op, r)} = {}
          THEN 0
          ELSE Max({j \in 1 .. (n + 1) - 1 : initCode'[j].at # NoCode
                                             /\ WritesReg(initCode'[j].op, r)})
    BY DEF LastWriter
  <2> QED
    BY <2>1, <2>2
<1>4. C = B \cup (IF writes THEN {n} ELSE {})
  <2>1. \A j \in 1 .. n : j = n \/ j \in 1 .. n - 1
    BY <1>1
  <2>2. n \in 1 .. n /\ \A j \in 1 .. n - 1 : j \in 1 .. n
    BY <1>1
  <2> QED
    BY <1>1, <2>1, <2>2
<1>7. C \subseteq 1 .. n
  OBVIOUS
<1> HIDE DEF B, C
<1>5. CASE writes
  <2>1. C # {} /\ n \in C
    BY <1>4, <1>5
  <2> DEFINE top == Max(C)
  <2>2. top \in C /\ \A j \in C : j <= top
    BY <1>1, <1>7, <2>1, MaxIsGreatest
  <2> HIDE DEF top
  <2>3. top \in 1 .. n /\ n <= top
    BY <1>7, <2>1, <2>2
  <2>4. top = n
    BY <1>1, <2>3
  <2> QED
    BY <1>3, <1>5, <2>1, <2>4 DEF top
<1>6. CASE ~ writes
  BY <1>2, <1>3, <1>4, <1>6
<1> QED
  BY <1>5, <1>6

(* Tracking one more instruction keeps what is known of registers right. *)
LEMMA RegsFollow ==
  ASSUME CodeInv, RegsInv, NEW ins \in DriverCode, initCode' = Append(initCode, ins),
         regValues' = IF ins.at = NoCode THEN regValues ELSE Track(regValues, ins.op)
  PROVE  RegsInv'
<1> DEFINE n == Len(initCode) + 1
           op == ins.op
           nowKnown == /\ ins.at # NoCode /\ op.kind = "lea"
                      /\ op.reg \in GeneralRegs /\ op.addr \in CodeAddresses
<1>1. /\ n \in Nat /\ n >= 1 /\ initCode'[n] = ins /\ Len(initCode') = n
      /\ \A j \in 1 .. n - 1 : initCode'[j] = initCode[j]
  BY CodeGrows
<1>2. RegsKnown(n)
  BY <1>1 DEF RegsInv
<1>3. IF nowKnown
      THEN regValues' = [r \in DOMAIN regValues \cup {op.reg} |->
                           IF r = op.reg THEN op.addr ELSE regValues[r]]
      ELSE regValues' = regValues
  BY DEF Track
<1>4. /\ DOMAIN regValues \subseteq GeneralRegs
      /\ \A r \in DOMAIN regValues : regValues[r] \in CodeAddresses
  BY DEF RegsInv
<1>5. /\ DOMAIN regValues' \subseteq GeneralRegs
      /\ \A r \in DOMAIN regValues' : regValues'[r] \in CodeAddresses
  BY <1>3, <1>4
<1>6. ASSUME NEW r \in GeneralRegs, NEW m, m = n
      PROVE  /\ LastWriter(m + 1, r)' # 0 /\ IsCodeLea(LastWriter(m + 1, r))' =>
                  /\ r \in DOMAIN regValues'
                  /\ regValues'[r] = initCode'[LastWriter(m + 1, r)'].op.addr
             /\ NoLea(m + 1, r)' => r \notin DOMAIN regValues'
  <2> DEFINE lw == LastWriter(m, r)
             next == LastWriter(m + 1, r)'
             writes == ins.at # NoCode /\ WritesReg(op, r)
  <2>1. next = IF writes THEN m ELSE lw
    BY <1>6, NextWriter
  <2>2. /\ lw # 0 /\ IsCodeLea(lw) =>
             r \in DOMAIN regValues /\ regValues[r] = initCode[lw].op.addr
        /\ NoLea(m, r) => r \notin DOMAIN regValues
    BY <1>2, <1>6 DEF RegsKnown
  <2>3. lw \in 0 .. m - 1
    BY <1>1, <1>6, LastWriterIs
  <2>4. NoLea(m + 1, r)' => NoLea(m, r) /\ ~ (ins.at # NoCode /\ op.kind = "lea" /\ op.reg = r)
    <3>1. \A j \in 1 .. m - 1 : j \in 1 .. (m + 1) - 1 /\ initCode'[j] = initCode[j]
      BY <1>1, <1>6
    <3>2. m \in 1 .. (m + 1) - 1 /\ initCode'[m] = ins
      BY <1>1, <1>6
    <3> QED
      BY <3>1, <3>2 DEF NoLea
  <2>5. IsCodeLea(LastWriter(m + 1, r))' <=>
          initCode'[next].op.kind = "lea" /\ initCode'[next].op.addr \in CodeAddresses
    BY DEF IsCodeLea
  <2> HIDE DEF lw, next
  <2>6. CASE writes
    <3>1. next = m /\ initCode'[next].op = op
      BY <1>1, <1>6, <2>1, <2>6
    <3>2. IsCodeLea(LastWriter(m + 1, r))' => nowKnown
      BY <2>5, <2>6, <3>1 DEF WritesReg
    <3>3. IsCodeLea(LastWriter(m + 1, r))' => r \in DOMAIN regValues' /\ regValues'[r] = op.addr
      BY <1>3, <2>6, <3>2 DEF WritesReg
    <3>4. NoLea(m + 1, r)' => r \notin DOMAIN regValues'
      BY <1>3, <2>2, <2>4
    <3> QED
      BY <3>1, <3>3, <3>4 DEF next
  <2>7. CASE ~ writes
    <3>1. next = lw
      BY <2>1, <2>7
    <3>2. r \in DOMAIN regValues' <=> r \in DOMAIN regValues
      BY <1>3, <2>7 DEF WritesReg
    <3>3. r \in DOMAIN regValues => regValues'[r] = regValues[r]
      BY <1>3, <2>7 DEF WritesReg
    <3>4. lw # 0 => initCode'[lw] = initCode[lw]
      BY <1>1, <1>6, <2>3
    <3>5. lw # 0 /\ IsCodeLea(LastWriter(m + 1, r))' => IsCodeLea(lw)
      BY <2>5, <3>1, <3>4 DEF IsCodeLea
    <3>6. next # 0 /\ IsCodeLea(LastWriter(m + 1, r))' =>
            r \in DOMAIN regValues' /\ regValues'[r] = initCode'[next].op.addr
      BY <2>2, <3>1, <3>2, <3>3, <3>4, <3>5
    <3>7. NoLea(m + 1, r)' => r \notin DOMAIN regValues'
      BY <2>2, <2>4, <3>2
    <3> QED
      BY <3>6, <3>7 DEF next
  <2> QED
    BY <2>6, <2>7
<1>7. \A k \in Nat : k = Len(initCode') + 1 => RegsKnown(k)'
  <2> SUFFICES ASSUME NEW k \in Nat, k = Len(initCode') + 1 PROVE RegsKnown(k)'
    OBVIOUS
  <2>1. PICK m : m = n /\ k = m + 1
    BY <1>1
  <2>2. RegsKnown(m + 1)'
    BY <1>6, <2>1 DEF RegsKnown
  <2> QED
    BY <2>1, <2>2
<1> QED
  BY <1>5, <1>7 DEF RegsInv

-----------------------------------------------------------------------------
(* The stores reported *)

(* What a row says of the store at i. *)
SaysOfStore(row, i) ==
  LET src == initCode[i].op.src
      lw  == LastWriter(i, src)
  IN  src \in GeneralRegs =>
        /\ lw # 0 /\ IsCodeLea(lw) => row.target = initCode[lw].op.addr
        /\ NoLea(i, src) => row.target = NoCode

(* An index is that of the entry at the offset. *)
GoodIndex(row) ==
  row.index = NoCode \/ row.index * EntryWidth + FirstMajor = row.offset

Stores == Kept(initCode, DriverStores)

(* There is a row for each store, in order, and it says what the store *)
(* did.                                                                *)
RowsInv ==
  /\ IsSeq(assigned) /\ IsSeq(callbacks)
  /\ \A k \in 1 .. Len(assigned) :
       /\ assigned[k].at \in 1 .. Len(initCode)
       /\ SaysOfStore(assigned[k], assigned[k].at)
       /\ GoodIndex(assigned[k])
  /\ Len(assigned) = Len(Stores)
  /\ \A k \in 1 .. Len(assigned) : assigned[k].at = Stores[k].at

LEMMA IndexIsRight ==
  ASSUME NEW offset
  PROVE  \/ MajorFunctionIndex(offset) = NoCode
         \/ MajorFunctionIndex(offset) * EntryWidth + FirstMajor = offset
<1> SUFFICES ASSUME /\ offset \in FirstMajor .. LastMajor
                    /\ (offset - FirstMajor) % EntryWidth = 0
             PROVE  MajorFunctionIndex(offset) * EntryWidth + FirstMajor = offset
  BY DEF MajorFunctionIndex
<1> DEFINE d == offset - FirstMajor
           w == EntryWidth
<1>1. d \in Nat /\ w \in Nat \ {0} /\ d % w = 0 /\ FirstMajor \in Nat /\ offset \in Nat
  BY DriverAssumption
<1>2. MajorFunctionIndex(offset) = d \div w
  BY DEF MajorFunctionIndex
<1>4. d + FirstMajor = offset
  BY <1>1
<1> HIDE DEF d, w
<1>3. (d \div w) * w = d
  BY <1>1
<1> QED
  BY <1>2, <1>3, <1>4 DEF w

LEMMA RowsStay ==
  ASSUME CodeInv, RowsInv, NEW ins \in DriverCode, initCode' = Append(initCode, ins)
  PROVE  /\ \A k \in 1 .. Len(assigned) :
              /\ assigned[k].at \in 1 .. Len(initCode')
              /\ \A row : row = assigned[k] => SaysOfStore(row, row.at)'
         /\ Stores' = IF ins \in DriverStores THEN Append(Stores, ins) ELSE Stores
<1>1. /\ Len(initCode') = Len(initCode) + 1 /\ Len(initCode) \in Nat
      /\ \A j \in 1 .. Len(initCode) : initCode'[j] = initCode[j]
      /\ \A i \in 1 .. Len(initCode) + 1 : \A r :
           /\ LastWriter(i, r)' = LastWriter(i, r)
           /\ NoLea(i, r)' <=> NoLea(i, r)
  BY CodeGrows
<1>2. Stores' = IF ins \in DriverStores THEN Append(Stores, ins) ELSE Stores
  BY KeptAppend DEF CodeInv, Stores, DriverStores
<1>3. ASSUME NEW i \in 1 .. Len(initCode), NEW row, SaysOfStore(row, i)
      PROVE  SaysOfStore(row, i)'
  <2> DEFINE src == initCode[i].op.src
             lw == LastWriter(i, src)
  <2>1. /\ initCode'[i] = initCode[i] /\ LastWriter(i, src)' = lw
        /\ NoLea(i, src)' <=> NoLea(i, src)
    BY <1>1
  <2> QED
    BY <1>1, <1>3, <2>1, LastWriterIs DEF SaysOfStore, IsCodeLea
<1> QED
  BY <1>1, <1>2, <1>3 DEF RowsInv

LEMMA StoreSays ==
  ASSUME CodeInv, RegsInv, NEW n, n = Len(initCode) + 1,
         NEW ins \in DriverCode, ins.op.kind = "store", ins.at # NoCode,
         initCode' = Append(initCode, ins), regValues' = regValues,
         NEW row, row.target = StoreTarget(regValues, ins.op.src)
  PROVE  SaysOfStore(row, n)'
<1> DEFINE src == ins.op.src
           lw == LastWriter(n, src)
<1>1. /\ n \in Nat /\ n >= 1 /\ initCode'[n] = ins
      /\ \A j \in 1 .. n - 1 : initCode'[j] = initCode[j]
  BY CodeGrows
<1>2. /\ LastWriter(n, src)' = lw /\ (NoLea(n, src)' <=> NoLea(n, src))
  <2>1. n \in 1 .. Len(initCode) + 1
    BY <1>1
  <2> QED
    BY <2>1, CodeGrows
<1>3. lw \in 0 .. n - 1
  BY <1>1, LastWriterIs
<1>4. RegsKnown(n) /\ DOMAIN regValues \subseteq GeneralRegs
  BY <1>1 DEF RegsInv
<1>5. ASSUME src \in GeneralRegs, lw # 0, IsCodeLea(lw)
      PROVE  row.target = initCode[lw].op.addr
  BY <1>4, <1>5 DEF RegsKnown, StoreTarget
<1>6. ASSUME src \in GeneralRegs, NoLea(n, src)
      PROVE  row.target = NoCode
  <2>1. src \notin DOMAIN regValues
    BY <1>4, <1>6 DEF RegsKnown
  <2> QED
    BY <1>6, <2>1, DriverAssumption DEF StoreTarget, AsAddress
<1>7. lw # 0 => initCode'[lw] = initCode[lw]
  BY <1>1, <1>3
<1>8. initCode'[n].op.src = src
  BY <1>1
<1> HIDE DEF lw
<1>9. \A r : r = src => LastWriter(n, r)' = lw /\ (NoLea(n, r)' <=> NoLea(n, r))
  BY <1>2
<1> QED
  BY <1>3, <1>5, <1>6, <1>7, <1>8, <1>9 DEF SaysOfStore, IsCodeLea

LEMMA StoresAre ==
  ASSUME NEW store \in DriverStores
  PROVE  store.op.kind = "store" /\ store.op.base = DriverRegister
BY DEF DriverStores

(* Reading a store adds its row. *)
LEMMA RowsGrow ==
  ASSUME CodeInv, RegsInv, RowsInv, NEW op \in DriverOps, Len(initCode) < ScanLimit,
         NEW ins, ins = [at |-> Len(initCode) + 1, op |-> op],
         initCode' = Append(initCode, ins),
         regValues' = Track(regValues, op),
         assigned' = Assign(assigned, ins, regValues'),
         callbacks' = Register(callbacks, ins, regValues')
  PROVE  RowsInv'
<1> PICK n : n = Len(initCode) + 1
  OBVIOUS
<1> DEFINE isStore == op.kind = "store" /\ op.base = DriverRegister
           m == Len(assigned)
<1>1. /\ ins \in DriverCode /\ ins.at = n /\ ins.op = op /\ n \in Nat /\ n \in 1 .. ScanLimit
      /\ ins.at # NoCode
  <2>1. Len(initCode) \in Nat
    BY LenProperties DEF CodeInv
  <2> QED
    BY <2>1, DriverAssumption DEF DriverCode
<1>2. /\ \A k \in 1 .. m : /\ assigned[k].at \in 1 .. Len(initCode')
                           /\ \A row : row = assigned[k] => SaysOfStore(row, row.at)'
      /\ Stores' = IF ins \in DriverStores THEN Append(Stores, ins) ELSE Stores
      /\ Len(initCode') = n
  BY <1>1, RowsStay, CodeGrows
<1>3. ins \in DriverStores <=> isStore
  <2>1. ins = [at |-> n, op |-> op]
    OBVIOUS
  <2>2. ASSUME isStore PROVE ins \in DriverStores
    BY <1>1, <2>1, <2>2 DEF DriverStores
  <2>3. ASSUME ins \in DriverStores PROVE isStore
    BY <1>1, <2>3, StoresAre
  <2> QED
    BY <2>2, <2>3
<1>4. /\ IsSeq(assigned) /\ IsSeq(callbacks) /\ m \in Nat /\ m = Len(Stores)
      /\ \A k \in 1 .. m : /\ SaysOfStore(assigned[k], assigned[k].at) /\ GoodIndex(assigned[k])
                           /\ assigned[k].at = Stores[k].at
  BY SeqIs DEF RowsInv
<1>5. IsSeq(callbacks')
  BY <1>4, IsSeqAppend DEF Register
<1>6. IsSeq(Stores)
  BY KeptIsSeq DEF CodeInv, Stores, IsSeq
<1>7. CASE ~ isStore
  <2>1. assigned' = assigned /\ Stores' = Stores
    BY <1>1, <1>2, <1>3, <1>7 DEF Assign
  <2>2. \A k \in 1 .. m : SaysOfStore(assigned[k], assigned[k].at)'
    <3> TAKE k \in 1 .. m
    <3>1. PICK row : row = assigned[k]
      OBVIOUS
    <3>2. SaysOfStore(row, row.at)'
      BY <1>2, <3>1
    <3> QED
      BY <2>1, <3>1, <3>2
  <2> QED
    BY <1>2, <1>4, <1>5, <2>1, <2>2 DEF RowsInv, GoodIndex
<1>8. CASE isStore
  <2>0. PICK new : new = [at |-> ins.at, offset |-> op.offset,
                        index |-> MajorFunctionIndex(op.offset),
                        target |-> StoreTarget(regValues', op.src)]
    OBVIOUS
  <2>1. /\ new.at = n /\ new.target = StoreTarget(regValues', op.src) /\ GoodIndex(new)
    BY <1>1, <2>0, IndexIsRight DEF GoodIndex
  <2>2. assigned' = Append(assigned, new)
    BY <1>1, <1>8, <2>0 DEF Assign
  <2>3. regValues' = regValues
    BY <1>8 DEF Track
  <2>4. SaysOfStore(new, n)'
    BY <1>1, <1>8, <2>1, <2>3, StoreSays
  <2>5. /\ IsSeq(assigned') /\ Len(assigned') = m + 1 /\ assigned'[m + 1] = new
        /\ \A k \in 1 .. m : assigned'[k] = assigned[k]
    <3>1. /\ IsSeq(Append(assigned, new)) /\ Len(Append(assigned, new)) = Len(assigned) + 1
          /\ Append(assigned, new)[Len(assigned) + 1] = new
          /\ \A k \in 1 .. Len(assigned) : Append(assigned, new)[k] = assigned[k]
      BY <1>4, IsSeqAppend
    <3> QED
      BY <2>2, <3>1
  <2>6. /\ Len(Stores') = m + 1 /\ Stores'[m + 1] = ins
        /\ \A k \in 1 .. m : Stores'[k] = Stores[k]
    <3>1. Stores' = Append(Stores, ins)
      BY <1>2, <1>3, <1>8
    <3>2. /\ Len(Append(Stores, ins)) = Len(Stores) + 1
          /\ Append(Stores, ins)[Len(Stores) + 1] = ins
          /\ \A k \in 1 .. Len(Stores) : Append(Stores, ins)[k] = Stores[k]
      BY <1>6, IsSeqAppend
    <3> QED
      BY <1>4, <3>1, <3>2
  <2>7. \A k \in 1 .. m + 1 : k = m + 1 \/ k \in 1 .. m
    BY <1>4
  <2>8. ASSUME NEW k \in 1 .. m + 1
        PROVE  /\ assigned'[k].at \in 1 .. Len(initCode')
               /\ SaysOfStore(assigned[k], assigned[k].at)'
               /\ GoodIndex(assigned'[k])
               /\ assigned'[k].at = Stores'[k].at
    <3>1. CASE k = m + 1
      <4>1. PICK row, i : row = new /\ i = n /\ k = Len(assigned) + 1
        BY <3>1
      <4>2. SaysOfStore(row, i)'
        BY <2>4, <4>1
      <4>3. row = assigned'[k] /\ i = assigned'[k].at
        BY <2>1, <2>5, <4>1
      <4>4. SaysOfStore(assigned[k], assigned[k].at)'
        BY <4>2, <4>3
      <4> QED
        BY <1>1, <1>2, <2>1, <2>5, <2>6, <3>1, <4>4
    <3>2. CASE k \in 1 .. m
      <4>1. PICK row : row = assigned[k]
        OBVIOUS
      <4>2. SaysOfStore(row, row.at)'
        BY <1>2, <3>2, <4>1
      <4>3. row = assigned'[k]
        BY <2>5, <3>2, <4>1
      <4>4. SaysOfStore(assigned[k], assigned[k].at)'
        BY <4>2, <4>3
      <4> QED
        BY <1>2, <1>4, <2>5, <2>6, <3>2, <4>4
    <3> QED
      BY <2>7, <3>1, <3>2
  <2> QED
    BY <1>5, <2>5, <2>6, <2>8 DEF RowsInv
<1> QED
  BY <1>7, <1>8

-----------------------------------------------------------------------------
(* Suggestions *)

LEMMA SuggestRows ==
  ASSUME NEW rows, IsSeq(rows)
  PROVE  \E out : /\ out[0] = <<>> /\ \A n \in 0 .. Len(rows) : IsSeq(out[n])
                  /\ \A n \in 1 .. Len(rows) : out[n] = PushSuggestion(out[n - 1], rows[n])
                  /\ Suggest(rows) = out[Len(rows)]
<1> DEFINE len == Len(rows)
           S == {[addr |-> rows[j].target, kind |-> rows[j].kind] : j \in 1 .. len}
           V == Seq(S)
           step == [n \in 1 .. len |-> [v \in V |-> PushSuggestion(v, rows[n])]]
           Outs(h) == [n \in 0 .. len |->
                         IF n = 0 THEN <<>> ELSE PushSuggestion(h[n - 1], rows[n])]
<1>1. len \in Nat
  BY SeqIs
<1>2. <<>> \in V
  BY EmptySeq
<1>3. \A n \in 1 .. len, v \in V : PushSuggestion(v, rows[n]) \in V
  <2> TAKE n \in 1 .. len, v \in V
  <2> DEFINE e == [addr |-> rows[n].target, kind |-> rows[n].kind]
  <2>1. e \in S
    OBVIOUS
  <2>2. PushSuggestion(v, rows[n]) \in {v, Append(v, e)}
    BY DEF PushSuggestion
  <2> HIDE DEF S, e
  <2>3. Append(v, e) \in Seq(S)
    BY <2>1, AppendProperties
  <2> QED
    BY <2>2, <2>3
<1> HIDE DEF S
<1>4. \A v \in V : IsSeq(v)
  BY DEF IsSeq
<1> HIDE DEF V
<1>5. step \in [1 .. len -> [V -> V]]
  BY <1>3
<1>6. PICK h \in [0 .. len -> V] :
        h[0] = <<>> /\ \A k \in 1 .. len : h[k] = step[k][h[k - 1]]
  <2> DEFINE base == <<>>
  <2> HIDE DEF step, len, base
  <2>0. base \in V
    BY <1>2 DEF base
  <2>1. PICK h : Stepwise(h, len, V, base, step)
    BY <1>1, <1>5, <2>0, StepByStep
  <2> QED
    BY <2>1 DEF Stepwise, base
<1>7. \A k \in 1 .. len : h[k] = PushSuggestion(h[k - 1], rows[k])
  <2> TAKE k \in 1 .. len
  <2>1. h[k - 1] \in V
    BY <1>1, <1>6
  <2> QED
    BY <1>6, <2>1
<1> HIDE DEF step
<1>8. h = Outs(h)
  <2>1. h = [n \in 0 .. len |-> h[n]]
    BY <1>6
  <2>2. \A n \in 0 .. len : h[n] = IF n = 0 THEN <<>> ELSE PushSuggestion(h[n - 1], rows[n])
    <3> TAKE n \in 0 .. len
    <3>1. n = 0 \/ n \in 1 .. len
      BY <1>1
    <3> QED
      BY <1>6, <1>7, <3>1
  <2> QED
    BY <2>1, <2>2, Zenon
<1> DEFINE M == CHOOSE m : m = Outs(m)
<1>9. M = Outs(M)
  BY <1>8
<1>10. Suggest(rows) = M[len]
  BY DEF Suggest
<1> HIDE DEF M
<1>11. M[0] = <<>> /\ \A n \in 1 .. len : M[n] = PushSuggestion(M[n - 1], rows[n])
  <2>1. 0 \in 0 .. len /\ \A n \in 1 .. len : n \in 0 .. len /\ n # 0
    BY <1>1
  <2>2. \A n \in 0 .. len : M[n] = IF n = 0 THEN <<>> ELSE PushSuggestion(M[n - 1], rows[n])
    BY <1>9, Zenon
  <2> QED
    BY <2>1, <2>2
<1>12. \A n \in 0 .. len : M[n] \in V
  <2> DEFINE G == {n \in 0 .. len : M[n] \in V}
  <2>1. 0 \in G
    BY <1>1, <1>2, <1>11
  <2>2. \A n \in 1 .. len : n - 1 \in G => n \in G
    BY <1>3, <1>11
  <2> HIDE DEF G
  <2>3. \A n \in 0 .. len : n \in G
    BY <1>1, <2>1, <2>2, ClimbTo
  <2> QED
    BY <2>3 DEF G
<1> QED
  BY <1>4, <1>10, <1>11, <1>12

(* What is suggested of the first n rows. *)
Suggested(out, rows, n) ==
  /\ IsSeq(out)
  /\ \A i \in 1 .. Len(out) :
       \E j \in 1 .. n :
         /\ out[i].addr = rows[j].target /\ out[i].kind = rows[j].kind
         /\ rows[j].target # NoCode
         /\ \A m \in 1 .. j - 1 : rows[m].target # rows[j].target
  /\ \A j \in 1 .. n :
       rows[j].target # NoCode => \E i \in 1 .. Len(out) : out[i].addr = rows[j].target
  /\ \A i, k \in 1 .. Len(out) : out[i].addr = out[k].addr => i = k

LEMMA OneMoreRow ==
  ASSUME NEW out, NEW rows, NEW n \in Nat \ {0}, Suggested(out, rows, n - 1)
  PROVE  Suggested(PushSuggestion(out, rows[n]), rows, n)
<1> DEFINE row == rows[n]
           e == [addr |-> row.target, kind |-> row.kind]
           new == PushSuggestion(out, row)
           len == Len(out)
<1>1. IsSeq(out) /\ len \in Nat /\ DOMAIN out = 1 .. len
  BY SeqIs DEF Suggested
<1>2. /\ \A j \in 1 .. n : j = n \/ j \in 1 .. n - 1
      /\ \A j \in 1 .. n - 1 : j \in 1 .. n
      /\ n \in 1 .. n
  OBVIOUS
<1>3. CASE row.target = NoCode \/ \E i \in 1 .. len : out[i].addr = row.target
  <2>1. new = out
    BY <1>1, <1>3 DEF PushSuggestion
  <2>2. \A j \in 1 .. n :
          rows[j].target # NoCode => \E i \in 1 .. Len(out) : out[i].addr = rows[j].target
    BY <1>2, <1>3 DEF Suggested
  <2> HIDE DEF new
  <2>3. Suggested(out, rows, n)
    BY <1>2, <2>2 DEF Suggested
  <2> QED
    BY <2>1, <2>3 DEF new
<1>4. CASE row.target # NoCode /\ \A i \in 1 .. len : out[i].addr # row.target
  <2>1. new = Append(out, e) /\ e.addr = row.target /\ e.kind = row.kind
    BY <1>1, <1>4 DEF PushSuggestion
  <2> HIDE DEF new, e
  <2>2. /\ IsSeq(Append(out, e)) /\ Len(Append(out, e)) = Len(out) + 1
        /\ Append(out, e)[Len(out) + 1] = e
        /\ \A i \in 1 .. Len(out) : Append(out, e)[i] = out[i]
    BY <1>1, IsSeqAppend
  <2>3. /\ IsSeq(new) /\ Len(new) = len + 1 /\ new[len + 1] = e
        /\ \A i \in 1 .. len : new[i] = out[i]
    BY <2>1, <2>2
  <2>4. /\ \A i \in 1 .. len + 1 : i = len + 1 \/ i \in 1 .. len
        /\ len + 1 \in 1 .. len + 1 /\ \A i \in 1 .. len : i \in 1 .. len + 1
    BY <1>1
  <2>5. /\ \A i \in 1 .. len :
             \E j \in 1 .. n - 1 :
               /\ out[i].addr = rows[j].target /\ out[i].kind = rows[j].kind
               /\ rows[j].target # NoCode
               /\ \A m \in 1 .. j - 1 : rows[m].target # rows[j].target
        /\ \A j \in 1 .. n - 1 :
             rows[j].target # NoCode => \E i \in 1 .. len : out[i].addr = rows[j].target
        /\ \A i, k \in 1 .. len : out[i].addr = out[k].addr => i = k
    BY DEF Suggested
  <2> HIDE DEF len
  <2>6. ASSUME NEW i \in 1 .. len + 1
        PROVE  \E j \in 1 .. n :
                 /\ new[i].addr = rows[j].target /\ new[i].kind = rows[j].kind
                 /\ rows[j].target # NoCode
                 /\ \A m \in 1 .. j - 1 : rows[m].target # rows[j].target
    <3>1. CASE i = len + 1
      <4>1. \A m \in 1 .. n - 1 : rows[m].target # rows[n].target
        BY <1>4, <2>5
      <4> QED
        BY <1>2, <1>4, <2>1, <2>3, <3>1, <4>1
    <3>2. CASE i \in 1 .. len
      BY <1>2, <2>3, <2>5, <3>2
    <3> QED
      BY <2>4, <3>1, <3>2
  <2>7. ASSUME NEW j \in 1 .. n, rows[j].target # NoCode
        PROVE  \E i \in 1 .. len + 1 : new[i].addr = rows[j].target
    <3>1. CASE j = n
      BY <2>1, <2>3, <2>4, <3>1
    <3>2. CASE j \in 1 .. n - 1
      BY <2>3, <2>4, <2>5, <2>7, <3>2
    <3> QED
      BY <1>2, <3>1, <3>2
  <2>8. \A i, k \in 1 .. len + 1 : new[i].addr = new[k].addr => i = k
    BY <1>4, <2>1, <2>3, <2>4, <2>5
  <2> QED
    BY <2>3, <2>6, <2>7, <2>8 DEF Suggested, new
<1> QED
  BY <1>3, <1>4

LEMMA SuggestIs ==
  ASSUME NEW rows, IsSeq(rows)
  PROVE  Suggested(Suggest(rows), rows, Len(rows))
<1> DEFINE len == Len(rows)
<1>1. len \in Nat
  BY SeqIs
<1>2. PICK out : /\ out[0] = <<>> /\ \A n \in 0 .. len : IsSeq(out[n])
                 /\ \A n \in 1 .. len : out[n] = PushSuggestion(out[n - 1], rows[n])
                 /\ Suggest(rows) = out[len]
  BY SuggestRows
<1> DEFINE G == {n \in 0 .. len : Suggested(out[n], rows, n)}
<1>3. 0 \in G
  <2>1. Len(out[0]) = 0 /\ 1 .. 0 = {} /\ IsSeq(out[0]) /\ 0 \in 0 .. len
    BY <1>1, <1>2, EmptySeq
  <2>2. Suggested(out[0], rows, 0)
    BY <2>1 DEF Suggested
  <2> QED
    BY <2>1, <2>2
<1>4. \A n \in 1 .. len : n - 1 \in G => n \in G
  <2> SUFFICES ASSUME NEW n \in 1 .. len, n - 1 \in G PROVE n \in G
    OBVIOUS
  <2>1. n \in Nat \ {0} /\ Suggested(out[n - 1], rows, n - 1) /\ n \in 0 .. len
    BY <1>1
  <2>2. Suggested(PushSuggestion(out[n - 1], rows[n]), rows, n)
    BY <2>1, OneMoreRow
  <2> QED
    BY <1>2, <2>1, <2>2
<1> HIDE DEF G
<1>5. \A n \in 0 .. len : n \in G
  BY <1>1, <1>3, <1>4, ClimbTo
<1>6. len \in G
  BY <1>1, <1>5
<1> QED
  BY <1>2, <1>6 DEF G

LEMMA TargetRowsAre ==
  ASSUME IsSeq(assigned), IsSeq(callbacks)
  PROVE  IsSeq(TargetRows)
<1> DEFINE s == [i \in DOMAIN assigned |-> [target |-> assigned[i].target,
                                            kind   |-> <<"slot", assigned[i].offset>>]]
           t == [i \in DOMAIN callbacks |-> [target |-> callbacks[i].target,
                                             kind |-> <<"notify", 0>>]]
           m == Len(assigned)
           n == Len(callbacks)
<1>1. m \in Nat /\ n \in Nat /\ DOMAIN assigned = 1 .. m /\ DOMAIN callbacks = 1 .. n
  BY SeqIs
<1>2. /\ DOMAIN s = 1 .. m /\ s = [i \in 1 .. m |-> s[i]]
      /\ DOMAIN t = 1 .. n /\ t = [i \in 1 .. n |-> t[i]]
  BY <1>1
<1>3. TargetRows = s \o t
  BY DEF TargetRows
<1> HIDE DEF s, t, m, n
<1>4. IsSeq(s) /\ IsSeq(t)
  BY <1>1, <1>2, MapIsSeq
<1> QED
  BY <1>3, <1>4, IsSeqConcat

(* When the tool is done it has suggested each target once. *)
SuggestInv ==
  ddPc = "done" =>
    IsSeq(TargetRows) /\ Suggested(suggested, TargetRows, Len(TargetRows))

LEMMA SuggestInvIsEnough ==
  ASSUME SuggestInv
  PROVE  SuggestedOnce
<1> SUFFICES ASSUME ddPc = "done" PROVE SuggestedOnce
  BY DEF SuggestedOnce
<1> DEFINE rows == TargetRows
           len == Len(TargetRows)
<1>1. IsSeq(rows) /\ Suggested(suggested, rows, len)
  BY DEF SuggestInv
<1>2. /\ DOMAIN rows = 1 .. len /\ len \in Nat
      /\ DOMAIN suggested = 1 .. Len(suggested)
  BY <1>1, SeqIs DEF Suggested
<1>3. /\ \A i \in DOMAIN suggested :
           \E j \in 1 .. len :
             /\ suggested[i].addr = rows[j].target /\ suggested[i].kind = rows[j].kind
             /\ rows[j].target # NoCode
             /\ \A m \in 1 .. j - 1 : rows[m].target # rows[j].target
      /\ \A j \in 1 .. len :
           rows[j].target # NoCode => \E i \in DOMAIN suggested : suggested[i].addr = rows[j].target
      /\ \A i, k \in DOMAIN suggested : suggested[i].addr = suggested[k].addr => i = k
  BY <1>1, <1>2 DEF Suggested
<1> HIDE DEF rows, len
<1>4. {suggested[i].addr : i \in DOMAIN suggested}
        = {rows[i].target : i \in DOMAIN rows} \ {NoCode}
  BY <1>2, <1>3
<1>5. ASSUME NEW i \in DOMAIN suggested
      PROVE  suggested[i].kind = rows[Min({j \in DOMAIN rows : rows[j].target = suggested[i].addr})].kind
  <2> DEFINE T == {j \in DOMAIN rows : rows[j].target = suggested[i].addr}
             least == Min(T)
  <2>1. PICK j \in 1 .. len :
          /\ suggested[i].addr = rows[j].target /\ suggested[i].kind = rows[j].kind
          /\ \A m \in 1 .. j - 1 : rows[m].target # rows[j].target
    BY <1>3
  <2>2. T \subseteq Nat /\ j \in T
    BY <1>2, <2>1
  <2>3. T \subseteq 1 .. len /\ \A k \in T : rows[k].target = rows[j].target
    BY <1>2, <2>1
  <2> HIDE DEF T
  <2>4. Min(T) \in T /\ \A k \in T : Min(T) <= k
    BY <2>2, MinIsLeast
  <2> HIDE DEF least
  <2>5. least \in 1 .. len /\ least <= j /\ rows[least].target = rows[j].target
    BY <2>2, <2>3, <2>4 DEF least
  <2>6. least = j
    BY <1>2, <2>1, <2>5
  <2> QED
    BY <2>1, <2>6 DEF least, T
<1> QED
  BY <1>3, <1>4, <1>5 DEF SuggestedOnce, rows

-----------------------------------------------------------------------------
(* The scan *)

DispatchInv ==
  /\ CodeInv /\ RegsInv /\ RowsInv /\ SuggestInv
  /\ ddPc \in {"idle", "scan", "done", "failed"}

LEMMA ScanRests ==
  ASSUME RegsInv, RowsInv, UNCHANGED <<initCode, regValues, assigned, callbacks>>
  PROVE  RegsInv' /\ RowsInv'
<1>1. /\ initCode' = initCode /\ regValues' = regValues
      /\ assigned' = assigned /\ callbacks' = callbacks
  OBVIOUS
<1>2. \A i, r : LastWriter(i, r)' = LastWriter(i, r) /\ (NoLea(i, r)' <=> NoLea(i, r))
  BY <1>1 DEF LastWriter, NoLea
<1>3. \A i : IsCodeLea(i)' <=> IsCodeLea(i)
  BY <1>1 DEF IsCodeLea
<1>4. RegsInv'
  <2>1. \A n : RegsKnown(n)' <=> RegsKnown(n)
    BY <1>1, <1>2, <1>3 DEF RegsKnown
  <2> QED
    BY <1>1, <2>1 DEF RegsInv
<1>5. RowsInv'
  <2>1. \A row, i : SaysOfStore(row, i)' <=> SaysOfStore(row, i)
    BY <1>1, <1>2, <1>3 DEF SaysOfStore
  <2>2. Stores' = Stores
    BY <1>1 DEF Stores
  <2>3. \A k \in 1 .. Len(assigned) : SaysOfStore(assigned[k], assigned[k].at)'
    <3> TAKE k \in 1 .. Len(assigned)
    <3>1. PICK row : row = assigned[k]
      OBVIOUS
    <3>2. SaysOfStore(row, row.at)
      BY <3>1 DEF RowsInv
    <3>3. PICK i : i = row.at
      OBVIOUS
    <3>4. SaysOfStore(row, i)'
      BY <2>1, <3>2, <3>3
    <3> QED
      BY <1>1, <3>1, <3>3, <3>4
  <2> QED
    BY <1>1, <2>2, <2>3 DEF RowsInv, GoodIndex
<1> QED
  BY <1>4, <1>5

LEMMA DispatchInitInv ==
  ASSUME DispatchInit
  PROVE  DispatchInv
<1>1. /\ ddPc = "idle" /\ initCode = <<>> /\ assigned = <<>> /\ callbacks = <<>>
      /\ regValues = <<>>
  BY DEF DispatchInit
<1>2. /\ <<>> \in Seq(DriverCode) /\ Len(<<>>) = 0 /\ DOMAIN (<<>>) = {} /\ IsSeq(<<>>)
      /\ 1 .. 0 = {}
  BY EmptySeq DEF IsSeq
<1>3. CodeInv
  <2>1. initCode \in Seq(DriverCode) /\ Len(initCode) = 0
    BY <1>1, <1>2
  <2> QED
    BY <2>1, DriverAssumption DEF CodeInv
<1>4. RegsInv
  <2>1. Len(initCode) = 0 /\ DOMAIN regValues = {}
    BY <1>1, <1>2
  <2>2. \A r : LastWriter(1, r) = 0
    <3> TAKE r
    <3>1. WritersBefore(1, r) = {}
      BY DEF WritersBefore
    <3> QED
      BY <3>1 DEF LastWriter, WritersBefore
  <2> QED
    BY <2>1, <2>2 DEF RegsInv, RegsKnown
<1>5. RowsInv
  <2>1. Stores = <<>>
    <3>1. KeptUpTo(initCode, DriverStores)[0] = <<>>
      BY <1>3, KeptRows DEF CodeInv
    <3>2. Len(initCode) = 0
      BY <1>1, <1>2
    <3> QED
      BY <3>1, <3>2 DEF Stores, Kept
  <2>2. Len(assigned) = 0 /\ Len(Stores) = 0 /\ IsSeq(assigned) /\ IsSeq(callbacks)
    BY <1>1, <1>2, <2>1
  <2> QED
    BY <1>2, <2>2 DEF RowsInv
<1> QED
  BY <1>1, <1>3, <1>4, <1>5 DEF DispatchInv, SuggestInv

(* Every step keeps the invariant. *)
LEMMA DispatchStepInv ==
  ASSUME DispatchInv, [DispatchNext]_ddVars
  PROVE  DispatchInv'
<1>1. CASE DispatchStart \/ DispatchFails \/ UNCHANGED ddVars
  <2>1. UNCHANGED <<initCode, regValues, assigned, callbacks, suggested>>
    BY <1>1 DEF DispatchStart, DispatchFails, ddVars
  <2>2. ddPc' \in {"idle", "scan", "done", "failed"} /\ (ddPc' = "done" => ddPc = "done")
    BY <1>1 DEF DispatchStart, DispatchFails, ddVars, DispatchInv
  <2>3. CodeInv' /\ SuggestInv'
    BY <2>1, <2>2 DEF DispatchInv, CodeInv, SuggestInv, TargetRows
  <2>4. RegsInv'
    BY <2>1, ScanRests DEF DispatchInv
  <2>5. RowsInv'
    BY <2>1, ScanRests DEF DispatchInv
  <2> QED
    BY <2>2, <2>3, <2>4, <2>5 DEF DispatchInv
<1>2. CASE DropShortAddress
  <2>1. PICK op \in DriverOps : initCode' = Append(initCode, [at |-> NoCode, op |-> op])
    BY <1>2 DEF DropShortAddress
  <2>2. PICK ins : ins = [at |-> NoCode, op |-> op]
    OBVIOUS
  <2>3. /\ ins \in DriverCode /\ ins.at = NoCode /\ initCode' = Append(initCode, ins)
        /\ ddPc = "scan" /\ Len(initCode) < ScanLimit
        /\ UNCHANGED <<ddPc, regValues, assigned, callbacks, suggested>>
    BY <1>2, <2>1, <2>2 DEF DropShortAddress, DriverCode
  <2>4. CodeInv'
    <3>1. initCode' \in Seq(DriverCode) /\ Len(initCode') = Len(initCode) + 1 /\ Len(initCode) \in Nat
      BY <2>3, CodeGrows DEF DispatchInv
    <3> QED
      BY <2>3, <3>1, DriverAssumption DEF CodeInv
  <2>5. RegsInv'
    BY <2>3, RegsFollow DEF DispatchInv
  <2>6. RowsInv'
    <3>1. /\ \A k \in 1 .. Len(assigned) :
               /\ assigned[k].at \in 1 .. Len(initCode')
               /\ \A row : row = assigned[k] => SaysOfStore(row, row.at)'
          /\ Stores' = IF ins \in DriverStores THEN Append(Stores, ins) ELSE Stores
      BY <2>3, RowsStay DEF DispatchInv
    <3>2. ins \notin DriverStores
      BY <2>3, DriverAssumption DEF DriverStores
    <3>3. \A k \in 1 .. Len(assigned) : SaysOfStore(assigned[k], assigned[k].at)'
      <4> TAKE k \in 1 .. Len(assigned)
      <4>1. PICK row : row = assigned[k]
        OBVIOUS
      <4>2. SaysOfStore(row, row.at)'
        BY <3>1, <4>1
      <4> QED
        BY <2>3, <4>1, <4>2
    <3> QED
      BY <2>3, <3>1, <3>2, <3>3 DEF DispatchInv, RowsInv, GoodIndex
  <2> QED
    BY <2>3, <2>4, <2>5, <2>6 DEF DispatchInv, SuggestInv
<1>3. CASE ScanInstruction
  <2>1. PICK op, ins :
          /\ op \in DriverOps
          /\ ins = [at |-> Len(initCode) + 1, op |-> op]
          /\ initCode' = Append(initCode, ins)
          /\ regValues' = Track(regValues, op)
          /\ assigned' = Assign(assigned, ins, regValues')
          /\ callbacks' = Register(callbacks, ins, regValues')
    BY <1>3 DEF ScanInstruction
  <2>2. ddPc = "scan" /\ ddPc' = "scan" /\ Len(initCode) < ScanLimit
    BY <1>3 DEF ScanInstruction
  <2>3. ins \in DriverCode /\ ins.at # NoCode /\ ins.op = op /\ Len(initCode) \in Nat
    <3>1. Len(initCode) \in Nat
      BY LenProperties DEF DispatchInv, CodeInv
    <3> QED
      BY <2>1, <2>2, <3>1, DriverAssumption DEF DriverCode
  <2>4. CodeInv'
    <3>1. initCode' \in Seq(DriverCode) /\ Len(initCode') = Len(initCode) + 1
      BY <2>1, <2>3, CodeGrows DEF DispatchInv
    <3> QED
      BY <2>2, <2>3, <3>1, DriverAssumption DEF CodeInv
  <2>5. RegsInv'
    BY <2>1, <2>3, RegsFollow DEF DispatchInv
  <2>6. RowsInv'
    BY <2>1, <2>2, RowsGrow DEF DispatchInv
  <2> QED
    BY <2>2, <2>4, <2>5, <2>6 DEF DispatchInv, SuggestInv
<1>4. CASE WindowEnds
  <2>1. /\ suggested' = Suggest(TargetRows) /\ ddPc' = "done"
        /\ UNCHANGED <<initCode, regValues, assigned, callbacks>>
    BY <1>4 DEF WindowEnds
  <2>2. CodeInv'
    BY <2>1 DEF DispatchInv, CodeInv
  <2>3. RegsInv'
    BY <2>1, ScanRests DEF DispatchInv
  <2>4. RowsInv'
    BY <2>1, ScanRests DEF DispatchInv
  <2>5. SuggestInv'
    <3>1. IsSeq(TargetRows)
      BY TargetRowsAre DEF DispatchInv, RowsInv
    <3>2. Suggested(Suggest(TargetRows), TargetRows, Len(TargetRows))
      BY <3>1, SuggestIs
    <3>3. TargetRows' = TargetRows
      BY <2>1 DEF TargetRows
    <3> QED
      BY <2>1, <3>1, <3>2, <3>3 DEF SuggestInv
  <2> QED
    BY <2>1, <2>2, <2>3, <2>4, <2>5 DEF DispatchInv
<1> QED
  BY <1>1, <1>2, <1>3, <1>4 DEF DispatchNext

(* The invariant holds the properties that are checked of a driver. *)
LEMMA DispatchInvIsEnough ==
  ASSUME DispatchInv
  PROVE  DispatchTypeOK /\ LeaIsReported /\ StoresInOrder /\ SuggestedOnce
<1>1. DOMAIN assigned = 1 .. Len(assigned) /\ IsSeq(Stores) /\ Len(assigned) \in Nat
      /\ DOMAIN Stores = 1 .. Len(Stores)
  <2>1. IsSeq(assigned)
    BY DEF DispatchInv, RowsInv
  <2>2. IsSeq(Stores)
    BY KeptIsSeq DEF DispatchInv, CodeInv, Stores, IsSeq
  <2> QED
    BY <2>1, <2>2, SeqIs
<1>2. DispatchTypeOK
  BY <1>1 DEF DispatchInv, DispatchTypeOK, CodeInv, RegsInv, RowsInv, GoodIndex
<1>3. LeaIsReported
  BY <1>1 DEF DispatchInv, RowsInv, LeaIsReported, SaysOfStore, IsCodeLea, NoLea
<1>4. StoresInOrder
  <2>1. Len(assigned) = Len(Stores) /\ \A k \in 1 .. Len(assigned) : assigned[k].at = Stores[k].at
    BY DEF DispatchInv, RowsInv
  <2> QED
    BY <1>1, <2>1 DEF StoresInOrder, Stores
<1> QED
  BY <1>2, <1>3, <1>4, SuggestInvIsEnough DEF DispatchInv

=============================================================================
