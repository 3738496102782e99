------------------------------ MODULE MCQueries ------------------------------
(***************************************************************************)
(* Small instances of the queries for TLC.  A prefix says whose each is:   *)
(* GM GlobMatch, FD FindXrefs, PG Pages, FG FunctionGraph,                 *)
(* FA FunctionAnalysis, AM AddressMap.                                     *)
(***************************************************************************)
EXTENDS QueryTools, TLC

GMPatterns ==
  UNION {[1 .. n -> {"a", "b", "*", "?"}] : n \in 0 .. 3}
    \cup {<<"*", x, "*", y>> : x \in {"a", "?"}, y \in {"a", "b"}}
GMNames ==
  UNION {[1 .. n -> {"a", "b"}] : n \in 0 .. 4}
    \cup {<<"*", "a", "b">>, <<"a", "*", "b">>}

-----------------------------------------------------------------------------

FDRow(m, a) == [matches |-> m, addr |-> a]
FDRows == {FDRow(TRUE, 5), FDRow(FALSE, 6), FDRow(TRUE, NoAddress)}

FDInventories == {NotRows} \cup UNION {[1 .. n -> FDRows] : n \in 0 .. 3}
FDLists == {Refused} \cup UNION {[1 .. n -> {"x"}] : n \in 0 .. 3}

-----------------------------------------------------------------------------

PGRow(i, named, long) == [id |-> i, named |-> named, long |-> long]

PGLists ==
  {[i \in 1 .. n |-> PGRow(i, i \notin unnamed, i # 2)] :
     n \in 0 .. 4, unnamed \in {{}, {1}, {2, 4}}}

-----------------------------------------------------------------------------

FGBlocks(A) == [addr : A, jump : {NoTarget, 1, 2, 3, 9}, fail : {NoTarget, 2, 9}]

FGLists ==
  {<<>>} \cup {<<b>> : b \in FGBlocks({1, 2})}
    \cup {<<b, c>> : b \in FGBlocks({1}), c \in FGBlocks({1, 2})}
    \cup {<<b, c, d>> : b \in FGBlocks({1}), c \in FGBlocks({2}), d \in FGBlocks({3})}

-----------------------------------------------------------------------------

FARef(type, target) == [type |-> type, target |-> target]

FARefLists ==
  {<<>>,
   <<FARef("CALL", 5), FARef("DATA", 7), FARef("CALL", 5), FARef("CALL", 6)>>,
   <<FARef("CALL", 0), FARef("STRING", 7), FARef("DATA", 7)>>}

-----------------------------------------------------------------------------

AMSection(v, s, p) == [vaddr |-> v, size |-> s, paddr |-> p]

(* Sections that overlap, an empty one, one that ends behind the last      *)
(* address and one without a file offset.                                  *)
AMSections ==
  {AMSection(0, 2, 1), AMSection(1, 0, 3), AMSection(2, 3, 6), AMSection(5, 9, 0),
   AMSection(1, 4, NoOffset)}

AMLists ==
  {<<s>> : s \in AMSections} \cup (AMSections \X AMSections)
    \cup (AMSections \X AMSections \X AMSections)

=============================================================================
