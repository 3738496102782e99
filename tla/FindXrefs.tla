------------------------------ MODULE FindXrefs ------------------------------
(***************************************************************************)
(* find (crates/rbm-r2/src/search.rs) and the handler of r2_find_xrefs     *)
(* (server.rs): one search, then one axtj for each hit, in order.          *)
(*                                                                         *)
(* What radare2 answers is chosen when it is asked.  A row of an inventory *)
(* is [matches, addr]: whether its name matches the pattern, and its       *)
(* address or NoAddress.                                                   *)
(***************************************************************************)
EXTENDS SequencesExt, FiniteSetsExt, Selection

CONSTANTS
  Inventories,  \* answers to the search: sequences of rows, or NotRows
  SearchTypes,  \* among "functions", "strings", "imports", "bytes" and others
  HitLimits,    \* values of limit
  XrefLimits,   \* values of max_xrefs_per_hit
  HitCap,       \* 50, what limit and max_xrefs_per_hit are cut to
  XrefLists,    \* answers to axtj: sequences of xrefs, or Refused
  NotRows, Refused, NoAddress

ASSUME FindAssumption ==
  /\ HitCap \in Nat \ {0}
  /\ HitLimits \subseteq Nat /\ XrefLimits \subseteq Nat
  /\ Inventories \ {NotRows} \subseteq Seq([matches : BOOLEAN, addr : Nat \cup {NoAddress}])
  /\ \A xs \in XrefLists \ {Refused} : xs \in Seq(ToSet(xs))

VARIABLES
  fdPc,       \* "idle", "search", "xrefs", "done" or "failed"
  searchType, hitLimit, maxXrefs,
  listed,     \* the rows radare2 answered
  hits,       \* the results of find
  answers     \* for each hit asked about so far: [answer, xrefs, count, exact]

fdVars == <<fdPc, searchType, hitLimit, maxXrefs, listed, hits, answers>>

-----------------------------------------------------------------------------
(* The searches.  All but bytes write an address they do not find as 0.    *)

Addressed(row) == [row EXCEPT !.addr = IF @ = NoAddress THEN 0 ELSE @]

(* Mutant of FirstHits: one hit above the limit. *)
FirstHitsOneMore(rows, limit) ==
  LET matching == Kept(rows, {r \in ToSet(rows) : r.matches})
      cap      == IF limit = 0 THEN Len(matching) ELSE limit + 1
  IN  SubSeq(matching, 1, Min({cap, Len(matching)}))

FirstHits(rows, limit) ==
  LET matching == Kept(rows, {r \in ToSet(rows) : r.matches})
      cap      == IF limit = 0 THEN Len(matching) ELSE limit
  IN  SubSeq(matching, 1, Min({cap, Len(matching)}))

Results(type, rows, limit) ==
  LET found == FirstHits(IF rows = NotRows THEN <<>> ELSE rows, limit)
  IN  IF type = "bytes" THEN found
      ELSE [i \in DOMAIN found |-> Addressed(found[i])]

-----------------------------------------------------------------------------

(* Mutant of CutLimit: the cap is forgotten. *)
LimitAsIs(n) == n

CutLimit(n) == Min({n, HitCap})

FindStart ==
  /\ fdPc = "idle"
  /\ \E limit \in HitLimits, most \in XrefLimits, type \in SearchTypes :
       /\ hitLimit' = CutLimit(limit)
       /\ maxXrefs' = CutLimit(most)
       /\ searchType' = type
       /\ fdPc' = IF type \in {"functions", "strings", "imports", "bytes"}
                  THEN "search" ELSE "failed"
  /\ UNCHANGED <<listed, hits, answers>>

Search ==
  /\ fdPc = "search"
  /\ \E rows \in Inventories :
       /\ (searchType = "bytes" /\ rows # NotRows) =>
            \A i \in DOMAIN rows : rows[i].matches  \* /xj lists only matches
       /\ listed' = rows
       /\ hits' = Results(searchType, rows, hitLimit)
  /\ fdPc' = "xrefs"
  /\ UNCHANGED <<searchType, hitLimit, maxXrefs, answers>>

SearchFails ==
  /\ fdPc = "search"
  /\ fdPc' = "failed"
  /\ UNCHANGED <<searchType, hitLimit, maxXrefs, listed, hits, answers>>

Answer(xs) ==
  LET list == IF xs = Refused THEN <<>> ELSE xs
  IN  [answer |-> xs, xrefs |-> SubSeq(list, 1, Min({maxXrefs, Len(list)})),
       count |-> Len(list), exact |-> Len(list) <= maxXrefs]

(* A hit without an address is not asked about; a call that fails reads as *)
(* no xrefs.                                                               *)
AskHit ==
  /\ fdPc = "xrefs" /\ Len(answers) < Len(hits)
  /\ \E xs \in IF hits[Len(answers) + 1].addr = NoAddress THEN {<<>>} ELSE XrefLists :
       answers' = Append(answers, Answer(xs))
  /\ UNCHANGED <<fdPc, searchType, hitLimit, maxXrefs, listed, hits>>

FindEnds ==
  /\ fdPc = "xrefs" /\ Len(answers) = Len(hits)
  /\ fdPc' = "done"
  /\ UNCHANGED <<searchType, hitLimit, maxXrefs, listed, hits, answers>>

FindInit ==
  /\ fdPc = "idle"
  /\ searchType = "none" /\ hitLimit = 0 /\ maxXrefs = 0
  /\ listed = <<>> /\ hits = <<>> /\ answers = <<>>

FindNext == FindStart \/ Search \/ SearchFails \/ AskHit \/ FindEnds

FindSpec == FindInit /\ [][FindNext]_fdVars

-----------------------------------------------------------------------------

FindTypeOK ==
  /\ fdPc \in {"idle", "search", "xrefs", "done", "failed"}
  /\ hitLimit \in 0 .. HitCap /\ maxXrefs \in 0 .. HitCap
  /\ Len(answers) <= Len(hits)

(***************************************************************************)
(* The hits are matching rows, in the inventory's order with none skipped, *)
(* and at most the limit when there is one; they are fewer only when the   *)
(* inventory has no more.                                                  *)
(***************************************************************************)
HitsAreFirstMatches ==
  fdPc \in {"xrefs", "done"} =>
    LET places == IF listed = NotRows THEN {}
                  ELSE {i \in DOMAIN listed : listed[i].matches}
        n      == Len(hits)
    IN  /\ n <= Cardinality(places)
        /\ hitLimit # 0 => n <= hitLimit
        /\ n < Cardinality(places) => hitLimit # 0 /\ n = hitLimit
        /\ \A i \in places :
             LET before == Cardinality({j \in places : j < i})
             IN  before < n => hits[before + 1].addr \in {listed[i].addr, 0}

(***************************************************************************)
(* One failing axtj loses no other hit: once the search is done, the       *)
(* request does not fail, and every hit of the search is reported with an  *)
(* answer of its own.                                                      *)
(***************************************************************************)
OnlyTheSearchFails ==
  /\ fdPc = "failed" => hits = <<>>
  /\ fdPc = "done" => Len(answers) = Len(hits)

(***************************************************************************)
(* What is said of the xrefs of a hit radare2 answered about is so: exact  *)
(* when and only when the whole answer is shown, the count that of the     *)
(* whole answer even so.  A hit whose axtj failed is not told from one     *)
(* without xrefs: its list is empty, and said to be exact.                 *)
(***************************************************************************)
ExactMeansWhole ==
  \A k \in DOMAIN answers :
    LET a == answers[k]
    IN  IF a.answer = Refused
        THEN a.xrefs = <<>> /\ a.count = 0 /\ a.exact
        ELSE /\ a.exact <=> a.xrefs = a.answer
             /\ a.count = Len(a.answer)
             /\ IsPrefix(a.xrefs, a.answer)

=============================================================================
