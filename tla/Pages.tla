-------------------------------- MODULE Pages --------------------------------
(***************************************************************************)
(* r2_metadata (server.rs): an inventory is read from radare2, filtered,   *)
(* and one page of it is answered.  The client, who asks for the next page *)
(* as long as it is told that there is more, is not part of the code.      *)
(* The inventory may change between two pages, as it does after a reload   *)
(* or an analysis.                                                         *)
(***************************************************************************)
EXTENDS Integers, SequencesExt, FiniteSetsExt, Selection

CONSTANTS
  Modes,       \* the modes asked for: "imports", "strings", "info", ...
  RowLists,    \* inventories: sequences of [id, named, long]
  PageLimits,  \* values of limit
  Offsets,     \* values of offset the first page is asked at
  MaxPages,    \* a bound on the pages of one client
  MaxChanges   \* a bound on the changes of the inventory

ASSUME PagesAssumption ==
  /\ PageLimits \subseteq Nat /\ Offsets \subseteq Nat
  /\ MaxPages \in Nat \ {0} /\ MaxChanges \in Nat
  /\ \A rs \in RowLists : rs \in Seq(ToSet(rs))

VARIABLES
  pgPc,      \* "idle", "ask", "done"
  mode, pageLimit, withFilter,
  first, offset,  \* where the first and the next page start
  rows,      \* the inventory
  pages,     \* the answers so far: [offset, rows, total, returned, truncated]
  changes

pgVars == <<pgPc, mode, pageLimit, withFilter, first, offset, rows, pages, changes>>

-----------------------------------------------------------------------------

Paginates(m) ==
  m \in {"entry_points", "sections", "relocations", "resources", "libraries",
         "imports", "exports", "symbols", "strings", "functions"}

(* r2_metadata_value: only five modes look at the filter, and only strings *)
(* at the length.                                                          *)
Filtered(m, all) ==
  Kept(all, {r \in ToSet(all) :
    /\ m \in {"imports", "exports", "symbols", "strings", "functions"} /\ withFilter
         => r.named
    /\ m = "strings" => r.long})

(* Mutant of Paginate: an offset that counts from one. *)
SkipOneLess(all, from, limit) ==
  LET start == IF from = 0 THEN 0 ELSE from - 1
      upto  == IF limit = 0 THEN Len(all) ELSE start + limit
  IN  SubSeq(all, start + 1, Min({upto, Len(all)}))

(* filters::paginate *)
Paginate(all, from, limit) ==
  LET upto == IF limit = 0 THEN Len(all) ELSE from + limit
  IN  SubSeq(all, from + 1, Min({upto, Len(all)}))

(* paginate_with_counts *)
PaginateWithCounts(all, from, limit) ==
  LET page == Paginate(all, from, limit)
  IN  [offset |-> from, rows |-> page, total |-> Len(all), returned |-> Len(page),
       truncated |-> limit # 0 /\ Len(all) > from + Len(page)]

-----------------------------------------------------------------------------

PagesStart ==
  /\ pgPc = "idle"
  /\ mode' \in Modes /\ pageLimit' \in PageLimits /\ withFilter' \in BOOLEAN
  /\ first' \in Offsets /\ offset' = first'
  /\ rows' \in RowLists
  /\ pgPc' = "ask"
  /\ UNCHANGED <<pages, changes>>

(* A mode that is not paginated answers the whole inventory. *)
AskPage ==
  /\ pgPc = "ask" /\ Len(pages) < MaxPages
  /\ LET all  == Filtered(mode, rows)
         page == IF Paginates(mode)
                 THEN PaginateWithCounts(all, offset, pageLimit)
                 ELSE [offset |-> 0, rows |-> all, total |-> Len(all),
                       returned |-> Len(all), truncated |-> FALSE]
     IN  /\ pages' = Append(pages, page)
         /\ offset' = offset + page.returned
         /\ pgPc' = IF page.truncated THEN "ask" ELSE "done"
  /\ UNCHANGED <<mode, pageLimit, withFilter, first, rows, changes>>

PageFails ==
  /\ pgPc = "ask"
  /\ pgPc' = "failed"
  /\ UNCHANGED <<mode, pageLimit, withFilter, first, offset, rows, pages, changes>>

InventoryChanges ==
  /\ pgPc = "ask" /\ changes < MaxChanges
  /\ rows' \in RowLists \ {rows}
  /\ changes' = changes + 1
  /\ UNCHANGED <<pgPc, mode, pageLimit, withFilter, first, offset, pages>>

PagesInit ==
  /\ pgPc = "idle"
  /\ mode = "none" /\ pageLimit = 0 /\ withFilter = FALSE /\ first = 0 /\ offset = 0
  /\ rows = <<>> /\ pages = <<>> /\ changes = 0

PagesNext == PagesStart \/ AskPage \/ PageFails \/ InventoryChanges

PagesSpec == PagesInit /\ [][PagesNext]_pgVars /\ WF_pgVars(AskPage)

-----------------------------------------------------------------------------

PagesTypeOK ==
  /\ pgPc \in {"idle", "ask", "done", "failed"}
  /\ offset \in Nat /\ changes \in 0 .. MaxChanges
  /\ \A k \in DOMAIN pages :
       /\ pages[k].returned = Len(pages[k].rows)
       /\ pages[k].returned <= pages[k].total
       /\ pageLimit # 0 /\ Paginates(mode) => pages[k].returned <= pageLimit

(***************************************************************************)
(* The pages of a client who follows truncated show, one after the other,  *)
(* every row that passes the filter from the first offset on, none twice   *)
(* and none left out, when the inventory stays what it was.                *)
(***************************************************************************)
PagesCoverRows ==
  (changes = 0 /\ Paginates(mode)) =>
    LET all == Filtered(mode, rows)
        end(p) == p.offset + Len(p.rows)
    IN  /\ \A k \in DOMAIN pages :
             /\ first <= pages[k].offset
             /\ \A j \in DOMAIN pages[k].rows :
                  /\ pages[k].offset + j \in DOMAIN all
                  /\ pages[k].rows[j] = all[pages[k].offset + j]
        /\ \A k, l \in DOMAIN pages : k < l => end(pages[k]) <= pages[l].offset
        /\ \A i \in first + 1 .. IF pgPc = "done" THEN Len(all) ELSE offset :
             \E k \in DOMAIN pages : i \in pages[k].offset + 1 .. end(pages[k])

(***************************************************************************)
(* Even while the inventory changes, total and truncated tell of the       *)
(* inventory the page was cut from: more is announced when rows beyond the *)
(* page existed, and a page that announces more is full.                   *)
(***************************************************************************)
TruncatedTellsMore ==
  \A k \in DOMAIN pages :
    LET p == pages[k]
    IN  Paginates(mode) =>
          /\ p.truncated <=> pageLimit # 0 /\ p.offset + p.returned < p.total
          /\ p.truncated => p.returned = pageLimit

(***************************************************************************)
(* A client who asks on is told at last that there is no more.             *)
(***************************************************************************)
PagesEnd == (pgPc = "ask") ~> (pgPc \in {"done", "failed"})

=============================================================================
