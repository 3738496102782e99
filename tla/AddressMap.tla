------------------------------ MODULE AddressMap ------------------------------
(***************************************************************************)
(* What r2_extract_bytes tells of the place the bytes come from            *)
(* (build_address_mapping, crates/rbm-server/src/support.rs): after the    *)
(* bytes are read, the address is looked up and computed, the sections are *)
(* listed, and the file offset worked out; the last two calls may fail.    *)
(*                                                                         *)
(* Addresses are numbers of a width of their own: MaxAddress stands for    *)
(* u64::MAX, and additions stop there.                                     *)
(***************************************************************************)
EXTENDS Integers, SequencesExt, FiniteSetsExt

CONSTANTS
  MaxAddress,
  SectionLists,  \* answers to iSj: sequences of [vaddr, size, paddr]
  NoOffset       \* a section without paddr, an address that is not a number

Addresses == 0 .. MaxAddress

Sections == [vaddr : Addresses, size : Nat, paddr : Addresses \cup {NoOffset}]

ASSUME AddressMapAssumption == MaxAddress \in Nat /\ SectionLists \subseteq Seq(Sections)

VARIABLES
  amPc,       \* "idle", "bytes", "lookup", "number", "sections", "done", "failed"
  address,    \* the address as a number, or NoOffset
  sections,
  mapping     \* [section, offset]: an index in sections or 0, and the offset

amVars == <<amPc, address, sections, mapping>>

-----------------------------------------------------------------------------

SaturatingAdd(a, b) == Min({a + b, MaxAddress})

(* Mutant of InSection: the section's end is inside it. *)
UpToItsEnd(s, a) == s.size > 0 /\ a >= s.vaddr /\ a <= SaturatingAdd(s.vaddr, s.size)

InSection(s, a) == s.size > 0 /\ a >= s.vaddr /\ a < SaturatingAdd(s.vaddr, s.size)

(* The first section that holds the address. *)
MapAddress(a, list) ==
  LET at == IF a = NoOffset THEN 0 ELSE SelectInSeq(list, LAMBDA s : InSection(s, a))
  IN  [section |-> at,
       offset |-> IF at = 0 \/ (at # 0 /\ list[at].paddr = NoOffset) THEN NoOffset
                  ELSE SaturatingAdd(list[at].paddr, a - list[at].vaddr)]

-----------------------------------------------------------------------------

ExtractStart ==
  /\ amPc = "idle"
  /\ amPc' \in {"bytes", "failed"}   \* a count of 0 or over 16 MiB is refused
  /\ UNCHANGED <<address, sections, mapping>>

RequiredCall ==
  /\ amPc \in {"bytes", "lookup"}
  /\ amPc' \in {IF amPc = "bytes" THEN "lookup" ELSE "number", "failed"}
  /\ UNCHANGED <<address, sections, mapping>>

(* calculate: an error, or a value that is not an unsigned number, is no   *)
(* number.                                                                 *)
NumberAddress ==
  /\ amPc = "number"
  /\ address' \in Addresses \cup {NoOffset}
  /\ amPc' = "sections"
  /\ UNCHANGED <<sections, mapping>>

(* Sections that cannot be listed are none. *)
ListSections ==
  /\ amPc = "sections"
  /\ sections' \in SectionLists \cup {<<>>}
  /\ mapping' = MapAddress(address, sections')
  /\ amPc' = "done"
  /\ UNCHANGED address

MapInit ==
  /\ amPc = "idle" /\ address = NoOffset /\ sections = <<>>
  /\ mapping = [section |-> 0, offset |-> NoOffset]

MapNext == ExtractStart \/ RequiredCall \/ NumberAddress \/ ListSections

MapSpec == MapInit /\ [][MapNext]_amVars

-----------------------------------------------------------------------------

MapTypeOK ==
  /\ amPc \in {"idle", "bytes", "lookup", "number", "sections", "done", "failed"}
  /\ address \in Addresses \cup {NoOffset}
  /\ mapping.offset \in Addresses \cup {NoOffset}

(***************************************************************************)
(* A file offset is only given for an address that lies in the section it  *)
(* is worked out from, at the distance from its start at which the address *)
(* lies in memory, as far as numbers go; and an address that no section    *)
(* holds gets none.                                                        *)
(***************************************************************************)
OffsetKeepsDistance ==
  amPc = "done" =>
    /\ mapping.section # 0 =>
         LET s == sections[mapping.section]
         IN  /\ address \in s.vaddr .. s.vaddr + s.size - 1
             /\ s.paddr # NoOffset =>
                  \/ mapping.offset - s.paddr = address - s.vaddr
                  \/ mapping.offset = MaxAddress
    /\ (mapping.section = 0 /\ address # NoOffset) =>
         /\ mapping.offset = NoOffset
         /\ \A i \in DOMAIN sections :
              address \notin sections[i].vaddr
                .. Min({sections[i].vaddr + sections[i].size, MaxAddress}) - 1

=============================================================================
