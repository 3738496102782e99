--------------------------- MODULE MCAsmOverride ---------------------------
(***************************************************************************)
(* Small instances of AsmOverride for TLC: an x86-64 binary with 16-bit    *)
(* and ARM code in it.                                                     *)
(***************************************************************************)
EXTENDS AsmOverride, TLC

Binary == [arch |-> "x86", bits |-> 64]

BothFields == [arch |-> "arm", bits |-> 16]
ArchOnly   == [arch |-> "arm", bits |-> Unset]
BitsOnly   == [arch |-> Unset, bits |-> 16]

AllWays == {BothFields, ArchOnly, BitsOnly}

Symmetry == Permutations(Handlers)
=============================================================================
