--------------------------- MODULE MCExtractBytes ---------------------------
(***************************************************************************)
(* Small instances of ExtractBytes for TLC: a short and a long extraction. *)
(***************************************************************************)
EXTENDS ExtractBytes, TLC

ShortAndLong == {<<1>>, <<2, 2>>}

Symmetry == Permutations(Requests) \cup Permutations(Paths)
=============================================================================
