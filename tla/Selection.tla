------------------------------ MODULE Selection ------------------------------
(***************************************************************************)
(* What iterator.filter(..).collect() leaves of a sequence, and what sort  *)
(* and dedup make of a set of numbers.  SelectSeq and SetToSortSeq are the *)
(* same; they have no definition the proofs could use.                     *)
(***************************************************************************)
EXTENDS Integers, Sequences, FiniteSets

(* Of the first n members of s, those in T, for each n. *)
KeptUpTo(s, T) ==
  LET kept[n \in 0 .. Len(s)] ==
        IF n = 0 THEN <<>>
        ELSE IF s[n] \in T THEN Append(kept[n - 1], s[n]) ELSE kept[n - 1]
  IN  kept

Kept(s, T) == KeptUpTo(s, T)[Len(s)]

Ascending(s) == \A j, k \in DOMAIN s : j < k => s[j] < s[k]

Sorted(S) == CHOOSE s \in [1 .. Cardinality(S) -> S] : Ascending(s)

=============================================================================
