----------------------------- MODULE MCGlobMatch -----------------------------
(***************************************************************************)
(* A small instance of GlobMatch for TLC: names with a * in them.          *)
(***************************************************************************)
EXTENDS GlobMatch, TLC

GMPatterns == UNION {[1 .. n -> {"a", "b", "*", "?"}] : n \in 0 .. 2}
GMNames == UNION {[1 .. n -> {"a", "b", "*"}] : n \in 0 .. 3}
=============================================================================
