-------------------------- MODULE MCSessionManager --------------------------
(***************************************************************************)
(* Small instances of SessionManager for TLC: one binary, its canonical    *)
(* path and a link to it, which may both be there, or the link be gone, or *)
(* both.                                                                   *)
(***************************************************************************)
EXTENDS SessionManager, TLC

CONSTANTS bin, link

BothThere == (bin :> bin) @@ (link :> bin)
LinkGone  == (bin :> bin) @@ (link :> None)
BothGone  == (bin :> None) @@ (link :> None)

FilesOfTwoPaths == {BothThere, LinkGone, BothGone}
FilesOfOnePath  == {bin :> bin, bin :> None}
FilesStay       == {bin :> bin}

Symmetry == Permutations(Requests)
=============================================================================
