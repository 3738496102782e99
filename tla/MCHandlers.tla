------------------------------ MODULE MCHandlers ------------------------------
(***************************************************************************)
(* A small instance of the three kinds of state handlers share, for TLC.   *)
(* The instances of their modules are those of MCAsmOverride,              *)
(* MCOutputGuard and MCExtractBytes.                                       *)
(*                                                                         *)
(* The states of the three kinds together are too many.  None of the three *)
(* modules reads another one's variables, so a behaviour of the instance   *)
(* keeps to one kind and leaves the others as they began; HandlerProofs is *)
(* about SharedSpec, where all three interleave.                           *)
(***************************************************************************)
EXTENDS HandlerSteps, TLC

(* An x86-64 binary with 16-bit and ARM code in it. *)
Binary == [arch |-> "x86", bits |-> 64]

AllWays ==
  {[arch |-> "arm", bits |-> 16], [arch |-> "arm", bits |-> Unset],
   [arch |-> Unset, bits |-> 16]}

Plain == {<<1, 1>>, <<1, 1, 1, 1>>}

ShortAndLong == {<<1>>, <<2, 2>>}

Symmetry == Permutations(Handlers)

VARIABLE shared  \* the kind in use: "settings", "directory" or "paths"

(* A bound: garbled answers only in behaviours whose handlers take turns. *)
GarbledInTurns ==
  (\E h \in Handlers, f \in Fields : snapshot[h][f] = Garbled) => ~overlapped

MCInit ==
  /\ SharedInit
  /\ shared \in {"settings", "directory", "paths"}
  \* the files there were to begin with matter only to requests for paths
  /\ shared # "paths" => \A p \in Paths : parent[p] = "missing"

MCNext ==
  /\ UNCHANGED shared
  /\ IF shared = "settings" THEN TRUE ELSE UNCHANGED asmVars
  /\ IF shared = "directory" THEN TRUE ELSE UNCHANGED vars
  /\ IF shared = "paths" THEN TRUE ELSE UNCHANGED exVars
  /\ SharedNext
  /\ GarbledInTurns'

MCSpec == MCInit /\ [][MCNext]_<<shared, sharedVars>>
=============================================================================
