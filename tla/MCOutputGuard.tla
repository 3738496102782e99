--------------------------- MODULE MCOutputGuard ---------------------------
(***************************************************************************)
(* Small instances of OutputGuard for TLC: texts of one-byte and two-byte  *)
(* characters around the two limits.                                       *)
(***************************************************************************)
EXTENDS OutputGuard, TLC

Short   == <<1, 1>>
Aligned == <<2, 1, 2>>
Crossed == <<1, 1, 2, 1>>

Mixed == {Short, Aligned, Crossed}
=============================================================================
