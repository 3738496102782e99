---------------------------- MODULE MCR2Session ----------------------------
(***************************************************************************)
(* A small instance of R2Session for TLC.                                  *)
(***************************************************************************)
EXTENDS R2Session, TLC
=============================================================================
