----------------------------- MODULE MCIsolated -----------------------------
(***************************************************************************)
(* Instances of Isolated for TLC.                                          *)
(***************************************************************************)
EXTENDS Isolated, TLC
=============================================================================
