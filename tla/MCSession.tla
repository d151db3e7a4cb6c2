----------------------------- MODULE MCSession -----------------------------
(***************************************************************************)
(* The instance of Session for TLC: a session and the one that follows it, *)
(* a scan of two config indexes, and two timers, so that one can have      *)
(* fired while another is waiting.                                         *)
(***************************************************************************)
EXTENDS Session, TLC
=============================================================================
