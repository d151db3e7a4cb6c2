---------------------------- MODULE MCWriteQueue ----------------------------
(***************************************************************************)
(* The instance of WriteQueue for TLC: two writes are enough for one to be *)
(* in hand while another waits, is appended, executed at once or refused.  *)
(* No symmetry, because the run checks liveness.                           *)
(***************************************************************************)
EXTENDS WriteQueue, TLC
=============================================================================
