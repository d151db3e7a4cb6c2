--------------------------- MODULE MCPumpLifecycle ---------------------------
(***************************************************************************)
(* Instances of PumpLifecycle for TLC.                                     *)
(***************************************************************************)
EXTENDS PumpLifecycle, TLC

\* What the one owner of the connection may call: everything.
OwnerCalls == AllCalls
=============================================================================
