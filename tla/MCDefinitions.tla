---------------------------- MODULE MCDefinitions ----------------------------
(* Instances of Definitions for TLC.                                        *)
EXTENDS Definitions, TLC

Symmetry == Permutations(SubId) \cup Permutations(VarId)

Nothing == {}
AnyRestore == AllEnv \ {"shareVars", "lateSubscribe"}
LateSubscribe == {"lateSubscribe"}
SimStart == {"simStart"}
=============================================================================
