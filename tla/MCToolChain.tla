------------------------------ MODULE MCToolChain ------------------------------
(* Instances of the tool chain for TLC. *)
EXTENDS ToolChainProperties

RunModes      == {-2, -1, 0, 2}
Interactively == {0}
=============================================================================
