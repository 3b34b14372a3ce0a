-------------------------- MODULE MC_EmbeddedModels --------------------------
(* Instance of EmbeddedModels for TLC: the hook evicts during a window.     *)
EXTENDS EmbeddedModels

=============================================================================
