---------------------------- MODULE MC_LlmEngine ----------------------------
(* Instance of LlmEngine for TLC: two clients, two slots. *)
EXTENDS LlmEngine, TLC

\* Two prompts that share a prefix of two tokens
Forks == {<<1, 2, 3>>, <<1, 2, 4>>}
\* A pool with room for all, with prefix sharing, and a tight one without
RoomyAndTight == {[share |-> TRUE, pool |-> 12], [share |-> FALSE, pool |-> 7]}
=============================================================================
