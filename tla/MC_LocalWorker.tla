-------------------------- MODULE MC_LocalWorker --------------------------
(* Instance of LocalWorker for TLC: two workers share one gpu.              *)
EXTENDS LocalWorker

MCPriority == [k \in Key |-> k]
MCKind == [k \in Key |-> "h3-video"]
MCNeed == [k \in Key |-> 1]
MCKindSets == {{"h3-video"}}
MCGpuOf == [w \in Worker |-> CHOOSE g \in Gpu : TRUE]
=============================================================================
