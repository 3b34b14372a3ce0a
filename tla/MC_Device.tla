------------------------------ MODULE MC_Device ------------------------------
(* Who may use the device's memory, for TLC: the broker's promises to its    *)
(* tenants, and the life of the gateway's embedded models - with chats       *)
(* across an exclusive window (window), and with the pressure hook, admin    *)
(* calls and loads that fail (lifecycle).  A behaviour exercises one of the  *)
(* three, the part chosen initially; the variables of the others keep their  *)
(* initial value.                                                            *)
EXTENDS OVram, TLC

CONSTANTS Chat, Window, Hook, Admin, None, Slots, Model, Boot

VARIABLES part, llm, stranded, embed, active_path, evicted, gs_path, fresh, swap_lock,
          holders, model_pc, target

modelVars == <<llm, stranded, embed, active_path, evicted, gs_path, fresh, swap_lock,
               holders, model_pc, target>>
allVars == <<part, vars, modelVars>>

Call(ti, mb, min, wait) == [tier |-> ti, mb |-> mb, min |-> min, wait |-> wait]
\* A paid render that takes less if it must, and a background batch, both in the
\* gateway
MCCalls == {Call(TIER_PAID, 4, 1, 1), Call(TIER_BACKGROUND, 1, 1, 0)}
InGateway == [t \in Tenant |-> Gateway]

W == INSTANCE EmbeddedModels WITH
       Hook <- {}, Admin <- {}, LoadMayFail <- FALSE, pc <- model_pc
L == INSTANCE EmbeddedModels WITH Window <- {}, LoadMayFail <- TRUE, pc <- model_pc

ASSUME EmbeddedAssumption ==
    W!ModelAssumption /\ W!ThreadAssumption /\ L!ModelAssumption /\ L!ThreadAssumption

DeviceInit ==
    /\ part \in {"vram", "window", "lifecycle"}
    /\ Init
    /\ IF part = "window" THEN W!Init ELSE L!Init

VramMoves      == part = "vram"      /\ Next   /\ UNCHANGED <<part, modelVars>>
WindowMoves    == part = "window"    /\ W!Next /\ UNCHANGED <<part, vars>>
LifecycleMoves == part = "lifecycle" /\ L!Next /\ UNCHANGED <<part, vars>>

DeviceSpec == DeviceInit /\ [][VramMoves \/ WindowMoves \/ LifecycleMoves]_allVars

Symmetry == Permutations(Tenant)

-----------------------------------------------------------------------------
(* Properties, with those of OVram                                         *)

\* While the worker of an exclusive window runs, no embedded model is resident;
\* a chat that was admitted finds a model, although it waited for its permits
\* across a window (main.c, handle_proxy_as_tier)
WindowKept == part = "window" => W!WindowClear /\ W!AdmittedChatHasModel

\* A load never overwrites a model that is still resident (main.c over
\* backend_llama.c)
NothingStranded == part = "lifecycle" => L!TypeOK /\ L!NothingStranded

\* The model a generation uses is neither unloaded nor replaced under it
\* (backend_llama.c, g_model_lifecycle_lock)
GenerationKeepsModel ==
    [][\A c \in Chat : model_pc[c] = "generating" /\ model_pc'[c] = "generating" => llm' = llm]_modelVars
=============================================================================
