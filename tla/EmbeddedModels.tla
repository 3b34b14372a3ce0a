--------------------------- MODULE EmbeddedModels ---------------------------
(***************************************************************************)
(* The life of the LLM and of the embedding model inside the gateway,      *)
(* src/src/main.c over src/src/backend_llama.c.  Five parties load, unload *)
(* and use them:                                                           *)
(*   - chat requests reload an evicted LLM (llm_ensure_loaded), embed their *)
(*     text in the guard, wait for permits and generate;                   *)
(*   - an exclusive background window (handle_proxy_as_tier for 3D and     *)
(*     training) unloads both models, relays, and reloads both;            *)
(*   - the pressure hook of the VRAM broker evicts an idle LLM;            *)
(*   - the admin routes load, unload and swap the LLM.                     *)
(* ollm_init and ollm_shutdown hold g_model_lifecycle_lock for writing, a  *)
(* generation for reading.  All but the window serialise on g_llm_swap_lock.*)
(*                                                                         *)
(* Admission is the scheduler's promise (OSched): a window is admitted     *)
(* alone and holds every permit, chats hold one each.  The VRAM lease of a *)
(* reload is a choice between granted and denied (OVram).  Whether the LLM *)
(* has been idle for llm_idle_s is the variable fresh: a touch sets it,    *)
(* time clears it.                                                         *)
(***************************************************************************)
EXTENDS Integers, FiniteSets

CONSTANTS
    Chat, Window, Hook, Admin, \* the threads of each kind
    None,
    Slots,                     \* permits of the scheduler
    Model, Boot,               \* GGUFs, and OMNISERVE_NATIVE_LLM_GGUF
    LoadMayFail                \* whether a load can fail

Thread == Chat \cup Window \cup Hook \cup Admin

ModelAssumption == Boot \in Model /\ None \notin Model
ThreadAssumption == None \notin Thread /\ Chat \cap Window = {} /\ Slots \in Nat \ {0}

VARIABLES
    llm,         \* the model behind g_slots, None when ollm_ready() is false
    stranded,    \* some model was overwritten by a load and is never freed
    embed,       \* oembed_ready()
    active_path, \* g_llm_active_path
    evicted,     \* g_gs.llm_evicted
    gs_path,     \* g_gs.llm_path
    fresh,       \* used within llm_idle_s (g_gs.llm_last_used_s)
    swap_lock,   \* owner of g_llm_swap_lock
    holders,     \* threads that hold scheduler permits
    pc,          \* where each thread is
    target       \* the model an admin call loads, and the one it restores

vars == <<llm, stranded, embed, active_path, evicted, gs_path, fresh, swap_lock,
          holders, pc, target>>

PC == {"idle", "lock", "reload", "unlock", "guard", "embedding", "admit", "chat",
       "generating", "release",
       "unload_embed", "unload_llm", "relay", "reload_llm", "reload_embed",
       "evict", "load", "unload", "swap_unload", "swap_load", "swap_restore"}

\* Well-typed; only a thread that is inside a swap-lock section owns the lock.
TypeOK ==
    /\ llm \in Model \cup {None}
    /\ stranded \in BOOLEAN /\ embed \in BOOLEAN
    /\ active_path \in Model
    /\ evicted \in BOOLEAN /\ gs_path \in Model \cup {None} /\ fresh \in BOOLEAN
    /\ swap_lock \in Thread \cup {None}
    /\ holders \subseteq Chat \cup Window
    /\ pc \in [Thread -> PC]
    /\ target \in [Admin -> [next : Model, previous : Model]]
    /\ \A t \in Thread :
         t = swap_lock <=> pc[t] \in {"reload", "unlock", "evict", "load", "unload",
                                      "swap_unload", "swap_load", "swap_restore"}

\* main(): both models loaded from the environment
Init ==
    /\ llm = Boot /\ stranded = FALSE /\ embed = TRUE
    /\ active_path = Boot
    /\ evicted = FALSE /\ gs_path = None /\ fresh = TRUE
    /\ swap_lock = None
    /\ holders = {}
    /\ pc = [t \in Thread |-> "idle"]
    /\ target = [a \in Admin |-> [next |-> Boot, previous |-> Boot]]

Goto(t, at) == pc' = [pc EXCEPT ![t] = at]
models == <<llm, stranded, embed>>
scheduler == <<evicted, gs_path, fresh>>

-----------------------------------------------------------------------------
(* backend_llama.c                                                         *)

ollm_ready == llm # None

\* The write side of g_model_lifecycle_lock is free: nobody generates
NoReader == \A c \in Chat : pc[c] # "generating"

\* Seeded fault: the lifecycle lock is not taken
ollm_shutdown_NoLock == llm' = None

\* ollm_shutdown
ollm_shutdown == NoReader /\ llm' = None

\* ollm_init, when the load succeeds.  It does not look whether a model is
\* loaded: g_model and g_slots are overwritten, and what they pointed to is
\* out of reach of every later ollm_shutdown.
ollm_init(m) ==
    /\ NoReader
    /\ llm' = m
    /\ stranded' = (stranded \/ ollm_ready)

\* ollm_init, when the load fails.  g_model is gone either way; a failure before
\* the slots are made leaves g_slots as it was, a later one clears it.
ollm_init_fails ==
    /\ LoadMayFail
    /\ NoReader
    /\ stranded' = (stranded \/ ollm_ready)
    /\ llm' \in {llm, None}

-----------------------------------------------------------------------------
(* Chat requests: llm_ensure_loaded, the guard, llm_admit, ollm_chat       *)

\* The two tests in front of the lock; with no LLM and none evicted the answer
\* is 503 and nothing changes
EnsureLoaded(c) ==
    /\ pc[c] = "idle"
    /\ ollm_ready \/ evicted
    /\ fresh' = TRUE
    /\ Goto(c, IF ollm_ready THEN "guard" ELSE "lock")
    /\ UNCHANGED <<models, active_path, evicted, gs_path, swap_lock, holders, target>>

\* Seeded fault: the tests are not repeated under the lock
EnsureLock_NoRecheck(c) ==
    /\ pc[c] = "lock"
    /\ swap_lock = None
    /\ swap_lock' = c
    /\ Goto(c, "reload")
    /\ UNCHANGED <<models, active_path, scheduler, holders, target>>

\* g_llm_swap_lock, and the tests again
EnsureLock(c) ==
    /\ pc[c] = "lock"
    /\ swap_lock = None
    /\ swap_lock' = c
    /\ Goto(c, IF ~ollm_ready /\ evicted THEN "reload" ELSE "unlock")
    /\ UNCHANGED <<models, active_path, scheduler, holders, target>>

\* The lease, the load, and its placement: the lease is denied, the load lands
\* on the CPU and is unloaded again, or it fails
EnsureReload(c) ==
    /\ pc[c] = "reload"
    /\ \/ ollm_init(gs_path) /\ evicted' = FALSE
       \/ LoadMayFail /\ UNCHANGED <<llm, stranded, evicted>>
       \/ /\ LoadMayFail /\ ollm_shutdown /\ stranded' = (stranded \/ ollm_ready)
          /\ UNCHANGED evicted
       \/ ollm_init_fails /\ UNCHANGED evicted
    /\ Goto(c, "unlock")
    /\ UNCHANGED <<embed, active_path, gs_path, fresh, swap_lock, holders, target>>

EnsureUnlock(c) ==
    /\ pc[c] = "unlock"
    /\ swap_lock' = None
    /\ Goto(c, IF ollm_ready THEN "guard" ELSE "idle")
    /\ UNCHANGED <<models, active_path, scheduler, holders, target>>

\* oguard_classify embeds the text when the embedding model is ready; it holds
\* no permit and oembed_shutdown takes no lock
GuardBegin(c) ==
    /\ pc[c] = "guard"
    /\ Goto(c, IF embed THEN "embedding" ELSE "admit")
    /\ UNCHANGED <<models, active_path, scheduler, swap_lock, holders, target>>

GuardEnd(c) ==
    /\ pc[c] = "embedding"
    /\ Goto(c, "admit")
    /\ UNCHANGED <<models, active_path, scheduler, swap_lock, holders, target>>

\* llm_admit: permits, or 503 after the admission timeout
Admit(c) ==
    /\ pc[c] = "admit"
    /\ \/ /\ holders \cap Window = {} /\ Cardinality(holders) < Slots
          /\ holders' = holders \cup {c}
          /\ Goto(c, "chat")
       \/ Goto(c, "idle") /\ UNCHANGED holders
    /\ UNCHANGED <<models, active_path, scheduler, swap_lock, target>>

\* ollm_chat: the read side of the lifecycle lock; without a model it fails
ChatBegin(c) ==
    /\ pc[c] = "chat"
    /\ Goto(c, IF ollm_ready THEN "generating" ELSE "release")
    /\ UNCHANGED <<models, active_path, scheduler, swap_lock, holders, target>>

ChatEnd(c) ==
    /\ pc[c] = "generating"
    /\ Goto(c, "release")
    /\ UNCHANGED <<models, active_path, scheduler, swap_lock, holders, target>>

\* llm_release
Release(c) ==
    /\ pc[c] = "release"
    /\ holders' = holders \ {c}
    /\ Goto(c, "idle")
    /\ UNCHANGED <<models, active_path, scheduler, swap_lock, target>>

-----------------------------------------------------------------------------
(* The exclusive background window of handle_proxy_as_tier                 *)

\* Background admission: on an idle device, and with every permit
WindowAdmit(w) ==
    /\ pc[w] = "idle"
    /\ holders = {}
    /\ holders' = {w}
    /\ Goto(w, "unload_embed")
    /\ UNCHANGED <<models, active_path, scheduler, swap_lock, target>>

\* unload_embedded_models_for_background: oembed_shutdown, then ollm_shutdown
WindowUnloadEmbed(w) ==
    /\ pc[w] = "unload_embed"
    /\ embed' = FALSE
    /\ Goto(w, "unload_llm")
    /\ UNCHANGED <<llm, stranded, active_path, scheduler, swap_lock, holders, target>>

\* Seeded fault: the LLM is unloaded only when no chat is queued
WindowUnloadLlm_UnlessQueued(w) ==
    /\ pc[w] = "unload_llm"
    /\ IF \E c \in Chat : pc[c] = "admit" THEN UNCHANGED llm ELSE ollm_shutdown
    /\ Goto(w, "relay")
    /\ UNCHANGED <<stranded, embed, active_path, scheduler, swap_lock, holders, target>>

WindowUnloadLlm(w) ==
    /\ pc[w] = "unload_llm"
    /\ ollm_shutdown
    /\ Goto(w, "relay")
    /\ UNCHANGED <<stranded, embed, active_path, scheduler, swap_lock, holders, target>>

\* Seeded fault: the permits are released before the models are back
WindowRelay_ReleasesFirst(w) ==
    /\ pc[w] = "relay"
    /\ holders' = {}
    /\ Goto(w, "reload_llm")
    /\ UNCHANGED <<models, active_path, scheduler, swap_lock, target>>

\* oproxy_target_relay to the worker, whatever its outcome
WindowRelay(w) ==
    /\ pc[w] = "relay"
    /\ Goto(w, "reload_llm")
    /\ UNCHANGED <<models, active_path, scheduler, swap_lock, holders, target>>

\* reload_embedded_models_after_background: the model of the environment; a
\* failure is logged
WindowReloadLlm(w) ==
    /\ pc[w] = "reload_llm"
    /\ ollm_init(Boot) \/ ollm_init_fails
    /\ Goto(w, "reload_embed")
    /\ UNCHANGED <<embed, active_path, scheduler, swap_lock, holders, target>>

WindowReloadEmbed(w) ==
    /\ pc[w] = "reload_embed"
    /\ embed' = TRUE \/ (LoadMayFail /\ UNCHANGED embed)
    /\ Goto(w, "release")
    /\ UNCHANGED <<llm, stranded, active_path, scheduler, swap_lock, holders, target>>

WindowRelease(w) ==
    /\ pc[w] = "release"
    /\ holders' = {}
    /\ Goto(w, "idle")
    /\ UNCHANGED <<models, active_path, scheduler, swap_lock, target>>

-----------------------------------------------------------------------------
(* gpu_pressure: a waiter of the VRAM broker evicts the idle LLM           *)

PressureLock(h) ==
    /\ pc[h] = "idle"
    /\ ollm_ready /\ ~fresh
    /\ swap_lock = None
    /\ swap_lock' = h
    /\ gs_path' = active_path
    /\ Goto(h, "evict")
    /\ UNCHANGED <<models, active_path, evicted, fresh, holders, target>>

PressureEvict(h) ==
    /\ pc[h] = "evict"
    /\ ollm_shutdown
    /\ evicted' = TRUE
    /\ swap_lock' = None
    /\ Goto(h, "idle")
    /\ UNCHANGED <<stranded, embed, active_path, gs_path, fresh, holders, target>>

\* llm_idle_s passes without a touch
IdleElapses ==
    /\ fresh
    /\ fresh' = FALSE
    /\ UNCHANGED <<models, active_path, evicted, gs_path, swap_lock, holders, pc, target>>

-----------------------------------------------------------------------------
(* handle_llm_load, handle_llm_unload, handle_llm_swap                     *)

\* The lock; a load looks first whether a model is loaded, a swap remembers the
\* active configuration
AdminLock(a, op, m) ==
    /\ pc[a] = "idle"
    /\ swap_lock = None
    /\ op = "load" => ~ollm_ready
    /\ swap_lock' = a
    /\ target' = [target EXCEPT ![a] = [next |-> m, previous |-> active_path]]
    /\ Goto(a, op)
    /\ UNCHANGED <<models, active_path, scheduler, holders>>

\* llm_admin_load fails: the load does, or the path is outside the allow-list
llm_admin_load_fails ==
    ollm_init_fails \/ (LoadMayFail /\ UNCHANGED <<llm, stranded>>)

AdminEnds(a) == Goto(a, "idle") /\ swap_lock' = None

AdminUnload(a) ==
    /\ pc[a] = "unload"
    /\ ollm_shutdown
    /\ AdminEnds(a)
    /\ UNCHANGED <<stranded, embed, active_path, scheduler, holders, target>>

\* llm_admin_load of the new model
AdminLoad(a) ==
    /\ pc[a] = "load"
    /\ \/ ollm_init(target[a].next) /\ active_path' = target[a].next
       \/ llm_admin_load_fails /\ UNCHANGED active_path
    /\ AdminEnds(a)
    /\ UNCHANGED <<embed, scheduler, holders, target>>

SwapUnload(a) ==
    /\ pc[a] = "swap_unload"
    /\ ollm_shutdown
    /\ Goto(a, "swap_load")
    /\ UNCHANGED <<stranded, embed, active_path, scheduler, swap_lock, holders, target>>

SwapLoad(a) ==
    /\ pc[a] = "swap_load"
    /\ \/ ollm_init(target[a].next) /\ active_path' = target[a].next /\ AdminEnds(a)
       \/ llm_admin_load_fails /\ Goto(a, "swap_restore") /\ UNCHANGED <<active_path, swap_lock>>
    /\ UNCHANGED <<embed, scheduler, holders, target>>

\* The previous model, when the new one does not load
SwapRestore(a) ==
    /\ pc[a] = "swap_restore"
    /\ \/ ollm_init(target[a].previous) /\ active_path' = target[a].previous
       \/ llm_admin_load_fails /\ UNCHANGED active_path
    /\ AdminEnds(a)
    /\ UNCHANGED <<embed, scheduler, holders, target>>

-----------------------------------------------------------------------------

ChatStep(c) ==
    \/ EnsureLoaded(c) \/ EnsureLock(c) \/ EnsureReload(c) \/ EnsureUnlock(c)
    \/ GuardBegin(c) \/ GuardEnd(c) \/ Admit(c) \/ ChatBegin(c) \/ ChatEnd(c) \/ Release(c)

WindowStep(w) ==
    \/ WindowAdmit(w) \/ WindowUnloadEmbed(w) \/ WindowUnloadLlm(w) \/ WindowRelay(w)
    \/ WindowReloadLlm(w) \/ WindowReloadEmbed(w) \/ WindowRelease(w)

AdminStep(a) ==
    \/ \E op \in {"load", "unload", "swap_unload"}, m \in Model : AdminLock(a, op, m)
    \/ AdminUnload(a) \/ AdminLoad(a) \/ SwapUnload(a) \/ SwapLoad(a) \/ SwapRestore(a)

Next ==
    \/ \E c \in Chat : ChatStep(c)
    \/ \E w \in Window : WindowStep(w)
    \/ \E h \in Hook : PressureLock(h) \/ PressureEvict(h)
    \/ IdleElapses
    \/ \E a \in Admin : AdminStep(a)

Spec == Init /\ [][Next]_vars

-----------------------------------------------------------------------------
(* Properties                                                              *)

\* "the gateway unloads its embedded LLM and embedding model only after that
\* exclusive background admission, runs the one-shot 3D worker, reloads both
\* models" (README): while the worker runs, no embedded model is resident.
WindowClear == \A w \in Window : pc[w] = "relay" => ~ollm_ready /\ ~embed

\* A chat that was admitted finds a model: with every permit taken by the
\* window and both models back before it releases them, waiting for admission
\* across a window does not make ollm_chat fail.
AdmittedChatHasModel == \A c \in Chat : pc[c] = "chat" => ollm_ready

\* "lifecycle-safe" replacement (README): a load never overwrites a model that
\* is still resident, whose memory no ollm_shutdown would free.
NothingStranded == ~stranded

\* The model a generation uses is neither unloaded nor replaced under it
\* (g_model_lifecycle_lock), whoever evicts, unloads or swaps.
GenerationKeepsModel ==
    [][\A c \in Chat : pc[c] = "generating" /\ pc'[c] = "generating" => llm' = llm]_vars
=============================================================================
