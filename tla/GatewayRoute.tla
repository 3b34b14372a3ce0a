---------------------------- MODULE GatewayRoute ----------------------------
(***************************************************************************)
(* route of src/src/main.c: which handler each path of the gateway leads   *)
(* to, what the request is checked for on the way, how many permits it     *)
(* asks the scheduler for and at which tier; and the handlers that share   *)
(* the device with the lanes of GatewayLanes: the embedded embedding and   *)
(* text handlers, the sibling image models, the relays that take the       *)
(* embedded models off the device, and the chat compatibility layer, which *)
(* sends the request back to this gateway.                                 *)
(*                                                                         *)
(* A path is named by its last words.  What a worker answers is not        *)
(* modelled, and Admission stands for the scheduler.                       *)
(***************************************************************************)
EXTENDS Integers, FiniteSets, TLC

CONSTANTS
    Worker,        \* worker threads of the HTTP server, one request each
    Slots,
    Query,         \* requests: path, method, cred, tier, form, model
    Configured,    \* the upstreams that have an address
    Flags,         \* the switches that are on
    Need,          \* permits of each lane
    CompatPermits  \* OMNISERVE_NATIVE_CHAT_COMPAT_PERMITS

VARIABLES
    permits, alone, waiting,  \* the scheduler, see Admission
    at,           \* where each worker is
    job,          \* what route decided for its request
    origin,       \* the worker whose relay this request is, or NoWorker
    replied,      \* the worker's own relay to this gateway was answered
    loaded,       \* the embedded models on the device
    lost          \* the models whose last load failed

sched == <<permits, alone, waiting>>
routeVars == <<sched, at, job, origin, replied, loaded, lost>>

Adm == INSTANCE Admission WITH Client <- Worker

\* The permits of a lane are clamped to the slots, those of the compatibility
\* layer are what was configured (configured_permits, env_int).
RouteAssumption ==
    /\ Slots \in Nat \ {0} /\ CompatPermits \in Nat
    /\ IsFiniteSet(Worker)

NoWorker == "none"
Model == {"llm", "embed"}

----------------------------------------------------------------------------
(* The decision.                                                           *)

Reply == [does |-> "reply", need |-> 0, background |-> FALSE, swap |-> FALSE]

\* The embedded models give way to a background relay to these two workers.
Swaps == {"threed", "training"}

\* handle_proxy_as_tier: the tier is the caller's unless the route pins it
Relay(q, target, need, pinned) ==
    LET background == pinned \/ q.tier = "background"
    IN  IF target \notin Configured THEN Reply
        ELSE [does |-> "relay", need |-> need, background |-> background,
              swap |-> background /\ target \in Swaps]

\* A handler of an embedded model, under n permits at the caller's tier
Embedded(q, handler, n) ==
    [does |-> handler, need |-> n, background |-> q.tier = "background", swap |-> FALSE]

\* The model each of these handlers uses
Uses == [chat |-> "llm", completion |-> "llm", summary |-> "llm", embedding |-> "embed"]

FirstOf(a, b) == IF a \in Configured THEN a ELSE b

\* Caller keys and the shared secret; without a secret, loopback callers and,
\* if the gateway is open, everybody
authorized(q) ==
    \/ q.cred \in {"key", "secret"}
    \/ "secret" \notin Flags /\ (q.cred = "local" \/ "open" \in Flags)

ops_authorized(q) ==
    \/ q.cred \in {"local", "key", "secret"}
    \/ "secret" \notin Flags /\ "open" \in Flags

Guarded(q, methods, auth, decision) ==
    IF q.method \notin methods THEN Reply
    ELSE IF auth = "user" /\ ~authorized(q) THEN Reply
    ELSE IF auth = "ops" /\ ~ops_authorized(q) THEN Reply
    ELSE decision

----------------------------------------------------------------------------
(* The text routes.  A chat goes to the multimodal worker, to the          *)
(* compatibility layer unless that is where it comes from, to a text       *)
(* worker, or to the embedded model.                                       *)

\* Seeded fault: the relay to the compatibility layer takes a chat's permits.
Chat_HoldsTwo(q) ==
    IF q.form = "parts" THEN Relay(q, FirstOf("multimodal", "aux"), Need["multimodal"], FALSE)
    ELSE IF "aux" \in Configured /\ "chat_compat" \in Flags /\ q.form # "inner"
    THEN [Relay(q, "aux", Need["llm"], FALSE) EXCEPT !.does = "hop"]
    ELSE IF "llm" \in Configured THEN Relay(q, "llm", Need["llm"], FALSE)
    ELSE Embedded(q, "chat", Need["llm"])

Chat(q) ==
    IF q.form = "parts" THEN Relay(q, FirstOf("multimodal", "aux"), Need["multimodal"], FALSE)
    ELSE IF "aux" \in Configured /\ "chat_compat" \in Flags /\ q.form # "inner"
    THEN [Relay(q, "aux", CompatPermits, FALSE) EXCEPT !.does = "hop"]
    ELSE IF "llm" \in Configured THEN Relay(q, "llm", Need["llm"], FALSE)
    ELSE Embedded(q, "chat", Need["llm"])

Completion(q) ==
    IF "llm" \in Configured /\ ~(q.path = "autocomplete" /\ "autocomplete_local" \in Flags /\
                                 "llm" \in loaded)
    THEN Relay(q, "llm", Need["llm"], FALSE)
    ELSE Embedded(q, "completion", Need["llm"])

\* without the embedded model a summary goes to the auxiliary worker
Summary(q) ==
    IF "llm" \in loaded THEN Embedded(q, "summary", Need["llm"])
    ELSE Relay(q, "aux", Need["aux"], FALSE)

Embedding(q) ==
    IF "embed" \in loaded THEN Embedded(q, "embedding", Need["embedding"])
    ELSE Relay(q, FirstOf("embedding", "aux"), Need["embedding"], FALSE)

TextRoute(q) ==
    CASE q.path = "chat" -> Guarded(q, {"POST"}, "user", Chat(q))
      [] q.path \in {"completions", "autocomplete"} -> Guarded(q, {"POST"}, "user", Completion(q))
      [] q.path = "summarization" -> Guarded(q, {"POST"}, "user", Summary(q))
      [] q.path = "embeddings" -> Guarded(q, {"POST"}, "user", Embedding(q))

----------------------------------------------------------------------------
(* The image routes.  A request that names a sibling model queues for the  *)
(* device like the local image lane; an edit without one is converted for  *)
(* the default sibling unless an editor or a local reference edit takes it. *)

Sibling(q) ==
    [does |-> "relay", need |-> Need["image"], background |-> q.tier = "background",
     swap |-> FALSE]

relay_image_model(q) == "siblings" \in Flags /\ q.model = "sibling"

relay_image_edit_default(q) ==
    /\ "siblings" \in Flags /\ q.path = "edits"
    /\ q.form = "multipart" \/ ("editor" \notin Configured /\ "reference_edit" \notin Flags)

\* handle_images: the lane of GatewayLanes; here what it asks for
Diffusion(q) == Sibling(q)

Images(q) ==
    IF relay_image_model(q) \/ relay_image_edit_default(q) THEN Sibling(q)
    ELSE CASE q.path = "generations" ->
                IF "image" \in Configured /\ "prefer_embedded_image" \notin Flags
                THEN Relay(q, "image", Need["image"], FALSE) ELSE Diffusion(q)
           [] q.path = "img2img" -> Diffusion(q)
           [] q.path = "edits" ->
                IF "reference_edit" \in Flags THEN Diffusion(q)
                ELSE Relay(q, "editor", 1, FALSE)
           [] q.path = "segmentations" -> Relay(q, "editor", 1, FALSE)

ImageRoute(q) == Guarded(q, {"POST"}, "user", Images(q))

----------------------------------------------------------------------------
(* The worker routes: the methods, who may call, the upstream, the permits *)
(* and whether the route pins the background tier.                         *)

Row(methods, auth, target, need, pinned) ==
    [methods |-> methods, auth |-> auth, target |-> target, need |-> need, pinned |-> pinned]

MediaRows ==
    [captions        |-> Row({"POST"}, "user", "image", Need["image"], FALSE),
     loras           |-> Row({"GET"}, "user", "image", 0, FALSE),
     style           |-> Row({"GET", "POST"}, "user", "art", Need["art"], TRUE),
     backgrounds     |-> Row({"POST"}, "user", "art", Need["art"], TRUE),
     cutout_jobs     |-> Row({"GET", "POST"}, "user", "birefnet", 1, FALSE),
     foreground_jobs |-> Row({"GET", "POST"}, "user", "birefnet", 1, FALSE),
     video_jobs      |-> Row({"GET", "POST"}, "user", "birefnet", 1, TRUE)]

WorkerRows ==
    [cutouts         |-> Row({"POST"}, "user", "birefnet", Need["birefnet"], FALSE),
     hair_layers     |-> Row({"POST"}, "user", "birefnet", Need["birefnet"], FALSE),
     depth           |-> Row({"POST"}, "user", "depth", Need["depth"], FALSE),
     animations      |-> Row({"POST"}, "user", "animation", Need["animation"], TRUE),
     expressions     |-> Row({"POST"}, "user", "liveportrait", Need["liveportrait"], TRUE),
     motion          |-> Row({"POST"}, "user", "motion", Need["motion"], FALSE),
     3d              |-> Row({"POST"}, "user", "threed", Need["threed"], TRUE),
     3d_assets       |-> Row({"GET"}, "user", "threed", 1, FALSE)]

ServiceRows ==
    [music           |-> Row({"POST"}, "user", "music", 0, FALSE),
     speech          |-> Row({"POST"}, "user", "tts", Need["tts"], FALSE),
     speech_catalog  |-> Row({"GET"}, "user", "tts", 0, FALSE),
     transcriptions  |-> Row({"POST"}, "user", "stt", Need["stt"], FALSE),
     training_status |-> Row({"GET", "POST"}, "ops", "training", 0, FALSE),
     training_run    |-> Row({"POST"}, "ops", "training", Need["training"], TRUE),
     multimodal      |-> Row({"POST"}, "user", FirstOf("multimodal", "aux"), Need["multimodal"], FALSE),
     image_worker    |-> Row({"GET", "POST"}, "user", FirstOf("image_worker", "image"), Need["image"], FALSE),
     synthesize      |-> Row({"GET", "POST"}, "user", "tts", Need["tts"], FALSE),
     transcribe      |-> Row({"GET", "POST"}, "user", "stt", Need["stt"], FALSE),
     forecast        |-> Row({"POST"}, "user", "forecast", Need["forecast"], FALSE),
     bulk            |-> Row({"POST"}, "user", "aux", Need["aux"], FALSE),
     files           |-> Row({"GET", "POST"}, "user", "aux", Need["aux"], FALSE),
     backend         |-> Row({"GET", "POST"}, "user", "llm", Need["llm"], FALSE)]

\* video generation: a billable tier on its own worker, or idle-only batch work
Video(q) ==
    IF "h3" \in Configured
    THEN (IF q.tier = "paid" THEN Relay(q, "h3", Need["h3"], FALSE) ELSE Reply)
    ELSE Relay(q, "image", Need["image"], TRUE)

\* Seeded fault: no worker is given more than one permit.
Tabled_OnePermit(q, rows) ==
    LET r == rows[q.path]
    IN  Guarded(q, r.methods, r.auth,
                Relay(q, r.target, IF r.need > 0 THEN 1 ELSE 0, r.pinned))

Tabled(q, rows) ==
    LET r == rows[q.path]
    IN  Guarded(q, r.methods, r.auth, Relay(q, r.target, r.need, r.pinned))

\* the list of models, the auxiliary worker's if that is asked for
Models(q) == IF "models_compat" \in Flags THEN Relay(q, "aux", Need["aux"], FALSE) ELSE Reply

\* Health, telemetry, administration and documentation answer at once, and so
\* does a path that is not clean or not known.
route(q) ==
    CASE q.path \in {"chat", "completions", "autocomplete", "summarization", "embeddings"} ->
           TextRoute(q)
      [] q.path \in {"generations", "img2img", "edits", "segmentations"} -> ImageRoute(q)
      [] q.path = "models" -> Guarded(q, {"GET"}, "none", Models(q))
      [] q.path = "video" -> Guarded(q, {"POST"}, "user", Video(q))
      [] q.path \in DOMAIN MediaRows -> Tabled(q, MediaRows)
      [] q.path \in DOMAIN WorkerRows -> Tabled(q, WorkerRows)
      [] q.path \in DOMAIN ServiceRows -> Tabled(q, ServiceRows)
      [] OTHER -> Reply

----------------------------------------------------------------------------
RouteInit ==
    /\ Adm!AdmissionInit
    /\ at = [w \in Worker |-> "idle"]
    /\ job = [w \in Worker |-> Reply]
    /\ origin = [w \in Worker |-> NoWorker]
    /\ replied = {}
    /\ loaded = Model /\ lost = {}

GoTo(w, place) == at' = [at EXCEPT ![w] = place]

\* Where an admitted request goes; models that give way do so before the relay.
Admitted(j) == IF j.swap THEN "unload" ELSE j.does

\* Text without a model is refused; its body and the guard may refuse it too.
Refused(j) == j.does = "reply" \/ (j.does \in {"chat", "completion"} /\ "llm" \notin loaded)
MayRefuse(j) == j.does \in {"chat", "completion", "summary"}

\* The request is taken up and decided upon.  Permits of 0 pass by the
\* scheduler.
Take(w, q) ==
    \E j \in {route(q)} :
      /\ job' = [job EXCEPT ![w] = j]
      /\ \/ /\ Refused(j) \/ MayRefuse(j)
            /\ GoTo(w, "answer") /\ UNCHANGED sched
         \/ /\ ~Refused(j)
            /\ IF j.need = 0
               THEN GoTo(w, Admitted(j)) /\ UNCHANGED sched
               ELSE \/ Adm!TryGrant(w, j.need, j.background) /\ GoTo(w, Admitted(j))
                    \/ Adm!Enqueue(w, j.need, j.background) /\ GoTo(w, "queued")

Arrive(w, q) ==
    /\ at[w] = "idle" /\ q.form # "inner"
    /\ Take(w, q)
    /\ UNCHANGED <<origin, replied, loaded, lost>>

\* The compatibility layer sends the chat of worker v back, marked local.
ArriveInner(w, v, q) ==
    /\ at[w] = "idle" /\ q.form = "inner"
    /\ at[v] = "hop" /\ v \notin replied
    /\ \A u \in Worker : origin[u] # v
    /\ origin' = [origin EXCEPT ![w] = v]
    /\ Take(w, q)
    /\ UNCHANGED <<replied, loaded, lost>>

Admit(w) ==
    /\ at[w] = "queued"
    /\ Adm!Grant(w, job[w].need, job[w].background)
    /\ GoTo(w, Admitted(job[w]))
    /\ UNCHANGED <<job, origin, replied, loaded, lost>>

\* admission timeout; retry
GiveUp(w) ==
    /\ at[w] = "queued"
    /\ Adm!Expire(w)
    /\ GoTo(w, "answer")
    /\ UNCHANGED <<job, origin, replied, loaded, lost>>

unload_embedded_models_for_background(w) ==
    /\ at[w] = "unload"
    /\ loaded' = {}
    /\ GoTo(w, "relay")
    /\ UNCHANGED <<sched, job, origin, replied, lost>>

\* The worker's answer, or the failure of the relay
Relayed(w) ==
    /\ at[w] = "relay"
    /\ GoTo(w, IF job[w].swap THEN "reload" ELSE "release")
    /\ UNCHANGED <<sched, job, origin, replied, loaded, lost>>

\* Either model may fail to load again.
reload_embedded_models_after_background(w) ==
    /\ at[w] = "reload"
    /\ \E back \in SUBSET Model : loaded' = loaded \cup back /\ lost' = Model \ (loaded \cup back)
    /\ GoTo(w, "release")
    /\ UNCHANGED <<sched, job, origin, replied>>

\* The embedded model is used, or found missing; then the permits go back.
Generated(w, handler) ==
    /\ at[w] = handler
    /\ GoTo(w, "release")
    /\ UNCHANGED <<sched, job, origin, replied, loaded, lost>>

handle_chat(w) == Generated(w, "chat")
handle_summarization(w) == Generated(w, "summary")

\* The body is parsed, and may be refused, under the permits.
handle_embedding(w) == Generated(w, "embedding")

\* One use of the model for each choice that was asked for, under the same permits.
handle_completion(w) == Generated(w, "completion")

\* The relay to the compatibility layer ends with its answer or times out.
Hopped(w) ==
    /\ at[w] = "hop"
    /\ replied' = replied \ {w}
    /\ origin' = [u \in Worker |-> IF origin[u] = w THEN NoWorker ELSE origin[u]]
    /\ GoTo(w, "release")
    /\ UNCHANGED <<sched, job, loaded, lost>>

GiveBack(w) ==
    /\ at[w] = "release"
    /\ IF job[w].need = 0 THEN UNCHANGED sched ELSE Adm!Return(w, job[w].need)
    /\ GoTo(w, "answer")
    /\ UNCHANGED <<job, origin, replied, loaded, lost>>

\* The response is written; a relay that waits for it has its answer.
Answer(w) ==
    /\ at[w] = "answer"
    /\ replied' = IF origin[w] = NoWorker THEN replied ELSE replied \cup {origin[w]}
    /\ origin' = [origin EXCEPT ![w] = NoWorker]
    /\ job' = [job EXCEPT ![w] = Reply]
    /\ GoTo(w, "idle")
    /\ UNCHANGED <<sched, loaded, lost>>

RouteNext ==
    \E w \in Worker :
      \/ \E q \in Query : Arrive(w, q)
      \/ \E q \in Query, v \in Worker : ArriveInner(w, v, q)
      \/ Admit(w) \/ GiveUp(w)
      \/ unload_embedded_models_for_background(w)
      \/ Relayed(w)
      \/ reload_embedded_models_after_background(w)
      \/ handle_chat(w) \/ handle_completion(w)
      \/ handle_summarization(w) \/ handle_embedding(w)
      \/ Hopped(w) \/ GiveBack(w) \/ Answer(w)

RouteSpec == RouteInit /\ [][RouteNext]_routeVars

----------------------------------------------------------------------------
\* README.md: the gateway "unloads its embedded LLM and embedding model only
\* after that exclusive background admission, runs the one-shot 3D worker,
\* reloads both models, and then reopens interactive admission".  So a request
\* that passed its check for the embedded model and then waited its turn finds
\* the model there when it runs, unless a reload failed.
AdmittedFindsModel ==
    \A w \in Worker : at[w] \in DOMAIN Uses => Uses[at[w]] \in loaded \cup lost

\* A chat sent back by the compatibility layer never waits for a device whose
\* permits are all held by relays that wait for such chats themselves.
HopNeverWaitsForHops ==
    \A w \in Worker :
      (at[w] = "queued" /\ origin[w] # NoWorker) =>
          \/ Adm!Fits(job[w].need, job[w].background)
          \/ \E u \in Worker : permits[u] > 0 /\ at[u] # "hop"
=============================================================================
