------------------------- MODULE MC_GatewayServices -------------------------
(* What a request passes in the gateway, for TLC: the HTTP server, the       *)
(* routes, the authentication of end users, the access log and the capacity  *)
(* controller.                                                               *)
(* They share no state, so a behaviour exercises one of them: part, chosen   *)
(* initially, says which, and the variables of the others keep their initial *)
(* value.                                                                    *)
EXTENDS Integers, FiniteSets, TLC

CONSTANTS
    Producer, RingSlots, Wrap, FileCap, BatchCap, Keep, Starts, MaxRequests,
    AuthThread, Cred, HashOf, OkTtl, DenyTtl, StaleTtl, ModeTtl, Modes, MaxTime,
    NLanes, NInstances, TierList, UpDepth, MaxInstances, MaxSpend, Price, Revenue, Margin,
    HourCap, Cooldown, IdleLimit, InstanceTtl, Poll, WarmTime, MaxDepth,
    Worker, Slots, Configured, Flags, CompatPermits,
    Conn, Reactor, HttpWorker, None, Loopback, Fragment, MaxPending, InlineCap, MaxBuffer,
    HeapCap

VARIABLES
    part,
    olog_on, olog_stop, seq, line, ring_head, ring_tail, reserved, ppc, ppos, pline,
    dropped, emitted, unwritten, dpc, dline, batch, did_work, reported, files, log_fd,
    fpc, fpos, fneed, requests,
    clock, subcache, authMode, modeFile, modeRead, account, apc, areq, said,
    insts, acted, waits, ctl, cur, since, running,
    permits, alone, waiting, at, job, origin, replied, loaded, lost,
    serving, joined, state, inbox, eof, buf, cap, own, armed, queue, all_lock, heap,
    idle, hpc, hat, old, todo

logVars == <<olog_on, olog_stop, seq, line, ring_head, ring_tail, reserved, ppc, ppos,
             pline, dropped, emitted, unwritten, dpc, dline, batch, did_work, reported,
             files, log_fd, fpc, fpos, fneed, requests>>
authVars == <<clock, subcache, authMode, modeFile, modeRead, account, apc, areq, said>>
scaleVars == <<insts, acted, waits, ctl, cur, since, running>>
routeVars == <<permits, alone, waiting, at, job, origin, replied, loaded, lost>>
httpVars == <<serving, joined, state, inbox, eof, buf, cap, own, armed, queue, all_lock,
              heap, idle, hpc, hat, old, todo>>
allVars == <<part, logVars, authVars, scaleVars, routeVars, httpVars>>

-----------------------------------------------------------------------------
(* The constants that a cfg cannot write                                   *)

\* Every credential falls on one slot of the cache
OneSlot == [c \in Cred |-> 1]

Lanes == {"llm", "multimodal", "aux", "embedding", "image", "art", "birefnet", "depth",
          "animation", "liveportrait", "motion", "threed", "tts", "stt", "training",
          "forecast", "h3"}
Need == [l \in Lanes |-> IF l \in {"threed", "training"} THEN Slots ELSE 1]

\* Requests of a paying caller
Paid(paths, methods, forms, models) ==
    [path : paths, method : methods, cred : {"secret"}, tier : {"paid"}, form : forms,
     model : models]
Paths == {"captions", "loras", "style", "backgrounds", "cutout_jobs", "foreground_jobs",
          "video_jobs", "cutouts", "hair_layers", "depth", "animations", "expressions",
          "motion", "3d", "3d_assets", "music", "speech", "speech_catalog",
          "transcriptions", "training_status", "training_run", "multimodal",
          "image_worker", "synthesize", "transcribe", "forecast", "bulk", "files",
          "backend", "video", "models", "generations", "img2img", "edits",
          "segmentations", "autocomplete", "chat", "summarization", "embeddings",
          "completions"}
\* A paying caller on every route, with the method some of them want, a chat that
\* comes back from the compatibility layer, multipart bodies and chats with parts
\* for a sibling's model, and a health check without credentials
Query ==
    Paid(Paths, {"POST"}, {"plain"}, {"own"})
    \cup Paid({"loras", "3d_assets", "speech_catalog", "training_status", "models", "captions"},
              {"GET"}, {"plain"}, {"own"})
    \cup Paid({"chat"}, {"POST"}, {"inner"}, {"own"})
    \cup Paid({"generations", "edits", "chat"}, {"POST"}, {"plain", "multipart", "parts"},
              {"sibling"})
    \cup [path : {"health"}, method : {"GET"}, cred : {"none"}, tier : {"free"},
          form : {"plain"}, model : {"own"}]

Log == INSTANCE OLog WITH Slots <- RingSlots
Auth == INSTANCE AuthGate
Scale == INSTANCE OScale
Route == INSTANCE GatewayRoute
Http == INSTANCE OHttp WITH running <- serving, pc <- hpc, at <- hat, Worker <- HttpWorker

ASSUME GatewayAssumption ==
    /\ Log!RingAssumption /\ Log!FileAssumption
    /\ Auth!AuthAssumption /\ Scale!ScaleAssumption /\ Route!RouteAssumption
    /\ Http!ThreadAssumption /\ Http!BufferAssumption /\ Http!LoopbackAssumption

-----------------------------------------------------------------------------
(* The sum                                                                 *)

\* Services that start in one of several states start in one of them when the
\* behaviour is about another service
GatewayInit ==
    /\ part \in {"log", "auth", "scale", "route", "http"}
    /\ Log!LogInit /\ Auth!AuthInit /\ Scale!ScaleInit /\ Route!RouteInit /\ Http!Init
    /\ part # "log" => reserved = 0
    /\ part # "auth" => authMode = "off" /\ \A c \in Cred : account[c] = "401"

LogMoves == part = "log" /\ Log!LogNext
    /\ UNCHANGED <<part, authVars, scaleVars, routeVars, httpVars>>
AuthMoves == part = "auth" /\ Auth!AuthNext
    /\ UNCHANGED <<part, logVars, scaleVars, routeVars, httpVars>>
ScaleMoves == part = "scale" /\ Scale!ScaleNext
    /\ UNCHANGED <<part, logVars, authVars, routeVars, httpVars>>
RouteMoves == part = "route" /\ Route!RouteNext
    /\ UNCHANGED <<part, logVars, authVars, scaleVars, httpVars>>
HttpMoves == part = "http" /\ Http!Next
    /\ UNCHANGED <<part, logVars, authVars, scaleVars, routeVars>>

\* The producers of the log, the threads of the authentication and the reactors
\* have the same names
Symmetry == Permutations(AuthThread)

GatewaySpec ==
    GatewayInit /\ [][LogMoves \/ AuthMoves \/ ScaleMoves \/ RouteMoves \/ HttpMoves]_allVars

-----------------------------------------------------------------------------
(* Properties                                                              *)

\* The log is in the order in which its lines were reserved, none twice and none
\* stale, no file outgrows its cap, and a flush returns only when what was queued
\* before it has been handed to the disk (olog.c)
LogFaithful == Log!LogInOrder /\ Log!LogBounded /\ Log!FlushWaits

\* Every verdict a request is decided on was given by the verifier no longer ago
\* than it may be kept, also through an outage (main.c 393-640)
VerdictsExpire == Auth!VerdictsExpire

\* No rented instance is billed for ever, whatever traffic keeps it in use
\* (oscale.c)
RentBounded == Scale!RentBounded

\* An admitted request finds the embedded model it uses, unless its last load
\* failed (main.c 1386-1470, 3990-4360)
AdmittedFindsModel == Route!AdmittedFindsModel

\* A request that this gateway relayed to itself never waits for permits that
\* only requests like it can give back (main.c 3633-3715, 4418)
HopNeverWaitsForHops == Route!HopNeverWaitsForHops

\* A live connection is in exactly one place - armed in epoll, in a thread's
\* hands or once in the queue - and a freed one in none; heap_buffered is what
\* the connections hold plus what a refused growth is about to return, so that
\* the ceiling shared by all uploads neither leaks nor underflows (ohttp.c
\* 619-763)
ConnectionsSound == Http!TypeOK /\ Http!OnePlace /\ Http!HeapExact

\* The stall sweep never shuts down a connection whose request is complete
\* (ohttp.c 722-763)
SweepSparesRequests == Http!SweepSparesRequests
=============================================================================
