-------------------------- MODULE MC_ModelServices --------------------------
(* The services that hold models, for TLC: the image engine, the safety      *)
(* guard, the arbiter of resident weights, the job loop of the music workers *)
(* and their server, and the streamed text of a generation.  They share no   *)
(* state, so a behaviour exercises one of them: part, chosen initially, says *)
(* which, and the variables of the others keep their initial value.          *)
EXTENDS Integers, Sequences, TLC

CONSTANTS
    ImgThread, ImgKey, ImgLen, CacheSlots, CacheMax, MaxSwitches, MaxImages,
    GuardThread, Windows, Category, CatOn, JudgeSlots, AdmitTicks, MaxClassify,
    Owner, Ranked, Total, Others, ResidentMb, StreamMb, SavedMs, keep_free_mb, hysteresis_mb,
    min_hold, idle_release, claim_ttl, reserve_idle, MaxBackoff, MaxClaims, Weight,
    MaxDemand, MaxTicks, MaxReports,
    MWorker, MJob, MKey, KeyOf, CacheEntries, Retries, Grace, MaxMCrashes,
    SWorker, Deployments, MaxServers, MaxSFaults,
    Said, Thought, TextReqs, MaxNew,
    ga, gb       \* the gateways of the instance

VARIABLES
    part,
    sd_lock, context, resident, sd_want, switching, cache, ipc, ireq, islot,
    image, wishes, images,
    enabledCats, judgeAuto, judgeIn, judgeLive, quietTicks, embStage, jcache, jgen, gpc,
    gf, gtotal, history,
    claims, low_free, other, ctx, want, busy, reqs, rpc, cur, seen, told, ticks, reports,
    mjob, mpc, mwork, mactive, mbeat, mfile, mtimes, mcrashes,
    deploy, vol, spc, server, sfaults, begun,
    ask, text, hold, sent, sent_len, ended_at, made, rest, inside, finish

imgVars == <<sd_lock, context, resident, sd_want, switching, cache, ipc, ireq,
             islot, image, wishes, images>>
guardVars == <<enabledCats, judgeAuto, judgeIn, judgeLive, quietTicks, embStage, jcache,
               jgen, gpc, gf, gtotal, history>>
resVars == <<claims, low_free, other, ctx, want, busy, reqs, rpc, cur, seen, told, ticks,
             reports>>
musicVars == <<mjob, mpc, mwork, mactive, mbeat, mfile, mtimes, mcrashes>>
serverVars == <<deploy, vol, spc, server, sfaults, begun>>
textVars == <<ask, text, hold, sent, sent_len, ended_at, made, rest, inside, finish>>
allVars == <<part, imgVars, guardVars, resVars, musicVars, serverVars, textVars>>

-----------------------------------------------------------------------------
(* The values a cfg cannot write, for the constants of the instance        *)

TwoAndOne == [k \in ImgKey |-> IF k = "ka" THEN 2 ELSE 1]

\* Windows of text, by what the stages of the guard would find in them
Innocent ==
    [found |-> {}, strong |-> {}, sexual |-> FALSE, suggest |-> FALSE, romance |-> FALSE,
     age |-> FALSE, adult |-> FALSE, groom |-> FALSE, framing |-> FALSE, edu |-> FALSE,
     info |-> FALSE, nosex |-> FALSE, consent |-> FALSE, demand |-> FALSE, short |-> FALSE,
     emb |-> 0, band |-> FALSE, margin |-> 0, arg |-> 1,
     gate |-> "high", all |-> "low", best |-> 1, trig |-> FALSE, top |-> "low"]
SevenWindows ==
    << [Innocent EXCEPT !.found = {1}, !.sexual = TRUE],
       [Innocent EXCEPT !.short = TRUE],
       [Innocent EXCEPT !.emb = 1],
       [Innocent EXCEPT !.gate = "low", !.emb = 1],
       [Innocent EXCEPT !.emb = 2, !.demand = TRUE, !.all = "mid", !.margin = 2, !.arg = 2,
                        !.best = 2],
       [Innocent EXCEPT !.suggest = TRUE, !.found = {1, 2}, !.consent = TRUE,
                        !.all = "high", !.margin = 1, !.arg = 2, !.emb = 2],
       [Innocent EXCEPT !.suggest = TRUE, !.band = TRUE, !.all = "mid", !.trig = TRUE,
                        !.margin = 1, !.best = 2] >>
AllOn == {Category}

\* Two gateways that save unequally, of which one fits
AThenB == <<ga, gb>>
FourEach == [o \in Owner |-> 4]
OneEach == [o \in Owner |-> 1]
BTwice == [o \in Owner |-> IF o = ga THEN 1 ELSE 2]

ThirdApart == [j \in MJob |-> IF j = "j3" THEN "kb" ELSE "ka"]

\* Both workers on a sound volume, or one that is told to download again into
\* a volume where a download can be damaged
SoundOrForced ==
    {[up |-> SWorker, forced |-> {}, damage |-> FALSE]} \cup
    {[up |-> {w}, forced |-> {w}, damage |-> TRUE] : w \in SWorker}

Words == {<<"a">>, <<"b">>, <<".">>}
Musings == {<<"t">>, <<"h">>}
TextReq(th, st, n, p, s) ==
    [think |-> th, stops |-> st, sentences |-> n, prefix |-> p, stream |-> s]
FiveReqs ==
    {TextReq(FALSE, {}, 0, FALSE, TRUE), TextReq(FALSE, {}, 0, TRUE, TRUE),
     TextReq(FALSE, {}, 2, FALSE, TRUE), TextReq(TRUE, {<<"a", "b">>}, 0, FALSE, TRUE),
     TextReq(FALSE, {}, 0, FALSE, FALSE)}

Img == INSTANCE SdEngine
Guard == INSTANCE OGuard
Res == INSTANCE OResidency
Jobs == INSTANCE Music3Jobs
Server == INSTANCE Music3Server
Text == INSTANCE TextStream

ASSUME ServicesAssumption ==
    /\ Img!ImgAssumption /\ Guard!GuardAssumption
    /\ Res!OwnerAssumption /\ Res!MemoryAssumption /\ Res!TimeAssumption
    /\ Jobs!MusicAssumption /\ Server!ServerAssumption

-----------------------------------------------------------------------------
(* The sum                                                                 *)

\* Services that start in one of several states start in one of them when the
\* behaviour is about another service
ServicesInit ==
    /\ part \in {"image", "guard", "residency", "music", "server", "text"}
    /\ Img!ImgInit /\ Guard!GuardInit /\ Res!ResInit /\ Jobs!MusicInit
    /\ Server!MServerInit /\ Text!TextInit
    /\ part # "guard" => enabledCats = Category /\ ~judgeAuto /\ ~judgeIn /\ embStage = "off"
    /\ part # "server" => deploy.forced = {} /\ vol.flow = "none" /\ ~vol.rest
    /\ part # "text" => ask = TextReq(FALSE, {}, 0, FALSE, TRUE)

ImageMoves == part = "image" /\ Img!ImgNext
    /\ UNCHANGED <<part, guardVars, resVars, musicVars, serverVars, textVars>>
GuardMoves == part = "guard" /\ Guard!GuardNext
    /\ UNCHANGED <<part, imgVars, resVars, musicVars, serverVars, textVars>>
ResidencyMoves == part = "residency" /\ Res!ResNext
    /\ UNCHANGED <<part, imgVars, guardVars, musicVars, serverVars, textVars>>
MusicMoves == part = "music" /\ Jobs!MusicNext
    /\ UNCHANGED <<part, imgVars, guardVars, resVars, serverVars, textVars>>
ServerMoves == part = "server" /\ Server!MServerNext
    /\ UNCHANGED <<part, imgVars, guardVars, resVars, musicVars, textVars>>
TextMoves == part = "text" /\ Text!TextNext
    /\ UNCHANGED <<part, imgVars, guardVars, resVars, musicVars, serverVars>>

ServicesSpec ==
    ServicesInit /\ [][ImageMoves \/ GuardMoves \/ ResidencyMoves \/ MusicMoves
                       \/ ServerMoves \/ TextMoves]_allVars

Symmetry == Permutations(ImgThread)

-----------------------------------------------------------------------------
(* Properties                                                              *)

\* The image cache: its byte count is what it stores and within the budget, an
\* image sits under the key it was rendered for whatever moved between render
\* and store, and the latent a render resumes from belongs to its request and to
\* the context that renders (backend_sd.c 411-640)
ImageCacheSound == Img!BytesExact /\ Img!CacheHoldsKey /\ Img!LatentLive

\* With every stage up and answering, a text is judged the same way each time:
\* fresh, from the cache, or while another thread judges it (oguard.c)
SameVerdict == Guard!SameVerdict

\* A resident claim is "unrevocable for min_hold_s", but for want of demand, of
\* device information or of room beside the other locked holders (oresidency.c)
HoldRespected == Res!HoldRespected

\* The platform does not give a job to another worker while a live worker
\* renders it, and what the result cache serves is a whole recording of that
\* request, whatever other workers store or prune and a killed container left
\* (music3c/main.c, heartbeat_worker beside runpod_loop, result_cache_load)
RecordingsSound == Jobs!RenderNotExpired /\ Jobs!ServedWhole

\* No server is started from a checkpoint that is missing, cut short or damaged
\* (music3c/main.c, ensure_model and start_server_locked)
CheckpointLocal == Server!CheckpointLocal

\* What is streamed to a client is what the call returns, piece by piece and
\* without any thought (backend_llama.c 3985-4110)
StreamClean == Text!StreamedIsReturned /\ Text!ThoughtNeverStreamed
=============================================================================
