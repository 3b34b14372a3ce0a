----------------------------- MODULE Music3Jobs -----------------------------
(***************************************************************************)
(* The RunPod music workers of src/music3c/main.c: the job loop, the       *)
(* heartbeat thread beside it, and the result cache the workers share on   *)
(* the network volume.  The platform (the job queue behind the webhooks)   *)
(* is external: it takes a job back when Grace pings in a row of the       *)
(* worker that has it do not name it.                                      *)
(***************************************************************************)
EXTENDS Naturals, Sequences, FiniteSets, SequencesExt

CONSTANTS
    MWorker,       \* worker processes, in containers of their own
    MJob, MKey,    \* jobs and result-cache keys
    KeyOf,         \* music3_result_cache_key of each job's request
    CacheEntries,  \* MUSIC3_RESULT_CACHE_ENTRIES, every recording one unit of MUSIC3_RESULT_CACHE_MIB
    Retries,       \* MUSIC3_QUALITY_RETRIES
    Grace,         \* pings without a job's name that lose it
    MaxMCrashes    \* bound: containers killed

MusicAssumption ==
    /\ KeyOf \in [MJob -> MKey] /\ CacheEntries \in Nat /\ Retries \in {0, 1} /\ Grace \in Nat \ {0, 1} /\ MaxMCrashes \in Nat

VARIABLES
    mjob,     \* the platform's job: state, worker that has it, pings that missed it
    mpc,      \* place of each worker's job loop
    mwork,    \* its locals: job, metadata read, recording, cache hit, files to prune
    mactive,  \* g_active_job_id
    mbeat,    \* the id the heartbeat thread has copied into its next ping, or "sleep"
    mfile,    \* the .wav and .meta of each key
    mtimes,   \* keys with a .wav, least recently modified first
    mcrashes

musicVars == <<mjob, mpc, mwork, mactive, mbeat, mfile, mtimes, mcrashes>>

NoId == "no id"
Unread == [seed |-> 0, attempts |-> 0]
NoTake == [key |-> "none", seed |-> 0, whole |-> FALSE]
NoWork == [job |-> NoId, meta |-> Unread, take |-> NoTake, hit |-> FALSE, prune |-> <<>>]

MusicInit ==
    /\ mjob = [j \in MJob |-> [state |-> "queued", by |-> NoId, missed |-> 0]]
    /\ mpc = [w \in MWorker |-> "poll"] /\ mwork = [w \in MWorker |-> NoWork]
    /\ mactive = [w \in MWorker |-> NoId] /\ mbeat = [w \in MWorker |-> "sleep"]
    /\ mfile = [k \in MKey |-> [wav |-> NoTake, meta |-> Unread]] /\ mtimes = <<>> /\ mcrashes = 0

set_active_job(w, id) == mactive' = [mactive EXCEPT ![w] = id]
MGoto(w, at, r) == mpc' = [mpc EXCEPT ![w] = at] /\ mwork' = [mwork EXCEPT ![w] = r]
MKeyOf(w) == KeyOf[mwork[w].job]
Forget(k) == SelectSeq(mtimes, LAMBDA x : x # k)
Newest(k) == Append(Forget(k), k)

-----------------------------------------------------------------------------
(* runpod_loop: taking a job                                               *)

\* Seeded fault: the heartbeat is not told which job the worker renders
TakeJob_Unnamed(w, j) ==
    /\ mpc[w] = "poll" /\ mjob[j].state = "queued"
    /\ mjob' = [mjob EXCEPT ![j] = [state |-> "taken", by |-> w, missed |-> 0]]
    /\ MGoto(w, "meta", [NoWork EXCEPT !.job = j])
    /\ UNCHANGED <<mactive, mbeat, mfile, mtimes, mcrashes>>
TakeJob(w, j) ==
    /\ mpc[w] = "poll" /\ mjob[j].state = "queued"
    /\ mjob' = [mjob EXCEPT ![j] = [state |-> "taken", by |-> w, missed |-> 0]]
    /\ set_active_job(w, j)
    /\ MGoto(w, "meta", [NoWork EXCEPT !.job = j])
    /\ UNCHANGED <<mbeat, mfile, mtimes, mcrashes>>
\* The answer with the job is lost, times out or carries no readable id
TakeLost(w, j) ==
    /\ mpc[w] = "poll" /\ mjob[j].state = "queued"
    /\ mjob' = [mjob EXCEPT ![j] = [state |-> "taken", by |-> w, missed |-> 0]]
    /\ UNCHANGED <<mpc, mwork, mactive, mbeat, mfile, mtimes, mcrashes>>

-----------------------------------------------------------------------------
(* heartbeat_worker                                                        *)

CopyActive(w) ==
    /\ mbeat[w] = "sleep"
    /\ mbeat' = [mbeat EXCEPT ![w] = mactive[w]]
    /\ UNCHANGED <<mjob, mpc, mwork, mactive, mfile, mtimes, mcrashes>>
\* The platform's view of a job when a ping of the worker that has it arrives
Pinged(j, id) ==
    IF id = j THEN [mjob[j] EXCEPT !.missed = 0]
    ELSE IF mjob[j].missed + 1 < Grace THEN [mjob[j] EXCEPT !.missed = @ + 1]
    ELSE [state |-> "queued", by |-> NoId, missed |-> 0]
Ping(w) ==
    /\ mbeat[w] # "sleep"
    /\ mjob' = [j \in MJob |-> IF mjob[j].state = "taken" /\ mjob[j].by = w THEN Pinged(j, mbeat[w]) ELSE mjob[j]]
    /\ mbeat' = [mbeat EXCEPT ![w] = "sleep"]
    /\ UNCHANGED <<mpc, mwork, mactive, mfile, mtimes, mcrashes>>
PingLost(w) ==
    /\ mbeat[w] # "sleep"
    /\ mbeat' = [mbeat EXCEPT ![w] = "sleep"]
    /\ UNCHANGED <<mjob, mpc, mwork, mactive, mfile, mtimes, mcrashes>>

-----------------------------------------------------------------------------
(* handle_job_json: the cached recording                                   *)

\* result_cache_load reads the metadata first
ReadMeta(w) ==
    /\ mpc[w] = "meta"
    /\ LET m == mfile[MKeyOf(w)].meta IN
       MGoto(w, IF m.attempts > 0 THEN "wav" ELSE "server", [mwork[w] EXCEPT !.meta = m])
    /\ UNCHANGED <<mjob, mactive, mbeat, mfile, mtimes, mcrashes>>
\* Seeded fault: a cached recording is served as it is read
ReadWav_Unchecked(w) ==
    /\ mpc[w] = "wav"
    /\ LET k == MKeyOf(w) a == mfile[k].wav IN
       IF a = NoTake THEN MGoto(w, "server", mwork[w]) /\ UNCHANGED mtimes
       ELSE MGoto(w, "deliver", [mwork[w] EXCEPT !.take = a, !.hit = TRUE]) /\ mtimes' = Newest(k)
    /\ UNCHANGED <<mjob, mactive, mbeat, mfile, mcrashes>>
ReadWav(w) ==
    /\ mpc[w] = "wav"
    /\ LET k == MKeyOf(w) a == mfile[k].wav IN
       \/ /\ a = NoTake
          /\ MGoto(w, "server", [mwork[w] EXCEPT !.meta = Unread]) /\ UNCHANGED <<mfile, mtimes>>
       \/ /\ a # NoTake /\ ~a.whole
          /\ mfile' = [mfile EXCEPT ![k] = [wav |-> NoTake, meta |-> Unread]] /\ mtimes' = Forget(k)
          /\ MGoto(w, "server", [mwork[w] EXCEPT !.meta = Unread])
       \/ /\ a.whole
          /\ MGoto(w, "deliver", [mwork[w] EXCEPT !.take = a, !.hit = TRUE])
          /\ mtimes' = Newest(k) /\ UNCHANGED mfile
    /\ UNCHANGED <<mjob, mactive, mbeat, mcrashes>>

-----------------------------------------------------------------------------
(* handle_job_json: a new recording                                        *)

\* start_server fails (503), generate_audio fails or returns no valid WAV (502)
RenderFails(w) ==
    /\ mpc[w] = "server"
    /\ set_active_job(w, NoId)
    /\ MGoto(w, "post", mwork[w])
    /\ UNCHANGED <<mjob, mbeat, mfile, mtimes, mcrashes>>
\* The recording kept, and how often the model was run: of the request's seed, of the
\* next seed if that scored higher, of the first if it did not or could not be made
Selections == {s \in [seed : 0..1, attempts : 1..2] : s.seed < s.attempts /\ s.attempts <= Retries + 1}
Render(w) ==
    /\ mpc[w] = "server"
    /\ \E s \in Selections :
         MGoto(w, "storewav", [mwork[w] EXCEPT !.meta = s,
                                 !.take = [key |-> MKeyOf(w), seed |-> s.seed, whole |-> TRUE]])
    /\ UNCHANGED <<mjob, mactive, mbeat, mfile, mtimes, mcrashes>>

\* result_cache_store: two temporary files, then two renames
StoreWav(w) ==
    /\ mpc[w] = "storewav"
    /\ LET k == MKeyOf(w) IN
       /\ mfile' = [mfile EXCEPT ![k].wav = mwork[w].take] /\ mtimes' = Newest(k)
       /\ MGoto(w, "storemeta", mwork[w])
    /\ UNCHANGED <<mjob, mactive, mbeat, mcrashes>>
StoreMeta(w) ==
    /\ mpc[w] = "storemeta"
    /\ mfile' = [mfile EXCEPT ![MKeyOf(w)].meta = mwork[w].meta]
    /\ MGoto(w, "list", mwork[w])
    /\ UNCHANGED <<mjob, mactive, mbeat, mtimes, mcrashes>>
\* The cache is off, or a file cannot be made, written or renamed
StoreFails(w) ==
    /\ mpc[w] \in {"storewav", "storemeta"}
    /\ MGoto(w, "deliver", mwork[w])
    /\ UNCHANGED <<mjob, mactive, mbeat, mfile, mtimes, mcrashes>>

\* result_cache_prune: the oldest recordings beyond the limit, as listed at one moment
Surplus == IF Len(mtimes) > CacheEntries THEN SubSeq(mtimes, 1, Len(mtimes) - CacheEntries) ELSE <<>>
PruneList(w) ==
    /\ mpc[w] = "list"
    /\ MGoto(w, IF Surplus = <<>> THEN "deliver" ELSE "prunewav", [mwork[w] EXCEPT !.prune = Surplus])
    /\ UNCHANGED <<mjob, mactive, mbeat, mfile, mtimes, mcrashes>>
PruneWav(w) ==
    /\ mpc[w] = "prunewav"
    /\ LET k == Head(mwork[w].prune) IN mfile' = [mfile EXCEPT ![k].wav = NoTake] /\ mtimes' = Forget(k)
    /\ MGoto(w, "prunemeta", mwork[w])
    /\ UNCHANGED <<mjob, mactive, mbeat, mcrashes>>
PruneMeta(w) ==
    /\ mpc[w] = "prunemeta"
    /\ mfile' = [mfile EXCEPT ![Head(mwork[w].prune)].meta = Unread]
    /\ MGoto(w, IF Len(mwork[w].prune) = 1 THEN "deliver" ELSE "prunewav", [mwork[w] EXCEPT !.prune = Tail(@)])
    /\ UNCHANGED <<mjob, mactive, mbeat, mtimes, mcrashes>>

-----------------------------------------------------------------------------
(* The answer, a recording or an upload's failure, is posted while the     *)
(* pings name no job                                                       *)

Deliver(w) ==
    /\ mpc[w] = "deliver"
    /\ set_active_job(w, NoId)
    /\ MGoto(w, "post", [NoWork EXCEPT !.job = mwork[w].job])
    /\ UNCHANGED <<mjob, mbeat, mfile, mtimes, mcrashes>>
\* An envelope that cannot be built is no answer at all
DeliverNothing(w) ==
    /\ mpc[w] = "deliver"
    /\ set_active_job(w, NoId)
    /\ MGoto(w, "poll", NoWork)
    /\ UNCHANGED <<mjob, mbeat, mfile, mtimes, mcrashes>>
PostOutput(w) ==
    /\ mpc[w] = "post"
    /\ mjob' = [mjob EXCEPT ![mwork[w].job] = [state |-> "done", by |-> NoId, missed |-> 0]]
    /\ MGoto(w, "poll", NoWork)
    /\ UNCHANGED <<mactive, mbeat, mfile, mtimes, mcrashes>>
PostLost(w) ==
    /\ mpc[w] = "post"
    /\ MGoto(w, "poll", NoWork)
    /\ UNCHANGED <<mjob, mactive, mbeat, mfile, mtimes, mcrashes>>

\* The container is killed and started again; what it had just written without a sync
\* may be cut short
MCrash(w) ==
    /\ mcrashes < MaxMCrashes /\ mpc[w] # "poll"
    /\ mcrashes' = mcrashes + 1
    /\ \E cut \in IF mpc[w] = "storemeta" \/ mpc[w] = "list" THEN BOOLEAN ELSE {FALSE} :
         mfile' = IF cut /\ mfile[MKeyOf(w)].wav # NoTake THEN [mfile EXCEPT ![MKeyOf(w)].wav.whole = FALSE] ELSE mfile
    /\ set_active_job(w, NoId) /\ mbeat' = [mbeat EXCEPT ![w] = "sleep"]
    /\ MGoto(w, "poll", NoWork)
    /\ UNCHANGED <<mjob, mtimes>>

MusicNext ==
    \E w \in MWorker :
      \/ \E j \in MJob : TakeJob(w, j) \/ TakeLost(w, j)
      \/ CopyActive(w) \/ Ping(w) \/ PingLost(w)
      \/ ReadMeta(w) \/ ReadWav(w) \/ RenderFails(w) \/ Render(w)
      \/ StoreWav(w) \/ StoreMeta(w) \/ StoreFails(w) \/ PruneList(w) \/ PruneWav(w) \/ PruneMeta(w)
      \/ Deliver(w) \/ DeliverNothing(w) \/ PostOutput(w) \/ PostLost(w) \/ MCrash(w)
MusicSpec == MusicInit /\ [][MusicNext]_musicVars

-----------------------------------------------------------------------------
(* Properties                                                              *)

\* The platform does not give a job to another worker while a live worker renders it:
\* the pings that cross its take are too few, and every later one names it
\* (heartbeat_worker beside runpod_loop).
RenderNotExpired ==
    \A w \in MWorker : mpc[w] \notin {"poll", "post"} =>
      mjob[mwork[w].job].state = "done" \/ mjob[mwork[w].job].by = w

\* What the cache serves is a whole recording of that request, whatever other workers
\* store or prune between the two reads and whatever a killed container left behind
\* (result_cache_load against result_cache_store and result_cache_prune).
ServedWhole ==
    \A w \in MWorker : mpc[w] = "deliver" => mwork[w].take.whole /\ mwork[w].take.key = MKeyOf(w)
=============================================================================
