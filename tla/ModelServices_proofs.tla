------------------------ MODULE ModelServices_proofs ------------------------
(***************************************************************************)
(* Proofs about the services that hold models, for any number of threads,  *)
(* jobs, requests and cache entries: the checkpoint a music server is      *)
(* started from, the recordings the music workers serve, the verdicts of   *)
(* the safety guard, the holds of the weight residency arbiter, and the    *)
(* cache of the image engine.                                              *)
(***************************************************************************)
EXTENDS MC_ModelServices, CollectionTheorems, TLAPS

-----------------------------------------------------------------------------
(* The checkpoint.  A worker that is past the checks of the shared volume has *)
(* seen the flow matching file whole, and nobody makes it worse: only a       *)
(* worker that is told to download again unlinks it or can be left with a     *)
(* damaged one, and that worker is alone.                                     *)

SPlace == {"idle", "marker", "size", "unlink", "again", "download", "verify", "rest", "write", "fork", "wait"}
ServerTypes ==
    /\ deploy \in Deployments
    /\ vol \in [marker : BOOLEAN, flow : {"none", "short", "bad", "good"}, rest : BOOLEAN]
    /\ spc \in [SWorker -> {"nobody", "warm", "job"} \X SPlace]
    /\ sfaults \in Nat
\* What the volume holds when worker w is where it is
VolumeAt(w) ==
    /\ spc[w][2] # "idle" => w \in deploy.up
    /\ spc[w][2] = "unlink" => vol.flow = "bad" /\ w \in deploy.forced
    /\ spc[w][2] \in {"again", "download"} => vol.flow # "bad"
    /\ spc[w][2] \in {"rest", "write"} => vol.flow = "good"
    /\ spc[w][2] = "write" => vol.rest
    /\ spc[w][2] = "fork" => Server!Whole(vol)
ServerInv ==
    /\ ServerTypes /\ ~begun
    /\ vol.marker => Server!Whole(vol)
    /\ \A w \in SWorker : VolumeAt(w)

LEMMA DeployedAlone ==
    ASSUME deploy \in Deployments
    PROVE  /\ \A w \in deploy.forced : deploy.up = {w}
           /\ deploy.damage => \E w \in SWorker : deploy.up = {w}
BY ServicesAssumption DEF Server!ServerAssumption

LEMMA ServerInvInit == Server!MServerInit => ServerInv
<1> SUFFICES ASSUME Server!MServerInit PROVE ServerInv
  OBVIOUS
<1>1. spc \in [SWorker -> {"nobody", "warm", "job"} \X SPlace]
  BY DEF Server!MServerInit, Server!Unlocked, SPlace
<1>2. \A w \in SWorker : spc[w][2] = "idle"
  BY DEF Server!MServerInit, Server!Unlocked
<1> QED BY <1>1, <1>2 DEF Server!MServerInit, ServerInv, ServerTypes, VolumeAt

\* A step of w moves w alone
LEMMA ServerMoves1 ==
    ASSUME ServerInv, NEW w \in SWorker, NEW who \in {"nobody", "warm", "job"}, NEW p \in SPlace,
           spc' = [spc EXCEPT ![w] = <<who, p>>] \/ spc' = [spc EXCEPT ![w][2] = p]
    PROVE  /\ spc' \in [SWorker -> {"nobody", "warm", "job"} \X SPlace]
           /\ spc'[w][2] = p
           /\ \A v \in SWorker : v # w => spc'[v] = spc[v]
BY DEF ServerInv, ServerTypes

\* A step that leaves the volume alone keeps the invariant if it does so for w
LEMMA ServerLooks ==
    ASSUME ServerInv, NEW w \in SWorker, NEW p \in SPlace,
           \/ Server!SGoto(w, p)
           \/ Server!Return(w) /\ p = "idle"
           \/ \E who \in {"warm", "job"} : spc' = [spc EXCEPT ![w] = <<who, p>>],
           UNCHANGED <<deploy, vol>>, begun' = FALSE, sfaults' \in Nat,
           p # "idle" => w \in deploy.up,
           p = "unlink" => vol.flow = "bad" /\ w \in deploy.forced,
           p \in {"again", "download"} => vol.flow # "bad",
           p \in {"rest", "write"} => vol.flow = "good",
           p = "write" => vol.rest,
           p = "fork" => Server!Whole(vol)
    PROVE  ServerInv'
<1>1. PICK who \in {"nobody", "warm", "job"} :
         spc' = [spc EXCEPT ![w] = <<who, p>>] \/ spc' = [spc EXCEPT ![w][2] = p]
  BY DEF Server!SGoto, Server!Return, Server!Unlocked
<1>2. /\ spc' \in [SWorker -> {"nobody", "warm", "job"} \X SPlace]
      /\ spc'[w][2] = p /\ \A v \in SWorker : v # w => spc'[v] = spc[v]
  BY <1>1, ServerMoves1
<1>3. VolumeAt(w)'
  BY <1>2 DEF VolumeAt, Server!Whole
<1>4. ASSUME NEW v \in SWorker, v # w PROVE VolumeAt(v)'
  BY <1>2, <1>4 DEF VolumeAt, ServerInv, Server!Whole
<1> QED BY <1>2, <1>3, <1>4 DEF ServerInv, ServerTypes, Server!Whole

\* A step that changes the volume, and with it what the others may rely on
LEMMA ServerWrites ==
    ASSUME ServerInv, NEW w \in SWorker, NEW p \in SPlace, Server!SGoto(w, p),
           UNCHANGED <<deploy, begun>>, sfaults' \in Nat,
           vol' \in [marker : BOOLEAN, flow : {"none", "short", "bad", "good"}, rest : BOOLEAN],
           w \in deploy.up,
           vol'.marker => Server!Whole(vol'),
           deploy.up = {w} \/ (/\ vol'.flow # "bad" /\ (vol.rest => vol'.rest)
                               /\ (vol.flow = "good" => vol'.flow = "good")),
           p \notin {"unlink", "idle"}, p \in {"again", "download"} => vol'.flow # "bad",
           p \in {"rest", "write"} => vol'.flow = "good",
           p = "write" => vol'.rest,
           p = "fork" => Server!Whole(vol')
    PROVE  ServerInv'
<1>1. /\ spc' \in [SWorker -> {"nobody", "warm", "job"} \X SPlace]
      /\ spc'[w][2] = p /\ \A v \in SWorker : v # w => spc'[v] = spc[v]
  BY ServerMoves1 DEF Server!SGoto
<1>2. VolumeAt(w)'
  BY <1>1 DEF VolumeAt, Server!Whole
<1>3. ASSUME NEW v \in SWorker, v # w PROVE VolumeAt(v)'
  <2>1. VolumeAt(v) /\ spc'[v][2] = spc[v][2]
    BY <1>1, <1>3 DEF ServerInv
  <2>2. CASE spc[v][2] = "idle"
    BY <2>1, <2>2 DEF VolumeAt
  <2>3. CASE spc[v][2] # "idle"
    <3>1. deploy.up # {w}
      BY <1>3, <2>1, <2>3 DEF VolumeAt
    <3>2. spc[v][2] # "unlink"
      BY <1>3, <2>1, <3>1, DeployedAlone DEF VolumeAt, ServerInv, ServerTypes
    <3> QED BY <2>1, <2>3, <3>1, <3>2 DEF VolumeAt, Server!Whole
  <2> QED BY <2>2, <2>3
<1> QED BY <1>1, <1>2, <1>3 DEF ServerInv, ServerTypes, Server!Whole

LEMMA ServerInvStep ==
    ASSUME ServerInv, NEW w \in SWorker,
           \/ \E who \in {"warm", "job"} : Server!StartServer(w, who)
           \/ Server!CheckMarker(w) \/ Server!CheckFlow(w) \/ Server!UnlinkFlow(w)
           \/ Server!CheckSize(w) \/ Server!Download(w) \/ Server!DownloadFails(w)
           \/ Server!VerifyFlow(w) \/ Server!Snapshot(w) \/ Server!SnapshotFails(w)
           \/ Server!WriteMarker(w) \/ Server!ForkServer(w) \/ Server!ServerUp(w)
           \/ Server!ServerFails(w) \/ Server!ServerDies(w) \/ Server!ServerStalls(w)
           \/ Server!SCrash(w)
    PROVE  ServerInv'
<1> USE DEF Server!At
<1>0. /\ VolumeAt(w) /\ (vol.marker => Server!Whole(vol))
      /\ ~begun /\ sfaults \in Nat /\ sfaults + 1 \in Nat
      /\ vol \in [marker : BOOLEAN, flow : {"none", "short", "bad", "good"}, rest : BOOLEAN]
      /\ begun = FALSE
  BY DEF ServerInv, ServerTypes
<1>1. ASSUME NEW who \in {"warm", "job"}, Server!StartServer(w, who) PROVE ServerInv'
  <2>1. "marker" \in SPlace
    BY DEF SPlace
  <2> QED BY <1>0, <1>1, <2>1, ServerLooks DEF Server!StartServer
<1>2. CASE Server!CheckMarker(w)
  <2>1. "fork" \in SPlace /\ "size" \in SPlace /\ w \in deploy.up
    BY <1>0, <1>2 DEF SPlace, Server!CheckMarker, VolumeAt
  <2> QED BY <1>0, <1>2, <2>1, ServerLooks DEF Server!CheckMarker
<1>3. CASE Server!CheckFlow(w)
  <2>1. "again" \in SPlace /\ "idle" \in SPlace /\ "unlink" \in SPlace /\ w \in deploy.up
    BY <1>0, <1>3 DEF SPlace, Server!CheckFlow, VolumeAt
  <2>2. CASE vol.flow # "bad" /\ Server!SGoto(w, "again")
    BY <1>0, <1>3, <2>1, <2>2, ServerLooks DEF Server!CheckFlow
  <2>3. CASE Server!Return(w)
    BY <1>0, <1>3, <2>1, <2>3, ServerLooks DEF Server!CheckFlow
  <2>4. CASE vol.flow = "bad" /\ w \in deploy.forced /\ Server!SGoto(w, "unlink")
    BY <1>0, <1>3, <2>1, <2>4, ServerLooks DEF Server!CheckFlow
  <2> QED BY <1>3, <2>2, <2>3, <2>4 DEF Server!CheckFlow
<1>4. CASE Server!UnlinkFlow(w)
  <2>1. "again" \in SPlace /\ w \in deploy.forced /\ deploy.up = {w} /\ vol.flow = "bad"
    BY <1>0, <1>4, DeployedAlone DEF SPlace, Server!UnlinkFlow, VolumeAt, ServerInv, ServerTypes
  <2>2. /\ vol'.flow = "none" /\ vol'.marker = vol.marker /\ vol'.rest = vol.rest
        /\ vol' \in [marker : BOOLEAN, flow : {"none", "short", "bad", "good"}, rest : BOOLEAN]
    BY <1>0, <1>4 DEF Server!UnlinkFlow
  <2> QED BY <1>0, <1>4, <2>1, <2>2, ServerWrites DEF Server!UnlinkFlow, Server!Whole
<1>5. CASE Server!CheckSize(w)
  <2>1. "rest" \in SPlace /\ "download" \in SPlace /\ w \in deploy.up /\ vol.flow # "bad"
    BY <1>0, <1>5 DEF SPlace, Server!CheckSize, VolumeAt
  <2> QED BY <1>0, <1>5, <2>1, ServerLooks DEF Server!CheckSize
<1>6. CASE Server!Download(w)
  <2>1. "verify" \in SPlace /\ w \in deploy.up
    BY <1>0, <1>6 DEF SPlace, Server!Download, VolumeAt
  <2>2. /\ vol'.flow = "good" /\ vol'.marker = vol.marker /\ vol'.rest = vol.rest
        /\ vol' \in [marker : BOOLEAN, flow : {"none", "short", "bad", "good"}, rest : BOOLEAN]
    BY <1>0, <1>6 DEF Server!Download
  <2> QED BY <1>0, <1>6, <2>1, <2>2, ServerWrites DEF Server!Download, Server!Whole
<1>7. CASE Server!DownloadFails(w)
  <2>1. "verify" \in SPlace /\ "idle" \in SPlace /\ w \in deploy.up
    BY <1>0, <1>7 DEF SPlace, Server!DownloadFails, VolumeAt
  <2>2. CASE Server!Return(w) /\ UNCHANGED vol
    BY <1>0, <1>7, <2>1, <2>2, ServerLooks DEF Server!DownloadFails, Server!Fault
  <2>3. ASSUME NEW f \in {"short"} \cup (IF deploy.damage THEN {"bad"} ELSE {}), vol.flow # "good",
               vol' = [vol EXCEPT !.flow = f], Server!SGoto(w, "verify")
        PROVE  ServerInv'
    <3>1. /\ vol'.flow = f /\ vol'.marker = vol.marker /\ vol'.rest = vol.rest
          /\ vol' \in [marker : BOOLEAN, flow : {"none", "short", "bad", "good"}, rest : BOOLEAN]
      BY <1>0, <2>3
    <3>2. f = "short" \/ deploy.up = {w}
      BY <2>1, <2>3, DeployedAlone DEF ServerInv, ServerTypes
    <3> QED BY <1>0, <1>7, <2>1, <2>3, <3>1, <3>2, ServerWrites DEF Server!DownloadFails, Server!Whole, Server!Fault
  <2> QED BY <1>7, <2>2, <2>3 DEF Server!DownloadFails
<1>8. CASE Server!VerifyFlow(w)
  <2>1. "rest" \in SPlace /\ "idle" \in SPlace /\ w \in deploy.up
    BY <1>0, <1>8 DEF SPlace, Server!VerifyFlow, VolumeAt
  <2> QED BY <1>0, <1>8, <2>1, ServerLooks DEF Server!VerifyFlow
<1>9. CASE Server!Snapshot(w)
  <2>1. "write" \in SPlace /\ w \in deploy.up /\ vol.flow = "good"
    BY <1>0, <1>9 DEF SPlace, Server!Snapshot, VolumeAt
  <2>2. /\ vol'.flow = vol.flow /\ vol'.marker = vol.marker /\ vol'.rest = TRUE
        /\ vol' \in [marker : BOOLEAN, flow : {"none", "short", "bad", "good"}, rest : BOOLEAN]
    BY <1>0, <1>9 DEF Server!Snapshot
  <2> QED BY <1>0, <1>9, <2>1, <2>2, ServerWrites DEF Server!Snapshot, Server!Whole
<1>10. CASE Server!SnapshotFails(w)
  <2>1. "idle" \in SPlace
    BY DEF SPlace
  <2> QED BY <1>0, <1>10, <2>1, ServerLooks DEF Server!SnapshotFails, Server!Fault
<1>11. CASE Server!WriteMarker(w)
  <2>1. "fork" \in SPlace /\ w \in deploy.up /\ vol.flow = "good" /\ vol.rest
    BY <1>0, <1>11 DEF SPlace, Server!WriteMarker, VolumeAt
  <2>2. /\ vol'.flow = vol.flow /\ vol'.marker = TRUE /\ vol'.rest = vol.rest
        /\ vol' \in [marker : BOOLEAN, flow : {"none", "short", "bad", "good"}, rest : BOOLEAN]
    BY <1>0, <1>11 DEF Server!WriteMarker
  <2> QED BY <1>0, <1>11, <2>1, <2>2, ServerWrites DEF Server!WriteMarker, Server!Whole
<1>12. CASE Server!ForkServer(w)
  <2>1. "wait" \in SPlace /\ w \in deploy.up /\ Server!Whole(vol)
    BY <1>0, <1>12 DEF SPlace, Server!ForkServer, VolumeAt
  <2>2. begun' = FALSE
    BY <1>0, <1>12, <2>1 DEF Server!ForkServer
  <2> QED BY <1>0, <1>12, <2>1, <2>2, ServerLooks DEF Server!ForkServer
<1>13. CASE Server!ServerUp(w)
  <2>1. "idle" \in SPlace
    BY DEF SPlace
  <2> QED BY <1>0, <1>13, <2>1, ServerLooks DEF Server!ServerUp
<1>14. CASE Server!ServerFails(w)
  <2>1. "idle" \in SPlace
    BY DEF SPlace
  <2> QED BY <1>0, <1>14, <2>1, ServerLooks DEF Server!ServerFails, Server!Fault
<1>15. CASE Server!ServerDies(w) \/ Server!ServerStalls(w)
  <2>1. UNCHANGED <<deploy, vol, spc, begun>> /\ sfaults' \in Nat
    BY <1>0, <1>15 DEF Server!ServerDies, Server!ServerStalls, Server!Fault
  <2> QED BY <2>1 DEF ServerInv, ServerTypes, VolumeAt, Server!Whole
<1>16. CASE Server!SCrash(w)
  <2>1. "idle" \in SPlace
    BY DEF SPlace
  <2> QED BY <1>0, <1>16, <2>1, ServerLooks DEF Server!SCrash, Server!Fault
<1> QED BY <1>1, <1>2, <1>3, <1>4, <1>5, <1>6, <1>7, <1>8, <1>9, <1>10, <1>11, <1>12, <1>13, <1>14,
           <1>15, <1>16

LEMMA ServerInvNext == ServerInv /\ [Server!MServerNext]_(Server!serverVars) => ServerInv'
<1> SUFFICES ASSUME ServerInv, [Server!MServerNext]_(Server!serverVars) PROVE ServerInv'
  OBVIOUS
<1>1. CASE Server!MServerNext
  BY <1>1, ServerInvStep DEF Server!MServerNext
<1>2. CASE UNCHANGED Server!serverVars
  BY <1>2 DEF Server!serverVars, ServerInv, ServerTypes, VolumeAt, Server!Whole
<1> QED BY <1>1, <1>2

\* No server is started from a checkpoint that is missing, cut short or damaged,
\* however many workers share the volume and whichever of them are killed between
\* the download, the snapshot and the marker (ensure_model, start_server_locked).
THEOREM CheckpointsAreLocal == Server!MServerSpec => []CheckpointLocal
<1>1. ServerInv => CheckpointLocal
  BY DEF ServerInv, CheckpointLocal, Server!CheckpointLocal
<1> QED BY <1>1, ServerInvInit, ServerInvNext, PTL DEF Server!MServerSpec

-----------------------------------------------------------------------------
(* The music jobs.  While a worker renders, its pings name the job, except   *)
(* for one that may still be on its way from before the job was taken: the   *)
(* platform has then missed no ping yet, and one is not enough.  What lies    *)
(* in the cache under a key is a recording of that key, whole or not, and    *)
(* only a whole one is read.                                                  *)

Idle == {"poll", "post"}
Holding == {"deliver", "storewav", "storemeta", "list", "prunewav", "prunemeta"}
Take == [key : MKey \cup {"none"}, seed : Nat, whole : BOOLEAN]
Locals == {"job", "meta", "take", "hit", "prune"}
Ticket == [state : {"queued", "taken", "done"}, by : MWorker \cup {"no id"}, missed : Nat]
MusicTypes ==
    /\ mjob \in [MJob -> Ticket]
    /\ mpc \in [MWorker -> Idle \cup Holding \cup {"meta", "wav", "server"}]
    /\ DOMAIN mwork = MWorker /\ \A w \in MWorker : DOMAIN mwork[w] = Locals
    /\ DOMAIN mactive = MWorker /\ DOMAIN mbeat = MWorker
    /\ DOMAIN mfile = MKey /\ \A k \in MKey : DOMAIN mfile[k] = {"wav", "meta"} /\ mfile[k].wav \in Take
\* Worker w has job j of the platform, which will not take it back at the next ping
Keeps(w, j) ==
    /\ mactive[w] = j
    /\ mjob[j].state = "taken" /\ mjob[j].by = w
    /\ mbeat[w] \notin {"sleep", j} => mjob[j].missed = 0
Rendering(w) ==
    mpc[w] \notin {"poll"} => /\ mwork[w].job \in MJob
                              /\ mpc[w] # "post" => /\ mactive[w] = mwork[w].job
                                                    /\ mjob[mwork[w].job].state = "done" \/ Keeps(w, mwork[w].job)
Recording(w) ==
    mpc[w] \in Holding => /\ mwork[w].take \in Take /\ mwork[w].take.whole
                          /\ mwork[w].take.key = KeyOf[mwork[w].job]
MusicInv ==
    /\ MusicTypes
    /\ \A w \in MWorker : Rendering(w) /\ Recording(w)
    /\ \A k \in MKey : mfile[k].wav # Jobs!NoTake => mfile[k].wav.key = k

LEMMA MusicConstants == KeyOf \in [MJob -> MKey] /\ Grace \in Nat /\ Grace > 1
BY ServicesAssumption DEF Jobs!MusicAssumption

LEMMA MusicInvInit == Jobs!MusicInit => MusicInv
<1> SUFFICES ASSUME Jobs!MusicInit PROVE MusicInv
  OBVIOUS
<1>1. MusicTypes
  BY DEF Jobs!MusicInit, MusicTypes, Jobs!NoWork, Locals, Idle, Take, Jobs!NoTake, Jobs!NoId, Ticket
<1> QED BY <1>1 DEF Jobs!MusicInit, MusicInv, Rendering, Recording, Holding

LEMMA MusicInvSound == MusicInv => RecordingsSound
BY DEF MusicInv, RecordingsSound, Jobs!RenderNotExpired, Jobs!ServedWhole, Rendering, Recording, Keeps,
       Holding, Jobs!MKeyOf

\* What w's own steps may do to its place and locals
LEMMA MusicGoto ==
    ASSUME MusicInv, NEW w \in MWorker, NEW p, NEW r, Jobs!MGoto(w, p, r), DOMAIN r = Locals,
           p \in Idle \cup Holding \cup {"meta", "wav", "server"}
    PROVE  /\ mpc' \in [MWorker -> Idle \cup Holding \cup {"meta", "wav", "server"}]
           /\ DOMAIN mwork' = MWorker /\ \A v \in MWorker : DOMAIN mwork'[v] = Locals
           /\ mpc'[w] = p /\ mwork'[w] = r
           /\ \A v \in MWorker : v # w => mpc'[v] = mpc[v] /\ mwork'[v] = mwork[v]
BY DEF Jobs!MGoto, MusicInv, MusicTypes

\* A step of w that leaves the platform and the pings alone
LEMMA MusicQuiet ==
    ASSUME MusicInv, NEW w \in MWorker, NEW p, NEW r, Jobs!MGoto(w, p, r), DOMAIN r = Locals,
           p \in Idle \cup Holding \cup {"meta", "wav", "server"},
           UNCHANGED mjob,
           UNCHANGED mbeat \/ (p = "poll" /\ mbeat' = [mbeat EXCEPT ![w] = "sleep"]),
           p # "poll" => r.job = mwork[w].job /\ mpc[w] \notin Idle,
           UNCHANGED mactive \/ (p \in Idle /\ Jobs!set_active_job(w, Jobs!NoId)),
           p \in Holding => r.take \in Take /\ r.take.whole /\ r.take.key = KeyOf[r.job],
           DOMAIN mfile' = MKey,
           \A k \in MKey : /\ DOMAIN mfile'[k] = {"wav", "meta"} /\ mfile'[k].wav \in Take
                           /\ mfile'[k].wav # Jobs!NoTake => mfile'[k].wav.key = k
    PROVE  MusicInv'
<1>1. /\ mpc' \in [MWorker -> Idle \cup Holding \cup {"meta", "wav", "server"}]
      /\ DOMAIN mwork' = MWorker /\ \A v \in MWorker : DOMAIN mwork'[v] = Locals
      /\ mpc'[w] = p /\ mwork'[w] = r
      /\ \A v \in MWorker : v # w => mpc'[v] = mpc[v] /\ mwork'[v] = mwork[v]
  BY MusicGoto
<1>2. DOMAIN mactive' = MWorker /\ (p \notin Idle => mactive'[w] = mactive[w])
      /\ \A v \in MWorker : v # w => mactive'[v] = mactive[v]
  BY DEF Jobs!set_active_job, MusicInv, MusicTypes
<1>a. DOMAIN mbeat' = MWorker /\ (p # "poll" => mbeat'[w] = mbeat[w])
      /\ \A v \in MWorker : v # w => mbeat'[v] = mbeat[v]
  BY DEF MusicInv, MusicTypes
<1>3. MusicTypes'
  BY <1>1, <1>2, <1>a DEF MusicInv, MusicTypes
<1>4. Rendering(w)' /\ Recording(w)'
  BY <1>1, <1>2, <1>a DEF MusicInv, Rendering, Recording, Keeps, Idle
<1>5. ASSUME NEW v \in MWorker, v # w PROVE Rendering(v)' /\ Recording(v)'
  BY <1>1, <1>2, <1>a, <1>5 DEF MusicInv, Rendering, Recording, Keeps, Idle
<1> QED BY <1>3, <1>4, <1>5 DEF MusicInv

\* The steps of the job loop between the take and the answer
LEMMA MusicWorks ==
    ASSUME MusicInv, NEW w \in MWorker,
           \/ Jobs!ReadMeta(w) \/ Jobs!ReadWav(w) \/ Jobs!RenderFails(w) \/ Jobs!Render(w)
           \/ Jobs!StoreWav(w) \/ Jobs!StoreMeta(w) \/ Jobs!StoreFails(w) \/ Jobs!PruneList(w)
           \/ Jobs!PruneWav(w) \/ Jobs!PruneMeta(w)
           \/ Jobs!Deliver(w) \/ Jobs!DeliverNothing(w) \/ Jobs!PostLost(w) \/ Jobs!MCrash(w)
    PROVE  MusicInv'
<1>a. /\ DOMAIN mwork[w] = Locals /\ DOMAIN Jobs!NoWork = Locals
      /\ DOMAIN mfile = MKey
      /\ \A k \in MKey : /\ DOMAIN mfile[k] = {"wav", "meta"} /\ mfile[k].wav \in Take
                         /\ mfile[k].wav # Jobs!NoTake => mfile[k].wav.key = k
  BY DEF MusicInv, MusicTypes, Jobs!NoWork, Locals
<1>b. mpc[w] # "poll" => mwork[w].job \in MJob /\ KeyOf[mwork[w].job] \in MKey
  BY MusicConstants DEF MusicInv, Rendering
<1>c. mpc[w] \in Holding => /\ mwork[w].take \in Take /\ mwork[w].take.whole
                            /\ mwork[w].take.key = KeyOf[mwork[w].job]
  BY DEF MusicInv, Recording
<1>d. Jobs!NoTake \in Take /\ Jobs!NoTake.whole = FALSE
  BY DEF Jobs!NoTake, Take
<1>e. \A r, x : DOMAIN r = Locals =>
        /\ DOMAIN [r EXCEPT !.meta = x] = Locals /\ [r EXCEPT !.meta = x].job = r.job
                                                 /\ [r EXCEPT !.meta = x].take = r.take
        /\ DOMAIN [r EXCEPT !.prune = x] = Locals /\ [r EXCEPT !.prune = x].job = r.job
                                                  /\ [r EXCEPT !.prune = x].take = r.take
        /\ DOMAIN [r EXCEPT !.job = x] = Locals /\ [r EXCEPT !.job = x].job = x
  BY DEF Locals
<1>1. CASE Jobs!ReadMeta(w)
  <2> DEFINE m == mfile[Jobs!MKeyOf(w)].meta
             p == IF m.attempts > 0 THEN "wav" ELSE "server"
             r == [mwork[w] EXCEPT !.meta = m]
  <2>1. Jobs!MGoto(w, p, r) /\ mpc[w] = "meta" /\ UNCHANGED <<mjob, mactive, mbeat, mfile, mtimes, mcrashes>>
    BY <1>1 DEF Jobs!ReadMeta
  <2>2. p \in {"wav", "server"} /\ DOMAIN r = Locals /\ r.job = mwork[w].job
    BY <1>a, <1>e
  <2> HIDE DEF p, r
  <2> QED BY <1>a, <2>1, <2>2, MusicQuiet DEF Idle, Holding
<1>2. CASE Jobs!ReadWav(w)
  <2> DEFINE k == Jobs!MKeyOf(w)  a == mfile[k].wav  u == [mwork[w] EXCEPT !.meta = Jobs!Unread]
             d == [mwork[w] EXCEPT !.take = a, !.hit = TRUE]
  <2>0. mpc[w] = "wav" /\ UNCHANGED <<mjob, mactive, mbeat, mcrashes>> /\ k \in MKey
    BY <1>2, <1>b DEF Jobs!ReadWav, Jobs!MKeyOf
  <2>1. DOMAIN u = Locals /\ u.job = mwork[w].job
    BY <1>a, <1>e
  <2>2. DOMAIN d = Locals /\ d.job = mwork[w].job /\ d.take = a
    BY <1>a DEF Locals
  <2>3. CASE Jobs!MGoto(w, "server", u) /\ UNCHANGED <<mfile, mtimes>>
    <3> HIDE DEF u
    <3> QED BY <1>a, <2>0, <2>1, <2>3, MusicQuiet DEF Idle, Holding
  <2>4. CASE /\ mfile' = [mfile EXCEPT ![k] = [wav |-> Jobs!NoTake, meta |-> Jobs!Unread]]
             /\ Jobs!MGoto(w, "server", u)
    <3>1. DOMAIN mfile' = MKey
          /\ \A x \in MKey : /\ DOMAIN mfile'[x] = {"wav", "meta"} /\ mfile'[x].wav \in Take
                             /\ mfile'[x].wav # Jobs!NoTake => mfile'[x].wav.key = x
      BY <1>a, <1>d, <2>4
    <3> HIDE DEF u
    <3> QED BY <2>0, <2>1, <2>4, <3>1, MusicQuiet DEF Idle, Holding
  <2>5. CASE a.whole /\ Jobs!MGoto(w, "deliver", d) /\ UNCHANGED mfile
    <3>1. a \in Take /\ a.key = k /\ k = KeyOf[d.job]
      BY <1>a, <1>d, <2>0, <2>2, <2>5 DEF Jobs!MKeyOf
    <3> HIDE DEF d
    <3> QED BY <1>a, <2>0, <2>2, <2>5, <3>1, MusicQuiet DEF Idle, Holding
  <2> QED BY <1>2, <2>3, <2>4, <2>5 DEF Jobs!ReadWav
<1>3. CASE Jobs!RenderFails(w)
  BY <1>3, <1>a, MusicQuiet DEF Jobs!RenderFails, Idle, Holding
<1>4. CASE Jobs!Render(w)
  <2>1. PICK s \in Jobs!Selections :
          Jobs!MGoto(w, "storewav", [mwork[w] EXCEPT !.meta = s,
                       !.take = [key |-> Jobs!MKeyOf(w), seed |-> s.seed, whole |-> TRUE]])
    BY <1>4 DEF Jobs!Render
  <2> DEFINE tk == [key |-> Jobs!MKeyOf(w), seed |-> s.seed, whole |-> TRUE]
             r == [mwork[w] EXCEPT !.meta = s, !.take = tk]
  <2>2. tk \in Take /\ tk.whole /\ tk.key = KeyOf[mwork[w].job]
    <3>1. s.seed \in Nat
      BY DEF Jobs!Selections
    <3>2. Jobs!MKeyOf(w) \in MKey /\ Jobs!MKeyOf(w) = KeyOf[mwork[w].job]
      BY <1>4, <1>b DEF Jobs!Render, Jobs!MKeyOf
    <3> QED BY <3>1, <3>2 DEF Take
  <2> HIDE DEF tk
  <2>3. DOMAIN r = Locals /\ r.job = mwork[w].job /\ r.take = tk
    BY <1>a DEF Locals
  <2>4. Jobs!MGoto(w, "storewav", r) /\ mpc[w] = "server" /\ UNCHANGED <<mjob, mactive, mbeat, mfile>>
    BY <1>4, <2>1 DEF Jobs!Render, tk
  <2> HIDE DEF r
  <2> QED BY <1>a, <2>2, <2>3, <2>4, MusicQuiet DEF Idle, Holding
<1>5. CASE Jobs!StoreWav(w)
  <2>1. /\ mpc[w] = "storewav" /\ Jobs!MGoto(w, "storemeta", mwork[w])
        /\ mfile' = [mfile EXCEPT ![Jobs!MKeyOf(w)].wav = mwork[w].take]
        /\ UNCHANGED <<mjob, mactive, mbeat>>
    BY <1>5 DEF Jobs!StoreWav
  <2>2. DOMAIN mfile' = MKey
        /\ \A x \in MKey : /\ DOMAIN mfile'[x] = {"wav", "meta"} /\ mfile'[x].wav \in Take
                           /\ mfile'[x].wav # Jobs!NoTake => mfile'[x].wav.key = x
    BY <1>a, <1>c, <2>1 DEF Jobs!MKeyOf, Holding
  <2> QED BY <1>a, <1>c, <2>1, <2>2, MusicQuiet DEF Idle, Holding
<1>6. CASE Jobs!StoreMeta(w)
  <2>1. /\ mpc[w] = "storemeta" /\ Jobs!MGoto(w, "list", mwork[w])
        /\ mfile' = [mfile EXCEPT ![Jobs!MKeyOf(w)].meta = mwork[w].meta]
        /\ UNCHANGED <<mjob, mactive, mbeat>>
    BY <1>6 DEF Jobs!StoreMeta
  <2>2. DOMAIN mfile' = MKey
        /\ \A x \in MKey : /\ DOMAIN mfile'[x] = {"wav", "meta"} /\ mfile'[x].wav \in Take
                           /\ mfile'[x].wav # Jobs!NoTake => mfile'[x].wav.key = x
    BY <1>a, <2>1
  <2> QED BY <1>a, <1>c, <2>1, <2>2, MusicQuiet DEF Idle, Holding
<1>7. CASE Jobs!StoreFails(w)
  BY <1>7, <1>a, <1>c, MusicQuiet DEF Jobs!StoreFails, Idle, Holding
<1>8. CASE Jobs!PruneList(w)
  <2> DEFINE p == IF Jobs!Surplus = << >> THEN "deliver" ELSE "prunewav"
             r == [mwork[w] EXCEPT !.prune = Jobs!Surplus]
  <2>1. Jobs!MGoto(w, p, r) /\ mpc[w] = "list" /\ UNCHANGED <<mjob, mactive, mbeat, mfile>>
    BY <1>8 DEF Jobs!PruneList
  <2>2. p \in {"deliver", "prunewav"} /\ DOMAIN r = Locals /\ r.job = mwork[w].job /\ r.take = mwork[w].take
    BY <1>a, <1>e
  <2> HIDE DEF p, r
  <2> QED BY <1>a, <1>c, <2>1, <2>2, MusicQuiet DEF Idle, Holding
<1>9. CASE Jobs!PruneWav(w)
  <2> DEFINE k == Head(mwork[w].prune)
  <2>1. /\ mpc[w] = "prunewav" /\ Jobs!MGoto(w, "prunemeta", mwork[w])
        /\ mfile' = [mfile EXCEPT ![k].wav = Jobs!NoTake]
        /\ UNCHANGED <<mjob, mactive, mbeat>>
    BY <1>9 DEF Jobs!PruneWav
  <2> HIDE DEF k
  <2>2. DOMAIN mfile' = MKey
        /\ \A x \in MKey : /\ DOMAIN mfile'[x] = {"wav", "meta"} /\ mfile'[x].wav \in Take
                           /\ mfile'[x].wav # Jobs!NoTake => mfile'[x].wav.key = x
    BY <1>a, <1>d, <2>1
  <2> QED BY <1>a, <1>c, <2>1, <2>2, MusicQuiet DEF Idle, Holding
<1>10. CASE Jobs!PruneMeta(w)
  <2> DEFINE k == Head(mwork[w].prune)
             p == IF Len(mwork[w].prune) = 1 THEN "deliver" ELSE "prunewav"
             r == [mwork[w] EXCEPT !.prune = Tail(@)]
  <2>1. /\ mpc[w] = "prunemeta" /\ Jobs!MGoto(w, p, r)
        /\ mfile' = [mfile EXCEPT ![k].meta = Jobs!Unread]
        /\ UNCHANGED <<mjob, mactive, mbeat>>
    BY <1>10 DEF Jobs!PruneMeta
  <2>2. p \in {"deliver", "prunewav"} /\ DOMAIN r = Locals /\ r.job = mwork[w].job /\ r.take = mwork[w].take
    BY <1>a DEF Locals
  <2> HIDE DEF k, p, r
  <2>3. DOMAIN mfile' = MKey
        /\ \A x \in MKey : /\ DOMAIN mfile'[x] = {"wav", "meta"} /\ mfile'[x].wav \in Take
                           /\ mfile'[x].wav # Jobs!NoTake => mfile'[x].wav.key = x
    BY <1>a, <2>1
  <2> QED BY <1>a, <1>c, <2>1, <2>2, <2>3, MusicQuiet DEF Idle, Holding
<1>11. CASE Jobs!Deliver(w)
  <2> DEFINE r == [Jobs!NoWork EXCEPT !.job = mwork[w].job]
  <2>1. Jobs!MGoto(w, "post", r) /\ Jobs!set_active_job(w, Jobs!NoId) /\ mpc[w] = "deliver"
        /\ UNCHANGED <<mjob, mbeat, mfile>>
    BY <1>11 DEF Jobs!Deliver
  <2>2. DOMAIN r = Locals /\ r.job = mwork[w].job
    BY <1>a, <1>e
  <2> HIDE DEF r
  <2> QED BY <1>a, <2>1, <2>2, MusicQuiet DEF Idle, Holding
<1>12. CASE Jobs!DeliverNothing(w)
  BY <1>12, <1>a, MusicQuiet DEF Jobs!DeliverNothing, Idle, Holding
<1>13. CASE Jobs!PostLost(w)
  BY <1>13, <1>a, MusicQuiet DEF Jobs!PostLost, Idle, Holding
<1>14. CASE Jobs!MCrash(w)
  <2>0. mpc[w] # "poll"
    BY <1>14 DEF Jobs!MCrash
  <2> DEFINE k == KeyOf[mwork[w].job]
  <2>1. \/ mfile' = [mfile EXCEPT ![k].wav.whole = FALSE] /\ mfile[k].wav # Jobs!NoTake
        \/ mfile' = mfile
    BY <1>14 DEF Jobs!MCrash, Jobs!MKeyOf
  <2>2. \A t \in Take : [t EXCEPT !.whole = FALSE] \in Take /\ [t EXCEPT !.whole = FALSE].key = t.key
    BY DEF Take
  <2> HIDE DEF k
  <2>3. DOMAIN mfile' = MKey
        /\ \A x \in MKey : /\ DOMAIN mfile'[x] = {"wav", "meta"} /\ mfile'[x].wav \in Take
                           /\ mfile'[x].wav # Jobs!NoTake => mfile'[x].wav.key = x
    <3>1. CASE mfile' = mfile
      BY <1>a, <3>1
    <3>2. CASE mfile' = [mfile EXCEPT ![k].wav.whole = FALSE] /\ mfile[k].wav # Jobs!NoTake
      <4>1. DOMAIN mfile' = MKey /\ \A x \in MKey : x # k => mfile'[x] = mfile[x]
        BY <1>a, <3>2
      <4>2. k \in MKey => mfile'[k] = [mfile[k] EXCEPT !.wav = [mfile[k].wav EXCEPT !.whole = FALSE]]
        BY <1>a, <3>2
      <4>3. k \in MKey => /\ DOMAIN mfile'[k] = {"wav", "meta"}
                          /\ mfile'[k].wav = [mfile[k].wav EXCEPT !.whole = FALSE]
        BY <1>a, <4>2
      <4>4. k \in MKey => mfile'[k].wav \in Take /\ mfile'[k].wav.key = k
        BY <1>a, <2>2, <3>2, <4>3
      <4> QED BY <1>a, <4>1, <4>3, <4>4
    <3> QED BY <2>1, <3>1, <3>2
  <2> QED BY <1>14, <1>a, <2>3, MusicQuiet DEF Jobs!MCrash, Idle, Holding
<1> QED BY <1>1, <1>2, <1>3, <1>4, <1>5, <1>6, <1>7, <1>8, <1>9, <1>10, <1>11, <1>12, <1>13, <1>14

\* A job changes hands only when it is queued
LEMMA MusicTake ==
    ASSUME MusicInv, NEW w \in MWorker, NEW j \in MJob, Jobs!TakeJob(w, j) \/ Jobs!TakeLost(w, j)
    PROVE  MusicInv'
<1> DEFINE r == [Jobs!NoWork EXCEPT !.job = j]
<1>1. DOMAIN r = Locals /\ r.job = j
  BY DEF Jobs!NoWork, Locals
<1>2. /\ mpc[w] = "poll" /\ mjob[j].state = "queued"
      /\ mjob' = [mjob EXCEPT ![j] = [state |-> "taken", by |-> w, missed |-> 0]]
      /\ UNCHANGED <<mbeat, mfile, mtimes, mcrashes>>
  BY DEF Jobs!TakeJob, Jobs!TakeLost
<1>3. /\ mjob' \in [MJob -> Ticket]
      /\ mjob'[j].state = "taken" /\ mjob'[j].by = w /\ mjob'[j].missed = 0
      /\ \A i \in MJob : i # j => mjob'[i] = mjob[i]
  BY <1>2 DEF MusicInv, MusicTypes, Ticket
<1>4. CASE Jobs!TakeJob(w, j)
  <2>1. Jobs!MGoto(w, "meta", r) /\ Jobs!set_active_job(w, j)
    BY <1>4 DEF Jobs!TakeJob
  <2> HIDE DEF r
  <2>2. /\ mpc' \in [MWorker -> Idle \cup Holding \cup {"meta", "wav", "server"}]
        /\ DOMAIN mwork' = MWorker /\ \A v \in MWorker : DOMAIN mwork'[v] = Locals
        /\ mpc'[w] = "meta" /\ mwork'[w] = r
        /\ \A v \in MWorker : v # w => mpc'[v] = mpc[v] /\ mwork'[v] = mwork[v]
    BY <1>1, <2>1, MusicGoto
  <2>3. DOMAIN mactive' = MWorker /\ mactive'[w] = j
        /\ \A v \in MWorker : v # w => mactive'[v] = mactive[v]
    BY <2>1 DEF Jobs!set_active_job, MusicInv, MusicTypes
  <2>4. MusicTypes'
    BY <1>2, <1>3, <2>2, <2>3 DEF MusicInv, MusicTypes
  <2>5. Rendering(w)' /\ Recording(w)'
    BY <1>1, <1>2, <1>3, <2>2, <2>3 DEF Rendering, Recording, Keeps, Holding
  <2>6. ASSUME NEW v \in MWorker, v # w PROVE Rendering(v)' /\ Recording(v)'
    <3>1. Rendering(v) /\ Recording(v)
      BY DEF MusicInv
    <3>2. mpc[v] \notin Idle => mwork[v].job # j
      BY <1>2, <3>1 DEF Rendering, Keeps, Idle
    <3>3. Recording(v)'
      BY <2>2, <2>6, <3>1 DEF Recording
    <3>4. mpc[v] \notin Idle => mjob'[mwork[v].job] = mjob[mwork[v].job]
      BY <1>3, <3>1, <3>2 DEF Rendering, Idle
    <3> QED BY <1>2, <2>2, <2>3, <2>6, <3>1, <3>3, <3>4 DEF Rendering, Keeps, Idle
  <2> QED BY <1>2, <2>4, <2>5, <2>6 DEF MusicInv
<1>5. CASE Jobs!TakeLost(w, j)
  <2>1. UNCHANGED <<mpc, mwork, mactive>>
    BY <1>5 DEF Jobs!TakeLost
  <2>2. MusicTypes'
    BY <1>2, <1>3, <2>1 DEF MusicInv, MusicTypes
  <2>3. ASSUME NEW v \in MWorker PROVE Rendering(v)' /\ Recording(v)'
    <3>1. Rendering(v) /\ Recording(v)
      BY DEF MusicInv
    <3>2. mpc[v] \notin Idle => mwork[v].job # j
      BY <1>2, <3>1 DEF Rendering, Keeps, Idle
    <3>3. Recording(v)'
      BY <2>1, <3>1 DEF Recording
    <3>4. mpc[v] \notin Idle => mjob'[mwork[v].job] = mjob[mwork[v].job]
      BY <1>3, <3>1, <3>2 DEF Rendering, Idle
    <3> QED BY <1>2, <2>1, <3>1, <3>3, <3>4 DEF Rendering, Keeps, Idle
  <2> QED BY <1>2, <2>2, <2>3 DEF MusicInv
<1> QED BY <1>4, <1>5

\* A ping that does not name the job of its worker is the only one
LEMMA MusicBeats ==
    ASSUME MusicInv, NEW w \in MWorker, Jobs!CopyActive(w) \/ Jobs!Ping(w) \/ Jobs!PingLost(w)
    PROVE  MusicInv'
<1>0. /\ UNCHANGED <<mpc, mwork, mactive, mfile, mtimes, mcrashes>>
      /\ DOMAIN mbeat' = MWorker
      /\ \A v \in MWorker : v # w => mbeat'[v] = mbeat[v]
  BY DEF Jobs!CopyActive, Jobs!Ping, Jobs!PingLost, MusicInv, MusicTypes
<1>1. \A v \in MWorker : Recording(v)'
  BY <1>0 DEF MusicInv, Recording
<1>2. CASE Jobs!CopyActive(w) \/ Jobs!PingLost(w)
  <2>1. mjob' = mjob /\ mbeat'[w] \in {"sleep", mactive[w]}
    BY <1>2 DEF Jobs!CopyActive, Jobs!PingLost, MusicInv, MusicTypes
  <2>2. MusicTypes'
    BY <1>0, <2>1 DEF MusicInv, MusicTypes
  <2>3. ASSUME NEW v \in MWorker PROVE Rendering(v)'
    BY <1>0, <2>1 DEF MusicInv, Rendering, Keeps
  <2> QED BY <1>0, <1>1, <2>2, <2>3 DEF MusicInv
<1>3. CASE Jobs!Ping(w)
  <2>1. /\ mbeat[w] # "sleep" /\ mbeat'[w] = "sleep"
        /\ mjob' = [j \in MJob |-> IF mjob[j].state = "taken" /\ mjob[j].by = w
                                   THEN Jobs!Pinged(j, mbeat[w]) ELSE mjob[j]]
    BY <1>3 DEF Jobs!Ping, MusicInv, MusicTypes
  <2>2. \A j \in MJob : mjob[j] \in Ticket
    BY DEF MusicInv, MusicTypes
  <2>3. ASSUME NEW j \in MJob
        PROVE  /\ mjob'[j] \in Ticket
               /\ mjob[j].state = "done" => mjob'[j] = mjob[j]
               /\ mjob[j].by # w => mjob'[j] = mjob[j]
               /\ mjob[j].state = "taken" /\ mjob[j].by = w /\ (mbeat[w] # j => mjob[j].missed = 0)
                    => mjob'[j].state = "taken" /\ mjob'[j].by = w
    <3> DEFINE x == mjob[j]
    <3>0. x \in Ticket /\ x.missed \in Nat
      BY <2>2 DEF Ticket
    <3>a. /\ [x EXCEPT !.missed = 0] \in Ticket /\ [x EXCEPT !.missed = @ + 1] \in Ticket
          /\ [x EXCEPT !.missed = 0].state = x.state /\ [x EXCEPT !.missed = 0].by = x.by
          /\ [x EXCEPT !.missed = @ + 1].state = x.state /\ [x EXCEPT !.missed = @ + 1].by = x.by
          /\ [state |-> "queued", by |-> "no id", missed |-> 0] \in Ticket
      <4> HIDE DEF x
      <4>1. x.missed + 1 \in Nat
        BY <3>0
      <4>2. [x EXCEPT !.missed = 0] \in Ticket /\ [x EXCEPT !.missed = @ + 1] \in Ticket
        BY <3>0, <4>1 DEF Ticket
      <4>3. /\ [x EXCEPT !.missed = 0].state = x.state /\ [x EXCEPT !.missed = 0].by = x.by
            /\ [x EXCEPT !.missed = @ + 1].state = x.state /\ [x EXCEPT !.missed = @ + 1].by = x.by
        BY <3>0 DEF Ticket
      <4>4. [state |-> "queued", by |-> "no id", missed |-> 0] \in Ticket
        BY DEF Ticket
      <4> QED BY <4>2, <4>3, <4>4
    <3>1. Jobs!Pinged(j, mbeat[w]) \in Ticket
      BY <3>a DEF Jobs!Pinged, Jobs!NoId
    <3>2. mbeat[w] = j \/ mjob[j].missed = 0 =>
            /\ Jobs!Pinged(j, mbeat[w]).state = mjob[j].state /\ Jobs!Pinged(j, mbeat[w]).by = mjob[j].by
      <4>1. CASE mbeat[w] = j
        BY <3>a, <4>1 DEF Jobs!Pinged
      <4>2. CASE mbeat[w] # j /\ x.missed = 0
        <5>1. x.missed + 1 < Grace
          BY <4>2, MusicConstants
        <5> QED BY <3>a, <4>2, <5>1 DEF Jobs!Pinged
      <4> QED BY <4>1, <4>2
    <3> QED BY <2>1, <2>2, <3>1, <3>2
  <2>4. MusicTypes'
    <3>1. mjob' \in [MJob -> Ticket]
      BY <2>1, <2>3
    <3> QED BY <1>0, <3>1 DEF MusicInv, MusicTypes
  <2>5. ASSUME NEW v \in MWorker PROVE Rendering(v)'
    <3>1. Rendering(v)
      BY DEF MusicInv
    <3> DEFINE j == mwork[v].job
    <3>2. CASE mpc[v] \in Idle
      BY <1>0, <3>1, <3>2 DEF Rendering, Idle
    <3>3. CASE mpc[v] \notin Idle
      <4>1. j \in MJob /\ mactive[v] = j /\ (mjob[j].state = "done" \/ Keeps(v, j))
        BY <3>1, <3>3 DEF Rendering, Idle
      <4>2. CASE mjob[j].state = "done"
        BY <1>0, <2>3, <4>1, <4>2 DEF Rendering
      <4>3. CASE Keeps(v, j) /\ v # w
        <5>1. mjob'[j] = mjob[j]
          BY <2>3, <4>1, <4>3 DEF Keeps
        <5> QED BY <1>0, <4>1, <4>3, <5>1 DEF Rendering, Keeps
      <4>4. CASE Keeps(v, j) /\ v = w
        <5>1. mjob'[j].state = "taken" /\ mjob'[j].by = w
          BY <2>1, <2>3, <4>1, <4>4 DEF Keeps
        <5> QED BY <1>0, <2>1, <4>1, <4>4, <5>1 DEF Rendering, Keeps
      <4> QED BY <4>1, <4>2, <4>3, <4>4
    <3> QED BY <3>2, <3>3
  <2> QED BY <1>0, <1>1, <2>4, <2>5 DEF MusicInv
<1> QED BY <1>2, <1>3

LEMMA MusicPost ==
    ASSUME MusicInv, NEW w \in MWorker, Jobs!PostOutput(w)
    PROVE  MusicInv'
<1>1. mpc[w] = "post" /\ Jobs!MGoto(w, "poll", Jobs!NoWork) /\ UNCHANGED <<mactive, mbeat, mfile>>
  BY DEF Jobs!PostOutput
<1>2. /\ mpc' \in [MWorker -> Idle \cup Holding \cup {"meta", "wav", "server"}]
      /\ DOMAIN mwork' = MWorker /\ \A v \in MWorker : DOMAIN mwork'[v] = Locals
      /\ mpc'[w] = "poll" /\ \A v \in MWorker : v # w => mpc'[v] = mpc[v] /\ mwork'[v] = mwork[v]
  <2>1. DOMAIN Jobs!NoWork = Locals /\ "poll" \in Idle
    BY DEF Jobs!NoWork, Locals, Idle
  <2> QED BY <1>1, <2>1, MusicGoto
<1>3. /\ mjob' \in [MJob -> Ticket]
      /\ \A j \in MJob : mjob'[j] = mjob[j] \/ mjob'[j].state = "done"
  BY DEF Jobs!PostOutput, MusicInv, MusicTypes, Jobs!NoId, Ticket
<1>4. MusicTypes'
  BY <1>1, <1>2, <1>3 DEF MusicInv, MusicTypes
<1>5. ASSUME NEW v \in MWorker PROVE Rendering(v)' /\ Recording(v)'
  <2>1. CASE v = w
    BY <1>2, <2>1 DEF Rendering, Recording, Holding
  <2>2. CASE v # w
    <3>1. Rendering(v) /\ Recording(v) /\ mpc'[v] = mpc[v] /\ mwork'[v] = mwork[v]
      BY <1>2, <2>2 DEF MusicInv
    <3>2. Recording(v)'
      BY <3>1 DEF Recording
    <3>3. mpc[v] # "poll" => mjob'[mwork[v].job] = mjob[mwork[v].job] \/ mjob'[mwork[v].job].state = "done"
      BY <1>3, <3>1 DEF Rendering
    <3> QED BY <1>1, <3>1, <3>2, <3>3 DEF Rendering, Keeps
  <2> QED BY <2>1, <2>2
<1> QED BY <1>1, <1>4, <1>5 DEF MusicInv

LEMMA MusicInvNext == MusicInv /\ [Jobs!MusicNext]_(Jobs!musicVars) => MusicInv'
<1> SUFFICES ASSUME MusicInv, [Jobs!MusicNext]_(Jobs!musicVars) PROVE MusicInv'
  OBVIOUS
<1>1. CASE Jobs!MusicNext
  BY <1>1, MusicTake, MusicBeats, MusicWorks, MusicPost DEF Jobs!MusicNext
<1>2. CASE UNCHANGED Jobs!musicVars
  BY <1>2 DEF Jobs!musicVars, MusicInv, MusicTypes, Rendering, Recording, Keeps
<1> QED BY <1>1, <1>2

\* However pings, renders and prunes interleave and containers are killed, no job is
\* taken from a live worker that renders it, and the cache serves whole recordings of
\* the request (heartbeat_worker, runpod_loop, result_cache_load).
THEOREM RecordingsAreSound == Jobs!MusicSpec => []RecordingsSound
BY MusicInvInit, MusicInvNext, MusicInvSound, PTL DEF Jobs!MusicSpec

-----------------------------------------------------------------------------
(* The guard.  A window has one verdict when every stage answers; a frame of  *)
(* a thread that has met no failure is on its way to that verdict, and a      *)
(* clean cache entry carries what the judge would say again.                  *)

\* What the judge sees of w with the embedding stage up, and whether it is asked
Seen(w) == [warm |-> TRUE, emb |-> w.emb]
Judged(w) == ~Guard!ShortOpen(w) \/ Guard!Invoked(w, Seen(w))
Closes(w) == ~Guard!ShortOpen(w) /\ w.gate = "low"
Blocks(c, p) == IF c \in enabledCats THEN [cat |-> c, rule |-> "block", pyes |-> p]
                ELSE [cat |-> 0, rule |-> "pass", pyes |-> p]
Passes(p) == [cat |-> 0, rule |-> "pass", pyes |-> p]
Closed == [Guard!NoVerdict EXCEPT !.rule = "closed"]
Judgement(w) ==
    IF Closes(w) THEN Closed
    ELSE IF w.all = "low" THEN Passes("low")
    ELSE IF w.all = "high" /\ Guard!Signal(w, Seen(w)) # 0 THEN Blocks(Guard!Signal(w, Seen(w)), "high")
    ELSE IF w.all = "high" THEN Blocks(w.best, "high")
    ELSE IF w.trig THEN Blocks(w.best, "mid") ELSE Passes(w.top)
JudgedFrame(w) == [judge |-> Judgement(w), ok |-> TRUE,
                   emb |-> IF Judgement(w).rule # "closed" THEN w.emb ELSE 0]
FinalOf(w) ==
    IF Guard!Suppressed(w) THEN 0
    ELSE IF Judged(w) THEN Guard!Verdict(w, JudgedFrame(w)) ELSE w.emb

GuardFields == {"key", "emb", "warm", "open", "judge", "ok", "cached", "clean", "final"}
Asking == {"gatecall", "judge", "singles", "insert"}
\* Where a frame without a failure is on the way of window w
OnWay(p, f, w) ==
    /\ p \in {"gate", "gatecall", "judge", "singles"} => f.emb = w.emb
    /\ p \in Asking => ~Guard!Suppressed(w)
    /\ p = "gatecall" => ~Guard!ShortOpen(w)
    /\ p \in {"judge", "singles"} => ~Closes(w)
    /\ p = "singles" => /\ Judged(w) /\ f.ok /\ w.all # "low"
                        /\ ~(w.all = "high" /\ Guard!Signal(w, Seen(w)) # 0)
    /\ p = "insert" => /\ Judged(w) /\ f.judge = Judgement(w) /\ f.ok
                       /\ f.emb = JudgedFrame(w).emb
    /\ p = "final" /\ judgeLive => Guard!Verdict(w, f) = FinalOf(w)
FrameOk(p, f) ==
    /\ DOMAIN f = GuardFields
    /\ p \in {"embed", "gate", "gatecall", "judge"} => f.judge = Guard!NoVerdict /\ ~f.ok
    /\ p \in {"embed", "gate"} => f.clean
    /\ f.warm /\ f.clean => OnWay(p, f, Windows[f.key])
EntryOk(e) ==
    /\ DOMAIN e = {"used", "key", "gen", "verdict", "clean"}
    /\ e.used /\ e.clean => Judged(Windows[e.key]) /\ e.verdict = Judgement(Windows[e.key])
GuardInv ==
    /\ DOMAIN gpc = GuardThread /\ DOMAIN gf = GuardThread
    /\ \A g \in GuardThread : FrameOk(gpc[g], gf[g])
    /\ DOMAIN jcache = Guard!JSlot /\ \A s \in Guard!JSlot : EntryOk(jcache[s])
    /\ \A h \in history : \E k : h = <<k, FinalOf(Windows[k])>>

LEMMA GuardInvSound == GuardInv => SameVerdict
<1> SUFFICES ASSUME GuardInv, NEW a \in history, NEW b \in history, a[1] = b[1] PROVE a[2] = b[2]
  BY DEF SameVerdict, Guard!SameVerdict
<1>1. PICK k : a = <<k, FinalOf(Windows[k])>>
  BY DEF GuardInv
<1>2. PICK l : b = <<l, FinalOf(Windows[l])>>
  BY DEF GuardInv
<1> HIDE DEF FinalOf
<1> QED BY <1>1, <1>2

LEMMA GuardInvInit == Guard!GuardInit => GuardInv
<1> SUFFICES ASSUME Guard!GuardInit PROVE GuardInv
  OBVIOUS
<1>1. DOMAIN Guard!Blank = GuardFields
  BY DEF Guard!Blank, GuardFields
<1>2. ASSUME NEW w PROVE OnWay("idle", Guard!Blank, w)
  BY DEF OnWay, Asking
<1>3. FrameOk("idle", Guard!Blank)
  BY <1>1, <1>2 DEF FrameOk
<1>4. EntryOk(Guard!NoEntry)
  BY DEF EntryOk, Guard!NoEntry
<1> QED BY <1>3, <1>4 DEF Guard!GuardInit, GuardInv

\* The categories and whether there is a judge are settled at start-up
LEMMA GuardSettled ==
    ASSUME enabledCats' = enabledCats, judgeLive' = judgeLive
    PROVE  /\ \A p, f : FrameOk(p, f)' <=> FrameOk(p, f)
           /\ \A e : EntryOk(e)' <=> EntryOk(e)
           /\ \A w : FinalOf(w)' = FinalOf(w)
<1>1. \A w : Guard!Sig(w)' = Guard!Sig(w) /\ Guard!Strong(w)' = Guard!Strong(w)
  BY DEF Guard!Sig, Guard!Strong
<1>2. \A w : Guard!User(w)' = Guard!User(w) /\ Guard!ShortOpen(w)' = Guard!ShortOpen(w)
  BY <1>1 DEF Guard!User, Guard!ShortOpen, Guard!Pre
<1>3. \A w, f : Guard!Invoked(w, f)' = Guard!Invoked(w, f)
  BY <1>1, <1>2 DEF Guard!Invoked, Guard!Pre
<1>4. \A w, f : Guard!Signal(w, f)' = Guard!Signal(w, f)
  <2> DEFINE C(S) == CHOOSE c \in S : TRUE
             V(w, f, S) == IF Guard!Cardinality(S) = 1 THEN C(S)
               ELSE IF \/ S = {} /\ (IF f.warm THEN w.margin ELSE 0) = 2
                       \/ S # {} /\ (IF f.warm THEN w.margin ELSE 0) >= 1 /\ w.arg \in S
                    THEN w.arg ELSE 0
  <2>1. \A w, f : Guard!Signal(w, f) = V(w, f, Guard!Sig(w))
    BY DEF Guard!Signal
  <2>2. \A w, f : Guard!Signal(w, f)' = V(w, f, Guard!Sig(w)')
    BY DEF Guard!Signal
  <2> HIDE DEF V
  <2> QED BY <1>1, <2>1, <2>2
<1>5. \A w, f : Guard!Verdict(w, f)' = Guard!Verdict(w, f)
  BY <1>1 DEF Guard!Verdict
<1>6. \A w : Judged(w)' = Judged(w) /\ Closes(w)' = Closes(w)
  BY <1>2, <1>3 DEF Judged, Closes, Seen
<1>7. \A c, p : Blocks(c, p)' = Blocks(c, p)
  BY DEF Blocks
<1>8. \A w : Judgement(w)' = Judgement(w)
  BY <1>4, <1>6, <1>7 DEF Judgement, Seen, Passes, Closed, Guard!NoVerdict
<1>9. \A w : JudgedFrame(w)' = JudgedFrame(w)
  BY <1>8 DEF JudgedFrame
<1>10. \A w : FinalOf(w)' = FinalOf(w)
  BY <1>5, <1>6, <1>9 DEF FinalOf, Guard!Suppressed
<1>11. \A p, f, w : OnWay(p, f, w)' <=> OnWay(p, f, w)
  BY <1>2, <1>4, <1>5, <1>6, <1>8, <1>9, <1>10 DEF OnWay, Guard!Suppressed, Seen
<1>12. \A p, f : FrameOk(p, f)' <=> FrameOk(p, f)
  BY <1>11 DEF FrameOk, Guard!NoVerdict
<1>13. \A e : EntryOk(e)' <=> EntryOk(e)
  BY <1>6, <1>8 DEF EntryOk
<1> QED BY <1>10, <1>12, <1>13

\* A step that moves one thread
LEMMA GuardGoto ==
    ASSUME GuardInv, NEW g \in GuardThread, NEW p, NEW f, Guard!Goto(g, p, f), FrameOk(p, f),
           enabledCats' = enabledCats, judgeLive' = judgeLive,
           DOMAIN jcache' = Guard!JSlot, \A s \in Guard!JSlot : EntryOk(jcache'[s]),
           \A h \in history' : \E k : h = <<k, FinalOf(Windows[k])>>
    PROVE  GuardInv'
<1>1. /\ DOMAIN gpc' = GuardThread /\ DOMAIN gf' = GuardThread
      /\ gpc'[g] = p /\ gf'[g] = f
      /\ \A h \in GuardThread : h # g => gpc'[h] = gpc[h] /\ gf'[h] = gf[h]
  BY DEF Guard!Goto, GuardInv
<1>2. \A h \in GuardThread : FrameOk(gpc'[h], gf'[h])
  BY <1>1 DEF GuardInv
<1>3. \A h \in GuardThread : FrameOk(gpc[h], gf[h])'
  BY <1>2, GuardSettled
<1>4. \A s \in Guard!JSlot : EntryOk(jcache[s])'
  BY GuardSettled
<1>5. (\A h \in history : \E k : h = <<k, FinalOf(Windows[k])>>)'
  BY GuardSettled
<1> QED BY <1>1, <1>3, <1>4, <1>5 DEF GuardInv, Guard!JSlot

\* ... and leaves the cache and the record alone
LEMMA GuardWalks ==
    ASSUME GuardInv, NEW g \in GuardThread, NEW p, NEW f, Guard!Goto(g, p, f), FrameOk(p, f),
           enabledCats' = enabledCats, judgeLive' = judgeLive, jcache' = jcache, history' = history
    PROVE  GuardInv'
<1>1. /\ DOMAIN jcache' = Guard!JSlot /\ \A s \in Guard!JSlot : EntryOk(jcache'[s])
      /\ \A h \in history' : \E k : h = <<k, FinalOf(Windows[k])>>
  BY DEF GuardInv
<1> QED BY <1>1, GuardGoto

\* The judge sees of a warm frame what it sees of the window
LEMMA JudgeSees ==
    ASSUME NEW w, NEW f, f.warm, f.emb = w.emb
    PROVE  /\ Guard!Invoked(w, f) <=> Guard!Invoked(w, Seen(w))
           /\ Guard!Signal(w, f) = Guard!Signal(w, Seen(w))
<1>1. Seen(w).warm /\ Seen(w).emb = w.emb
  BY DEF Seen
<1>2. Guard!Invoked(w, f) <=> Guard!Invoked(w, Seen(w))
  BY <1>1 DEF Guard!Invoked
<1>3. Guard!Signal(w, f) = Guard!Signal(w, Seen(w))
  BY <1>1 DEF Guard!Signal
<1> QED BY <1>2, <1>3

LEMMA GuardBegins ==
    ASSUME GuardInv, NEW g \in GuardThread,
           \/ \E k \in Guard!Key : Guard!ClassifyStart(g, k)
           \/ Guard!Embed(g) \/ Guard!ClassifyEnd(g)
    PROVE  GuardInv'
<1>0. DOMAIN Guard!Blank = GuardFields /\ Guard!Blank.judge = Guard!NoVerdict /\ ~Guard!Blank.ok
      /\ Guard!Blank.clean
  BY DEF Guard!Blank, GuardFields
<1>1. ASSUME NEW k \in Guard!Key, Guard!ClassifyStart(g, k) PROVE GuardInv'
  <2> DEFINE f == [Guard!Blank EXCEPT !.key = k, !.final = Guard!Lex(Windows[k])]
             p == IF f.final # 0 \/ Guard!Skipped(Windows[k]) THEN "end" ELSE "embed"
  <2>1. Guard!Goto(g, p, f) /\ UNCHANGED <<enabledCats, judgeLive, jcache, history>>
    BY <1>1 DEF Guard!ClassifyStart, Guard!judgeState
  <2>2. DOMAIN f = GuardFields /\ f.judge = Guard!NoVerdict /\ ~f.ok /\ f.clean
    BY <1>0 DEF GuardFields
  <2>3. p \in {"end", "embed"}
    OBVIOUS
  <2> HIDE DEF f, p
  <2>4. FrameOk(p, f)
    BY <2>2, <2>3 DEF FrameOk, OnWay, Asking
  <2> QED BY <2>1, <2>4, GuardWalks
<1>2. CASE Guard!Embed(g)
  <2> DEFINE f == [gf[g] EXCEPT !.warm = embStage = "live",
                                !.emb = IF embStage = "live" THEN Guard!Win(g).emb ELSE 0]
  <2>1. Guard!Goto(g, "gate", f) /\ gpc[g] = "embed" /\ UNCHANGED <<enabledCats, judgeLive, jcache, history>>
    BY <1>2 DEF Guard!Embed, Guard!judgeState
  <2>2. DOMAIN gf[g] = GuardFields /\ gf[g].judge = Guard!NoVerdict /\ ~gf[g].ok /\ gf[g].clean
    BY <2>1 DEF GuardInv, FrameOk
  <2>3. /\ DOMAIN f = GuardFields /\ f.judge = gf[g].judge /\ f.ok = gf[g].ok /\ f.key = gf[g].key
        /\ f.clean = gf[g].clean
        /\ f.warm => f.emb = Windows[gf[g].key].emb
    BY <2>2 DEF GuardFields, Guard!Win
  <2> HIDE DEF f
  <2>4. FrameOk("gate", f)
    BY <2>2, <2>3 DEF FrameOk, OnWay, Asking
  <2> QED BY <2>1, <2>4, GuardWalks
<1>3. CASE Guard!ClassifyEnd(g)
  <2>1. FrameOk("idle", Guard!Blank)
    BY <1>0 DEF FrameOk, OnWay, Asking
  <2>2. Guard!Goto(g, "idle", Guard!Blank) /\ UNCHANGED <<enabledCats, judgeLive, jcache, history>>
    BY <1>3 DEF Guard!ClassifyEnd, Guard!judgeState
  <2> QED BY <2>1, <2>2, GuardWalks
<1> QED BY <1>1, <1>2, <1>3

LEMMA GuardGates ==
    ASSUME GuardInv, NEW g \in GuardThread, Guard!GateStage(g)
    PROVE  GuardInv'
<1> DEFINE f == gf[g]  w == Windows[f.key]
<1>0. /\ gpc[g] = "gate" /\ DOMAIN f = GuardFields /\ f.judge = Guard!NoVerdict /\ ~f.ok
      /\ f.clean /\ (f.warm => f.emb = w.emb)
      /\ UNCHANGED <<enabledCats, judgeLive, history>>
  BY DEF Guard!GateStage, GuardInv, FrameOk, OnWay, Guard!judgeState
<1>1. CASE (Guard!Suppressed(w) \/ ~judgeLive) /\ Guard!Goto(g, "final", Guard!Gated(f, FALSE)) /\ UNCHANGED jcache
  <2> DEFINE r == Guard!Gated(f, FALSE)
  <2>1. /\ DOMAIN r = GuardFields /\ r.key = f.key /\ r.warm = f.warm /\ r.clean = f.clean
        /\ r.judge = f.judge /\ r.ok = f.ok /\ r.emb = 0
    BY <1>0 DEF Guard!Gated, GuardFields
  <2> HIDE DEF r
  <2>2. Guard!Verdict(w, r) = 0
    BY <1>0, <2>1 DEF Guard!Verdict, Guard!NoVerdict
  <2>3. judgeLive => FinalOf(w) = 0
    BY <1>1 DEF FinalOf
  <2>4. FrameOk("final", r)
    BY <2>1, <2>2, <2>3 DEF FrameOk, OnWay, Asking
  <2> QED BY <1>0, <1>1, <2>4, GuardWalks DEF r
<1>2. CASE /\ ~Guard!Suppressed(w) /\ judgeLive /\ Guard!Hits(f.key) = {}
           /\ IF Guard!ShortOpen(w) THEN Guard!Goto(g, "judge", Guard!Gated(f, TRUE)) ELSE Guard!Goto(g, "gatecall", f)
           /\ UNCHANGED jcache
  <2>1. CASE Guard!ShortOpen(w)
    <3> DEFINE r == Guard!Gated(f, TRUE)
    <3>1. /\ DOMAIN r = GuardFields /\ r.key = f.key /\ r.warm = f.warm /\ r.clean = f.clean
          /\ r.judge = f.judge /\ r.ok = f.ok /\ r.emb = f.emb
      BY <1>0 DEF Guard!Gated, GuardFields
    <3> HIDE DEF r
    <3>2. FrameOk("judge", r)
      BY <1>0, <1>2, <2>1, <3>1 DEF FrameOk, OnWay, Asking, Closes
    <3> QED BY <1>0, <1>2, <2>1, <3>2, GuardWalks DEF r
  <2>2. CASE ~Guard!ShortOpen(w)
    <3>1. FrameOk("gatecall", f)
      BY <1>0, <1>2, <2>2 DEF FrameOk, OnWay, Asking
    <3> QED BY <1>0, <1>2, <2>2, <3>1, GuardWalks
  <2> QED BY <2>1, <2>2
<1>3. CASE /\ ~Guard!Suppressed(w) /\ judgeLive /\ Guard!Hits(f.key) # {}
           /\ LET s == Guard!Min(Guard!Hits(f.key)) e == jcache[s] IN
              /\ jcache' = [jcache EXCEPT ![s].gen = jgen + 1]
              /\ Guard!Goto(g, "final", [Guard!Gated(f, e.verdict.rule # "closed") EXCEPT
                    !.judge = e.verdict, !.ok = TRUE, !.cached = TRUE, !.clean = e.clean])
  <2> DEFINE s == Guard!Min(Guard!Hits(f.key))  e == jcache[s]
             q == Guard!Gated(f, e.verdict.rule # "closed")
             r == [q EXCEPT !.judge = e.verdict, !.ok = TRUE, !.cached = TRUE, !.clean = e.clean]
  <2>1. s \in Guard!Hits(f.key)
    <3>1. Guard!Hits(f.key) \subseteq 1..JudgeSlots /\ JudgeSlots \in Nat
      BY ServicesAssumption DEF Guard!Hits, Guard!JSlot, Guard!GuardAssumption
    <3>2. IsFiniteSet(Guard!Hits(f.key)) /\ \A x \in Guard!Hits(f.key) : x \in Int
      <4>1. IsFiniteSet(1..JudgeSlots)
        BY <3>1, FS_Interval
      <4> QED BY <3>1, <4>1, FS_Subset
    <3>3. Min(Guard!Hits(f.key)) \in Guard!Hits(f.key)
      BY <1>3, <3>2, LeastElement
    <3> QED BY <3>3 DEF Guard!Min, Min
  <2>2. s \in Guard!JSlot /\ e.used /\ e.key = f.key /\ EntryOk(e)
    BY <2>1 DEF Guard!Hits, GuardInv
  <2>3. /\ DOMAIN q = GuardFields /\ q.key = f.key /\ q.warm = f.warm
        /\ q.emb = IF e.verdict.rule # "closed" THEN f.emb ELSE 0
    BY <1>0 DEF Guard!Gated, GuardFields
  <2>4. Guard!Goto(g, "final", r) /\ jcache' = [jcache EXCEPT ![s].gen = jgen + 1]
    BY <1>3
  <2> HIDE DEF s, e, q
  <2>5. /\ DOMAIN r = GuardFields /\ r.key = f.key /\ r.warm = f.warm /\ r.emb = q.emb
        /\ r.judge = e.verdict /\ r.ok = TRUE /\ r.clean = e.clean
    BY <2>3 DEF GuardFields
  <2> HIDE DEF r
  <2>6. ASSUME r.warm, r.clean PROVE Guard!Verdict(w, r) = FinalOf(w)
    <3>1. Judged(w) /\ r.judge = Judgement(w) /\ f.emb = w.emb
      BY <1>0, <2>2, <2>5, <2>6 DEF EntryOk
    <3>2. r.emb = JudgedFrame(w).emb
      BY <2>3, <2>5, <3>1 DEF JudgedFrame
    <3>3. JudgedFrame(w).judge = Judgement(w) /\ JudgedFrame(w).ok
      BY DEF JudgedFrame
    <3>4. Guard!Verdict(w, r) = Guard!Verdict(w, JudgedFrame(w))
      BY <2>5, <3>1, <3>2, <3>3 DEF Guard!Verdict
    <3> QED BY <1>3, <3>1, <3>4 DEF FinalOf
  <2>7. FrameOk("final", r)
    BY <2>5, <2>6 DEF FrameOk, OnWay, Asking
  <2>8. DOMAIN jcache' = Guard!JSlot /\ \A x \in Guard!JSlot : EntryOk(jcache'[x])
    <3>1. DOMAIN jcache' = Guard!JSlot /\ \A x \in Guard!JSlot : x # s => jcache'[x] = jcache[x]
      BY <2>4 DEF GuardInv
    <3>2. jcache'[s] = [e EXCEPT !.gen = jgen + 1]
      BY <2>2, <2>4 DEF GuardInv, e
    <3>3. EntryOk([e EXCEPT !.gen = jgen + 1])
      BY <2>2 DEF EntryOk
    <3> QED BY <3>1, <3>2, <3>3 DEF GuardInv
  <2>9. \A h \in history' : \E k : h = <<k, FinalOf(Windows[k])>>
    BY <1>0 DEF GuardInv
  <2> QED BY <1>0, <2>4, <2>7, <2>8, <2>9, GuardGoto
<1> QED BY <1>1, <1>2, <1>3 DEF Guard!GateStage, Guard!Win

LEMMA GuardAsksGate ==
    ASSUME GuardInv, NEW g \in GuardThread, Guard!GateCall(g)
    PROVE  GuardInv'
<1> DEFINE f == gf[g]  w == Windows[f.key]
<1>0. /\ gpc[g] = "gatecall" /\ DOMAIN f = GuardFields /\ f.judge = Guard!NoVerdict /\ ~f.ok
      /\ f.warm /\ f.clean => f.emb = w.emb /\ ~Guard!Suppressed(w) /\ ~Guard!ShortOpen(w)
      /\ UNCHANGED <<enabledCats, judgeLive, jcache, history>>
  BY DEF Guard!GateCall, GuardInv, FrameOk, OnWay, Guard!judgeState, Asking
<1>1. CASE Guard!Goto(g, "final", [Guard!Gated(f, FALSE) EXCEPT !.clean = FALSE])
  <2> DEFINE r == [Guard!Gated(f, FALSE) EXCEPT !.clean = FALSE]
  <2>1. DOMAIN r = GuardFields /\ ~r.clean
    BY <1>0 DEF Guard!Gated, GuardFields
  <2> HIDE DEF r
  <2>2. FrameOk("final", r)
    BY <2>1 DEF FrameOk
  <2> QED BY <1>0, <1>1, <2>2, GuardWalks DEF r
<1>2. CASE /\ w.gate = "low"
           /\ Guard!Goto(g, "insert", [Guard!Gated(f, FALSE) EXCEPT !.ok = TRUE, !.judge = Closed])
  <2> DEFINE r == [Guard!Gated(f, FALSE) EXCEPT !.ok = TRUE, !.judge = Closed]
  <2>0. Closed.rule = "closed"
    BY DEF Closed, Guard!NoVerdict
  <2> HIDE DEF Closed
  <2>1. /\ DOMAIN r = GuardFields /\ r.key = f.key /\ r.warm = f.warm /\ r.clean = f.clean
        /\ r.judge = Closed /\ r.ok /\ r.emb = 0
    BY <1>0 DEF Guard!Gated, GuardFields
  <2> HIDE DEF r
  <2>2. f.warm /\ f.clean => Judged(w) /\ Judgement(w) = Closed /\ JudgedFrame(w).emb = 0
    BY <1>0, <1>2, <2>0 DEF Judged, Judgement, Closes, JudgedFrame
  <2>3. FrameOk("insert", r)
    BY <1>0, <2>1, <2>2 DEF FrameOk, OnWay
  <2> QED BY <1>0, <1>2, <2>3, GuardWalks DEF r
<1>3. CASE w.gate # "low" /\ Guard!Goto(g, "judge", Guard!Gated(f, TRUE))
  <2> DEFINE r == Guard!Gated(f, TRUE)
  <2>1. /\ DOMAIN r = GuardFields /\ r.key = f.key /\ r.warm = f.warm /\ r.clean = f.clean
        /\ r.judge = f.judge /\ r.ok = f.ok /\ r.emb = f.emb
    BY <1>0 DEF Guard!Gated, GuardFields
  <2> HIDE DEF r
  <2>2. FrameOk("judge", r)
    BY <1>0, <1>3, <2>1 DEF FrameOk, OnWay, Closes
  <2> QED BY <1>0, <1>3, <2>2, GuardWalks DEF r
<1> QED BY <1>1, <1>2, <1>3 DEF Guard!GateCall, Guard!Win, Closed

LEMMA GuardAsksJudge ==
    ASSUME GuardInv, NEW g \in GuardThread, Guard!JudgeCall(g)
    PROVE  GuardInv'
<1> DEFINE f == gf[g]  w == Windows[f.key]
<1>0. /\ gpc[g] = "judge" /\ DOMAIN f = GuardFields /\ f.judge = Guard!NoVerdict /\ ~f.ok
      /\ f.warm /\ f.clean => f.emb = w.emb /\ ~Guard!Suppressed(w) /\ ~Closes(w)
      /\ UNCHANGED <<enabledCats, judgeLive, jcache, history>>
  BY DEF Guard!JudgeCall, GuardInv, FrameOk, OnWay, Guard!judgeState, Asking
<1>a. f.warm /\ f.clean => /\ Guard!Invoked(w, f) <=> Guard!Invoked(w, Seen(w))
                           /\ Guard!Signal(w, f) = Guard!Signal(w, Seen(w))
  BY <1>0, JudgeSees
<1>b. f.warm /\ f.clean => (Guard!Invoked(w, f) <=> Judged(w))
  BY <1>a DEF Judged, Guard!Invoked
<1>c. \A p : Judgement(w) = Passes(p) \/ (\E c : Judgement(w) = Blocks(c, p)) => JudgedFrame(w).emb = w.emb
  <2>1. \A c, p : Passes(p).rule # "closed" /\ Blocks(c, p).rule # "closed"
    BY DEF Passes, Blocks
  <2> HIDE DEF w
  <2>2. Judgement(w).rule # "closed" => JudgedFrame(w).emb = w.emb
    BY DEF JudgedFrame
  <2> QED BY <2>1, <2>2
<1>1. CASE ~Guard!Invoked(w, f) /\ Guard!Goto(g, "final", f)
  <2>1. Guard!Verdict(w, f) = f.emb
    BY <1>0 DEF Guard!Verdict, Guard!NoVerdict
  <2>2. f.warm /\ f.clean => FinalOf(w) = w.emb
    BY <1>0, <1>1, <1>b DEF FinalOf
  <2>3. FrameOk("final", f)
    BY <1>0, <2>1, <2>2 DEF FrameOk, OnWay, Asking
  <2> QED BY <1>0, <1>1, <2>3, GuardWalks
<1>2. CASE Guard!Goto(g, "final", [f EXCEPT !.clean = FALSE])
  <2> DEFINE r == [f EXCEPT !.clean = FALSE]
  <2>1. DOMAIN r = GuardFields /\ ~r.clean
    BY <1>0 DEF GuardFields
  <2> HIDE DEF r
  <2>2. FrameOk("final", r)
    BY <2>1 DEF FrameOk
  <2> QED BY <1>0, <1>2, <2>2, GuardWalks DEF r
<1>3. CASE /\ Guard!Invoked(w, f) /\ w.all = "low"
           /\ Guard!Goto(g, "insert", Guard!Pass([f EXCEPT !.ok = TRUE], "low"))
  <2> DEFINE r == Guard!Pass([f EXCEPT !.ok = TRUE], "low")
  <2>1. /\ DOMAIN r = GuardFields /\ r.key = f.key /\ r.warm = f.warm /\ r.clean = f.clean
        /\ r.judge = Passes("low") /\ r.ok /\ r.emb = f.emb
    BY <1>0 DEF Guard!Pass, GuardFields, Passes
  <2> HIDE DEF r
  <2>2. f.warm /\ f.clean => Judgement(w) = Passes("low")
    BY <1>0, <1>3 DEF Judgement
  <2>3. FrameOk("insert", r)
    BY <1>0, <1>3, <1>b, <1>c, <2>1, <2>2 DEF FrameOk, OnWay
  <2> QED BY <1>0, <1>3, <2>3, GuardWalks DEF r
<1>4. CASE /\ Guard!Invoked(w, f) /\ w.all = "high" /\ Guard!Signal(w, f) # 0
           /\ Guard!Goto(g, "insert", Guard!judge_block([f EXCEPT !.ok = TRUE], Guard!Signal(w, f), "high"))
  <2> DEFINE c == Guard!Signal(w, f)  r == Guard!judge_block([f EXCEPT !.ok = TRUE], c, "high")
  <2>0. f.warm /\ f.clean => Judgement(w) = Blocks(c, "high")
    BY <1>0, <1>4, <1>a DEF Judgement
  <2> HIDE DEF c
  <2>1. /\ DOMAIN r = GuardFields /\ r.key = f.key /\ r.warm = f.warm /\ r.clean = f.clean
        /\ r.judge = Blocks(c, "high") /\ r.ok /\ r.emb = f.emb
    BY <1>0 DEF Guard!judge_block, GuardFields, Blocks
  <2> HIDE DEF r
  <2>2. f.warm /\ f.clean => JudgedFrame(w).emb = w.emb
    BY <1>c, <2>0
  <2>3. FrameOk("insert", r)
    BY <1>0, <1>4, <1>b, <2>0, <2>1, <2>2 DEF FrameOk, OnWay
  <2> QED BY <1>0, <1>4, <2>3, GuardWalks DEF r, c
<1>5. CASE /\ Guard!Invoked(w, f) /\ w.all # "low" /\ ~(w.all = "high" /\ Guard!Signal(w, f) # 0)
           /\ Guard!Goto(g, "singles", [f EXCEPT !.ok = TRUE])
  <2> DEFINE r == [f EXCEPT !.ok = TRUE]
  <2>1. /\ DOMAIN r = GuardFields /\ r.key = f.key /\ r.warm = f.warm /\ r.clean = f.clean
        /\ r.ok /\ r.emb = f.emb
    BY <1>0 DEF GuardFields
  <2> HIDE DEF r
  <2>2. FrameOk("singles", r)
    BY <1>0, <1>5, <1>a, <1>b, <2>1 DEF FrameOk, OnWay
  <2> QED BY <1>0, <1>5, <2>2, GuardWalks DEF r
<1> QED BY <1>1, <1>2, <1>3, <1>4, <1>5 DEF Guard!JudgeCall, Guard!Win

LEMMA GuardAsksEach ==
    ASSUME GuardInv, NEW g \in GuardThread, Guard!JudgeSingles(g)
    PROVE  GuardInv'
<1> DEFINE f == gf[g]  w == Windows[f.key]
<1>0. /\ gpc[g] = "singles" /\ DOMAIN f = GuardFields
      /\ f.warm /\ f.clean => /\ f.emb = w.emb /\ ~Guard!Suppressed(w) /\ ~Closes(w)
                              /\ Judged(w) /\ f.ok /\ w.all # "low"
                              /\ ~(w.all = "high" /\ Guard!Signal(w, Seen(w)) # 0)
      /\ UNCHANGED <<enabledCats, judgeLive, jcache, history>>
  BY DEF Guard!JudgeSingles, GuardInv, FrameOk, OnWay, Guard!judgeState, Asking
<1>a. ASSUME NEW j, NEW p, j = Passes(p) \/ \E c : j = Blocks(c, p), f.warm /\ f.clean => Judgement(w) = j,
             NEW r, DOMAIN r = GuardFields, r.key = f.key, r.warm = f.warm, r.clean = f.clean,
             r.judge = j, r.ok = f.ok, r.emb = f.emb
      PROVE  FrameOk("insert", r)
  <2>1. j.rule # "closed"
    BY <1>a DEF Passes, Blocks
  <2> HIDE DEF w
  <2>2. Judgement(w).rule # "closed" => JudgedFrame(w).emb = w.emb
    BY DEF JudgedFrame
  <2> QED BY <1>0, <1>a, <2>1, <2>2 DEF FrameOk, OnWay, w
<1>1. CASE Guard!Goto(g, "insert", Guard!Pass([f EXCEPT !.clean = FALSE], w.all))
  <2> DEFINE r == Guard!Pass([f EXCEPT !.clean = FALSE], w.all)
  <2>1. DOMAIN r = GuardFields /\ ~r.clean
    BY <1>0 DEF GuardFields, Guard!Pass
  <2> HIDE DEF r
  <2>2. FrameOk("insert", r)
    BY <2>1 DEF FrameOk
  <2> QED BY <1>0, <1>1, <2>2, GuardWalks DEF r
<1>2. ASSUME NEW p, f.warm /\ f.clean => Judgement(w) = Blocks(w.best, p),
             Guard!Goto(g, "insert", Guard!judge_block(f, w.best, p))
      PROVE  GuardInv'
  <2> DEFINE c == w.best  r == Guard!judge_block(f, c, p)
  <2>0. f.warm /\ f.clean => Judgement(w) = Blocks(c, p)
    BY <1>2
  <2> HIDE DEF c
  <2>1. /\ DOMAIN r = GuardFields /\ r.key = f.key /\ r.warm = f.warm /\ r.clean = f.clean
        /\ r.judge = Blocks(c, p) /\ r.ok = f.ok /\ r.emb = f.emb
    BY <1>0 DEF Guard!judge_block, GuardFields, Blocks
  <2> HIDE DEF r
  <2>2. FrameOk("insert", r)
    BY <1>a, <2>0, <2>1
  <2> QED BY <1>0, <1>2, <2>2, GuardWalks DEF r, c
<1>3. CASE w.all # "high" /\ ~w.trig /\ Guard!Goto(g, "insert", Guard!Pass(f, w.top))
  <2> DEFINE p == w.top  r == Guard!Pass(f, p)
  <2>0. f.warm /\ f.clean => Judgement(w) = Passes(p)
    BY <1>0, <1>3 DEF Judgement
  <2> HIDE DEF p
  <2>1. /\ DOMAIN r = GuardFields /\ r.key = f.key /\ r.warm = f.warm /\ r.clean = f.clean
        /\ r.judge = Passes(p) /\ r.ok = f.ok /\ r.emb = f.emb
    BY <1>0 DEF Guard!Pass, GuardFields, Passes
  <2> HIDE DEF r
  <2>2. FrameOk("insert", r)
    BY <1>a, <2>0, <2>1
  <2> QED BY <1>0, <1>3, <2>2, GuardWalks DEF r, p
<1>4. \/ Guard!Goto(g, "insert", Guard!Pass([f EXCEPT !.clean = FALSE], w.all))
      \/ w.all = "high" /\ Guard!Goto(g, "insert", Guard!judge_block(f, w.best, "high"))
      \/ /\ w.all # "high" /\ w.trig
         /\ Guard!Goto(g, "insert", Guard!judge_block(f, w.best, "mid"))
      \/ w.all # "high" /\ ~w.trig /\ Guard!Goto(g, "insert", Guard!Pass(f, w.top))
  BY Zenon DEF Guard!JudgeSingles, Guard!Win
<1>5. CASE w.all = "high" /\ Guard!Goto(g, "insert", Guard!judge_block(f, w.best, "high"))
  <2>1. f.warm /\ f.clean => Judgement(w) = Blocks(w.best, "high")
    BY <1>0, <1>5 DEF Judgement
  <2> QED BY <1>2, <1>5, <2>1, Zenon
<1>6. CASE /\ w.all # "high" /\ w.trig
           /\ Guard!Goto(g, "insert", Guard!judge_block(f, w.best, "mid"))
  <2>1. f.warm /\ f.clean => Judgement(w) = Blocks(w.best, "mid")
    BY <1>0, <1>6 DEF Judgement
  <2> QED BY <1>2, <1>6, <2>1, Zenon
<1> HIDE DEF f, w
<1> QED BY <1>1, <1>3, <1>4, <1>5, <1>6, Zenon

LEMMA GuardRemembers ==
    ASSUME GuardInv, NEW g \in GuardThread, Guard!JudgeInsert(g)
    PROVE  GuardInv'
<1> DEFINE f == gf[g]  w == Windows[f.key]
           e == [used |-> TRUE, key |-> f.key, gen |-> jgen + 1, verdict |-> f.judge, clean |-> f.clean /\ f.warm]
<1>0. /\ gpc[g] = "insert" /\ DOMAIN f = GuardFields
      /\ f.warm /\ f.clean => /\ ~Guard!Suppressed(w) /\ Judged(w) /\ f.judge = Judgement(w) /\ f.ok
                              /\ f.emb = JudgedFrame(w).emb
      /\ UNCHANGED <<enabledCats, judgeLive, history>>
      /\ jcache' = [jcache EXCEPT ![Guard!Victim] = e] /\ Guard!Goto(g, "final", f)
  BY DEF Guard!JudgeInsert, GuardInv, FrameOk, OnWay, Guard!judgeState, Asking
<1>1. /\ DOMAIN e = {"used", "key", "gen", "verdict", "clean"}
      /\ e.key = f.key /\ e.verdict = f.judge /\ (e.clean <=> f.clean /\ f.warm)
  OBVIOUS
<1> HIDE DEF e
<1>2. EntryOk(e)
  BY <1>0, <1>1 DEF EntryOk
<1>3. DOMAIN jcache' = Guard!JSlot /\ \A s \in Guard!JSlot : EntryOk(jcache'[s])
  BY <1>0, <1>2 DEF GuardInv
<1>4. ASSUME f.warm, f.clean PROVE Guard!Verdict(w, f) = FinalOf(w)
  <2>1. JudgedFrame(w).judge = f.judge /\ JudgedFrame(w).ok /\ JudgedFrame(w).emb = f.emb /\ f.ok
    BY <1>0, <1>4 DEF JudgedFrame
  <2>2. Guard!Verdict(w, f) = Guard!Verdict(w, JudgedFrame(w))
    BY <2>1 DEF Guard!Verdict
  <2> QED BY <1>0, <1>4, <2>2 DEF FinalOf
<1>5. FrameOk("final", f)
  BY <1>0, <1>4 DEF FrameOk, OnWay, Asking
<1>6. \A h \in history' : \E k : h = <<k, FinalOf(Windows[k])>>
  BY <1>0 DEF GuardInv
<1> QED BY <1>0, <1>3, <1>5, <1>6, GuardGoto

LEMMA GuardDecides ==
    ASSUME GuardInv, NEW g \in GuardThread, Guard!ClassifyFinal(g)
    PROVE  GuardInv'
<1> DEFINE f == gf[g]  w == Windows[f.key]  r == [f EXCEPT !.final = Guard!Verdict(w, f)]
<1>0. /\ gpc[g] = "final" /\ DOMAIN f = GuardFields
      /\ f.warm /\ f.clean /\ judgeLive => Guard!Verdict(w, f) = FinalOf(w)
      /\ UNCHANGED <<enabledCats, judgeLive, jcache>>
      /\ Guard!Goto(g, "end", r)
      /\ history' = IF r.clean /\ r.warm /\ judgeLive THEN history \cup {<<r.key, r.final>>} ELSE history
  BY DEF Guard!ClassifyFinal, Guard!Win, GuardInv, FrameOk, OnWay, Guard!judgeState, Asking
<1>1. /\ DOMAIN r = GuardFields /\ r.key = f.key /\ r.warm = f.warm /\ r.clean = f.clean
      /\ r.final = Guard!Verdict(w, f)
  BY <1>0 DEF GuardFields
<1> HIDE DEF r
<1>2. FrameOk("end", r)
  BY <1>1 DEF FrameOk, OnWay, Asking
<1>3. \A h \in history' : \E k : h = <<k, FinalOf(Windows[k])>>
  <2>1. CASE r.clean /\ r.warm /\ judgeLive
    <3>1. history' = history \cup {<<f.key, FinalOf(w)>>}
      BY <1>0, <1>1, <2>1
    <3> QED BY <3>1 DEF GuardInv
  <2>2. CASE ~(r.clean /\ r.warm /\ judgeLive)
    BY <1>0, <2>2 DEF GuardInv
  <2> QED BY <2>1, <2>2
<1>4. DOMAIN jcache' = Guard!JSlot /\ \A s \in Guard!JSlot : EntryOk(jcache'[s])
  BY <1>0 DEF GuardInv
<1> QED BY <1>0, <1>2, <1>3, <1>4, GuardGoto

LEMMA GuardInvNext == GuardInv /\ [Guard!GuardNext]_(Guard!guardVars) => GuardInv'
<1> SUFFICES ASSUME GuardInv, [Guard!GuardNext]_(Guard!guardVars) PROVE GuardInv'
  OBVIOUS
<1>1. ASSUME UNCHANGED <<enabledCats, judgeLive, jcache, gpc, gf, history>> PROVE GuardInv'
  <2>1. \A g \in GuardThread : FrameOk(gpc[g], gf[g])'
    BY <1>1, GuardSettled DEF GuardInv
  <2>2. \A s \in Guard!JSlot : EntryOk(jcache[s])'
    BY <1>1, GuardSettled DEF GuardInv
  <2>3. (\A h \in history : \E k : h = <<k, FinalOf(Windows[k])>>)'
    BY <1>1, GuardSettled DEF GuardInv
  <2> QED BY <1>1, <2>1, <2>2, <2>3 DEF GuardInv, Guard!JSlot
<1>2. CASE (\E q \in BOOLEAN : Guard!AdmitTick(q)) \/ Guard!Admit \/ Guard!EvictJudge \/ Guard!EmbSeed
  <2>1. UNCHANGED <<enabledCats, judgeLive, jcache, gpc, gf, history>>
    BY <1>2 DEF Guard!AdmitTick, Guard!Admit, Guard!EvictJudge, Guard!EmbSeed, Guard!judgeState
  <2> QED BY <1>1, <2>1
<1>3. ASSUME NEW g \in GuardThread,
             \/ \E k \in Guard!Key : Guard!ClassifyStart(g, k)
             \/ Guard!Embed(g) \/ Guard!GateStage(g) \/ Guard!GateCall(g) \/ Guard!JudgeCall(g)
             \/ Guard!JudgeSingles(g) \/ Guard!JudgeInsert(g) \/ Guard!ClassifyFinal(g)
             \/ Guard!ClassifyEnd(g)
      PROVE  GuardInv'
  BY <1>3, GuardBegins, GuardGates, GuardAsksGate, GuardAsksJudge, GuardAsksEach, GuardRemembers,
     GuardDecides
<1>4. CASE UNCHANGED Guard!guardVars
  <2>1. UNCHANGED <<enabledCats, judgeLive, jcache, gpc, gf, history>>
    BY <1>4 DEF Guard!guardVars, Guard!judgeState
  <2> QED BY <1>1, <2>1
<1> QED BY <1>2, <1>3, <1>4 DEF Guard!GuardNext

\* With every stage answering a text has one verdict, whether it is judged, found in the
\* cache, or judged by several threads at once, and whatever entries others push out
\* meanwhile (classify_inner, jcache_lookup, jcache_insert).
THEOREM VerdictsAgree == Guard!GuardSpec => []SameVerdict
BY GuardInvInit, GuardInvNext, GuardInvSound, PTL DEF Guard!GuardSpec

-----------------------------------------------------------------------------
(* The residency arbiter.  Winners are taken in rank order, and only locked   *)
(* holders rank before a locked holder: what keeps one out is the room those   *)
(* take.                                                                       *)

ClaimFields == {"active", "resident", "admitted", "demand", "req_age", "seen_age", "held", "cool", "revokes"}
ClaimOk(c) == DOMAIN c = ClaimFields /\ c.demand \in Nat /\ c.seen_age \in Nat
LedgerOk(cl) == DOMAIN cl = Owner /\ \A o \in Owner : ClaimOk(cl[o])
ResInv ==
    /\ LedgerOk(claims) /\ other \in Nat
    /\ DOMAIN rpc = Owner
    /\ DOMAIN seen = Owner /\ \A o \in Owner : seen[o].requests \in Nat /\ seen[o].free \in Int
    /\ DOMAIN reqs = Owner /\ \A o \in Owner : reqs[o] \in Nat

LEMMA OwnersTyped ==
    /\ IsFiniteSet(Owner) /\ Ranked \in Seq(Owner)
    /\ \A o \in Owner : \E i \in DOMAIN Ranked : Ranked[i] = o
    /\ \A i, j \in DOMAIN Ranked : Ranked[i] = Ranked[j] => i = j
    /\ \A o \in Owner : ResidentMb[o] \in Nat /\ StreamMb[o] \in Nat /\ SavedMs[o] \in Nat
    /\ claim_ttl \in Nat
    /\ Total \in Nat /\ Others \subseteq Nat /\ keep_free_mb \in Nat /\ Weight \in Nat /\ MaxDemand \in Nat
<1>1. IsFiniteSet(Owner)
  BY ServicesAssumption DEF Res!OwnerAssumption, Res!IsFiniteSet, IsFiniteSet
<1> QED BY <1>1, ServicesAssumption
        DEF Res!OwnerAssumption, Res!MemoryAssumption, Res!TimeAssumption, Res!Range, Res!IsInjective

LEMMA MbIsSum == \A S : Res!Mb(S) = Sum(ResidentMb, S)
<1>1. \A f, S : Res!Sum(f, S) = Adder(f, S)[S]
  BY DEF Res!Sum, Res!MapThenSumSet, Res!MapThenFoldSet, Adder, Adds, Pick
<1> QED BY <1>1, SumIsAdder DEF Res!Mb

LEMMA MbNat == \A S \in SUBSET Owner : Res!Mb(S) \in Nat
BY OwnersTyped, MbIsSum, SumNat, FS_Subset

LEMMA MbMonotone == \A S \in SUBSET Owner : \A T \in SUBSET S : Res!Mb(T) <= Res!Mb(S)
BY OwnersTyped, MbIsSum, SumSubset, FS_Subset

\* The headroom kept shrinks as the set it is kept beside grows
Reserves(cl, S) == {0} \cup {StreamMb[o] : o \in {x \in Res!Active(cl) \ S : cl[x].req_age <= reserve_idle}}
LEMMA ReserveGreatest ==
    ASSUME NEW cl, NEW S
    PROVE  /\ Res!stream_reserve(cl, S) \in Reserves(cl, S) /\ Res!stream_reserve(cl, S) \in Nat
           /\ \A m \in Reserves(cl, S) : Res!stream_reserve(cl, S) >= m
<1> DEFINE X == {x \in Res!Active(cl) \ S : cl[x].req_age <= reserve_idle}  V == {StreamMb[o] : o \in X}
<1>1. X \subseteq Owner /\ IsFiniteSet(X)
  BY OwnersTyped, FS_Subset DEF Res!Active
<1>2. IsFiniteSet(V)
  <2> DEFINE f == [o \in X |-> StreamMb[o]]
  <2>1. f \in Surjection(X, V)
    BY DEF Surjection
  <2> QED BY <1>1, <2>1, FS_Surjection
<1>3. IsFiniteSet(Reserves(cl, S)) /\ Reserves(cl, S) = V \cup {0}
  BY <1>2, FS_AddElement DEF Reserves
<1>4. \A m \in Reserves(cl, S) : m \in Nat
  BY <1>1, <1>3, OwnersTyped
<1>5. \E m \in Reserves(cl, S) : \A y \in Reserves(cl, S) : m >= y
  BY <1>3, <1>4, GreatestElement
<1> QED BY <1>4, <1>5 DEF Res!stream_reserve, Reserves, Res!Max

LEMMA ReserveShrinks ==
    ASSUME NEW cl, NEW S, NEW T, S \subseteq T
    PROVE  Res!stream_reserve(cl, T) <= Res!stream_reserve(cl, S)
<1>1. Reserves(cl, T) \subseteq Reserves(cl, S)
  BY DEF Reserves
<1> QED BY <1>1, ReserveGreatest

LEMMA IndexDistinct ==
    /\ \A o \in Owner : Res!Index(o) \in Nat
    /\ \A a, b \in Owner : Res!Index(a) = Res!Index(b) => a = b
<1>1. \A o \in Owner : Res!Index(o) \in DOMAIN Ranked /\ Ranked[Res!Index(o)] = o
  BY OwnersTyped DEF Res!Index
<1> QED BY <1>1, OwnersTyped

LEMMA ProductNat == \A a, b \in Nat : a * b \in Nat
OBVIOUS

\* The rank of a claim: locked or not, its benefit, its slot
LEMMA ScoreTyped ==
    ASSUME NEW cl, LedgerOk(cl), NEW o \in Owner
    PROVE  /\ Res!Score(cl, o) = <<Res!Score(cl, o)[1], Res!Score(cl, o)[2]>>
           /\ Res!Score(cl, o)[1] = IF Res!Locked(cl[o]) THEN 1 ELSE 0
           /\ Res!Score(cl, o)[2] \in Nat
<1> DEFINE w == IF cl[o].admitted THEN 3 ELSE 2
<1>1. cl[o].demand \in Nat /\ SavedMs[o] \in Nat /\ w \in Nat
  BY OwnersTyped DEF LedgerOk, ClaimOk
<1>2. cl[o].demand * SavedMs[o] \in Nat
  BY <1>1, ProductNat
<1> HIDE DEF w
<1>3. cl[o].demand * SavedMs[o] * w \in Nat
  BY <1>1, <1>2, ProductNat
<1> QED BY <1>3 DEF Res!Score, w

Ranks(cl) == {p \in Res!Active(cl) \X Res!Active(cl) : Res!Before(cl, p[1], p[2])}
LEMMA RanksOrder ==
    ASSUME NEW cl, LedgerOk(cl)
    PROVE  Orders(Ranks(cl), Res!Active(cl))
<1> DEFINE A == Res!Active(cl)  s(o) == Res!Score(cl, o)[1]  b(o) == Res!Score(cl, o)[2]  n(o) == Res!Index(o)
<1>1. A \subseteq Owner
  BY DEF Res!Active
<1>2. \A o \in A : s(o) \in Nat /\ b(o) \in Nat /\ n(o) \in Nat
  BY <1>1, ScoreTyped, IndexDistinct
<1>3. ASSUME NEW x \in A, NEW y \in A
      PROVE  Res!Before(cl, x, y) <=>
               s(x) > s(y) \/ (s(x) = s(y) /\ b(x) > b(y)) \/ (s(x) = s(y) /\ b(x) = b(y) /\ n(x) < n(y))
  <2>1. Res!Score(cl, x) = Res!Score(cl, y) <=> s(x) = s(y) /\ b(x) = b(y)
    BY <1>1, ScoreTyped
  <2> QED BY <2>1 DEF Res!Before
<1>4. \A x, y \in A : x # y => n(x) # n(y)
  BY <1>1, IndexDistinct
<1>5. \A x, y \in A : <<x, y>> \in Ranks(cl) <=> Res!Before(cl, x, y)
  BY DEF Ranks
<1> HIDE DEF A, s, b, n
<1>6. \A x \in A : <<x, x>> \notin Ranks(cl)
  BY <1>2, <1>3, <1>5
<1>7. ASSUME NEW x \in A, NEW y \in A, NEW z \in A, <<x, y>> \in Ranks(cl), <<y, z>> \in Ranks(cl)
      PROVE  <<x, z>> \in Ranks(cl)
  <2>1. Res!Before(cl, x, y) /\ Res!Before(cl, y, z)
    BY <1>5, <1>7
  <2>2. Res!Before(cl, x, z)
    BY <1>2, <1>3, <2>1
  <2> QED BY <1>5, <2>2
<1>8. \A x, y \in A : x # y => <<x, y>> \in Ranks(cl) \/ <<y, x>> \in Ranks(cl)
  BY <1>2, <1>3, <1>4, <1>5
<1> QED BY <1>6, <1>7, <1>8 DEF Orders, A

LEMMA WinnersTaken ==
    ASSUME NEW cl, LedgerOk(cl), NEW free, NEW low
    PROVE  LET W == Res!Winners(cl, free, low) IN
           /\ W \in SUBSET Res!Active(cl)
           /\ \A o \in Res!Active(cl) :
                o \in W <=> Res!Joins(cl, free, low, {x \in W : Res!Before(cl, x, o)}, o)
<1> DEFINE A == Res!Active(cl)
           Q == {p \in (SUBSET A) \X A : Res!Joins(cl, free, low, p[1], p[2])}
           Good(W) == \A o \in A : o \in W <=> Res!Joins(cl, free, low, {x \in W : Res!Before(cl, x, o)}, o)
<1>1. IsFiniteSet(A) /\ A \subseteq Owner
  BY OwnersTyped, FS_Subset DEF Res!Active
<1>2. PICK W \in SUBSET A : Greedy(A, Ranks(cl), Q, W)
  BY <1>1, RanksOrder, GreedySet
<1>3. ASSUME NEW o \in A PROVE o \in W <=> Res!Joins(cl, free, low, {x \in W : Res!Before(cl, x, o)}, o)
  <2>1. {x \in W : <<x, o>> \in Ranks(cl)} = {x \in W : Res!Before(cl, x, o)}
    BY DEF Ranks
  <2> DEFINE S == {x \in W : Res!Before(cl, x, o)}
  <2>2. o \in W <=> <<S, o>> \in Q
    BY <1>2, <2>1 DEF Greedy
  <2>3. S \in SUBSET A
    OBVIOUS
  <2> HIDE DEF S
  <2>4. <<S, o>> \in Q <=> Res!Joins(cl, free, low, S, o)
    BY <2>3
  <2> QED BY <2>2, <2>4 DEF S
<1>4. Good(W)
  BY <1>3
<1>5. Res!Winners(cl, free, low) = CHOOSE V \in SUBSET A : Good(V)
  BY DEF Res!Winners
<1> HIDE DEF Good
<1>6. Res!Winners(cl, free, low) \in SUBSET A /\ Good(Res!Winners(cl, free, low))
  BY <1>4, <1>5
<1> QED BY <1>6 DEF Good

LEMMA LeastOfTwo == \A a, b \in Nat : Res!Min({a, b}) \in Nat
<1> SUFFICES ASSUME NEW a \in Nat, NEW b \in Nat PROVE Res!Min({a, b}) \in Nat
  OBVIOUS
<1>1. CASE a <= b
  <2>1. a \in {a, b} /\ \A y \in {a, b} : a <= y
    BY <1>1
  <2> QED BY <2>1 DEF Res!Min
<1>2. CASE b <= a
  <2>1. b \in {a, b} /\ \A y \in {a, b} : b <= y
    BY <1>2
  <2> QED BY <2>1 DEF Res!Min
<1> QED BY <1>1, <1>2

LEMMA ExpiredOk ==
    ASSUME NEW cl, LedgerOk(cl)
    PROVE  /\ LedgerOk(Res!Expired(cl))
           /\ \A o \in Owner : cl[o].seen_age <= claim_ttl => Res!Expired(cl)[o] = cl[o]
<1>1. ASSUME NEW o \in Owner
      PROVE  ClaimOk(Res!Expired(cl)[o]) /\ (cl[o].seen_age <= claim_ttl => Res!Expired(cl)[o] = cl[o])
  <2>1. DOMAIN cl[o] = ClaimFields /\ cl[o].demand \in Nat /\ cl[o].seen_age \in Nat /\ claim_ttl \in Nat
    BY OwnersTyped DEF LedgerOk, ClaimOk
  <2>2. ClaimOk([cl[o] EXCEPT !.active = FALSE])
    BY <2>1 DEF ClaimOk, ClaimFields
  <2> QED BY <2>1, <2>2 DEF Res!Expired, ClaimOk
<1> QED BY <1>1 DEF LedgerOk, Res!Expired

\* The report of o counts its requests; it touches no grant
LEMMA RecordedOk ==
    ASSUME NEW cl, LedgerOk(cl), NEW o \in Owner, NEW n \in Nat, NEW res
    PROVE  LET b == Res!Recorded(cl, o, n, res) IN
           /\ LedgerOk(b)
           /\ \A x \in Owner : x # o => b[x] = cl[x]
           /\ cl[o].active => /\ b[o].active = cl[o].active /\ b[o].admitted = cl[o].admitted
                              /\ b[o].held = cl[o].held
<1> DEFINE fresh == [Res!NoClaim EXCEPT !.active = TRUE]
           c == IF cl[o].active THEN cl[o] ELSE fresh
           d == Res!Min({MaxDemand, c.demand + Weight * n})
           a == IF n > 0 THEN 0 ELSE c.req_age
           e == [c EXCEPT !.resident = res, !.seen_age = 0, !.demand = d, !.req_age = a]
<1>1. ClaimOk(fresh)
  BY DEF ClaimOk, ClaimFields, Res!NoClaim
<1> HIDE DEF fresh
<1>2. ClaimOk(c) /\ (cl[o].active => c = cl[o])
  BY <1>1 DEF LedgerOk
<1> HIDE DEF c
<1>3. d \in Nat
  <2>1. Weight * n \in Nat
    BY OwnersTyped, ProductNat
  <2>2. c.demand + Weight * n \in Nat
    BY <1>2, <2>1 DEF ClaimOk
  <2> QED BY <2>2, OwnersTyped, LeastOfTwo
<1> HIDE DEF d, a
<1>4. ClaimOk(e) /\ e.active = c.active /\ e.admitted = c.admitted /\ e.held = c.held
  BY <1>2, <1>3 DEF ClaimOk, ClaimFields
<1>5. Res!Recorded(cl, o, n, res) = [cl EXCEPT ![o] = e]
  BY DEF Res!Recorded, c, d, a, fresh
<1> HIDE DEF e
<1> QED BY <1>2, <1>4, <1>5 DEF LedgerOk

\* Grants change, demand does not; a winner holds one
LEMMA AdmittedOk ==
    ASSUME NEW cl, LedgerOk(cl), NEW W
    PROVE  LET a == Res!Admitted(cl, W) IN
           /\ LedgerOk(a)
           /\ \A o \in Owner : cl[o].active /\ o \in W => a[o].admitted
<1> DEFINE a == Res!Admitted(cl, W)
<1>1. ASSUME NEW o \in Owner PROVE ClaimOk(a[o]) /\ (cl[o].active /\ o \in W => a[o].admitted)
  <2>0. DOMAIN cl[o] = ClaimFields /\ cl[o].demand \in Nat /\ cl[o].seen_age \in Nat
    BY DEF LedgerOk, ClaimOk
  <2>1. CASE ~cl[o].active
    <3>1. a[o] = cl[o]
      BY <2>1 DEF Res!Admitted
    <3> QED BY <2>0, <2>1, <3>1 DEF ClaimOk
  <2>2. CASE cl[o].active /\ o \in W
    <3> DEFINE h == IF cl[o].admitted THEN cl[o].held ELSE 0
    <3>1. a[o] = [cl[o] EXCEPT !.admitted = TRUE, !.held = h]
      BY <2>2 DEF Res!Admitted
    <3> HIDE DEF h, a
    <3> QED BY <2>0, <3>1 DEF ClaimOk, ClaimFields
  <2>3. CASE cl[o].active /\ o \notin W
    <3>1. PICK c, r : a[o] = cl[o] \/ a[o] = [cl[o] EXCEPT !.admitted = FALSE, !.cool = c, !.revokes = r]
      BY <2>3 DEF Res!Admitted
    <3> HIDE DEF a
    <3> QED BY <2>0, <2>3, <3>1 DEF ClaimOk, ClaimFields
  <2> QED BY <2>1, <2>2, <2>3
<1>2. DOMAIN a = Owner
  BY DEF Res!Admitted
<1> QED BY <1>1, <1>2 DEF LedgerOk

\* Device memory and the ledger stay numbers
LEMMA ResInvInit == Res!ResInit => ResInv
<1> SUFFICES ASSUME Res!ResInit PROVE ResInv
  OBVIOUS
<1>1. other \in Nat
  <2>1. IsFiniteSet(Others) /\ Others # {} /\ \A x \in Others : x \in Nat
    BY ServicesAssumption DEF Res!MemoryAssumption, Res!IsFiniteSet, IsFiniteSet
  <2>2. Min(Others) \in Others
    BY <2>1, LeastElement
  <2>3. other = Min(Others)
    BY DEF Res!ResInit, Res!Min, Min
  <2> QED BY <2>1, <2>2, <2>3
<1>2. ClaimOk(Res!NoClaim)
  BY DEF ClaimOk, ClaimFields, Res!NoClaim
<1>3. LedgerOk(claims)
  BY <1>2 DEF Res!ResInit, LedgerOk
<1> QED BY <1>1, <1>3 DEF Res!ResInit, ResInv

LEMMA ReportKeepsLedger ==
    ASSUME ResInv, NEW o \in Owner, Res!ores_report(o)
    PROVE  LedgerOk(claims')
<1>1. LedgerOk(Res!Expired(claims))
  BY ExpiredOk DEF ResInv
<1>2. CASE claims' = Res!Expired(claims)
  BY <1>1, <1>2
<1>3. CASE claims' = [Res!Ledger(o) EXCEPT ![o].resident = @ \/ Res!Answer(o)]
  <2> DEFINE base == Res!Recorded(Res!Expired(claims), o, seen[o].requests, cur[o])
             L == Res!Ledger(o)  r == L[o].resident \/ Res!Answer(o)
  <2>1. LedgerOk(base)
    BY <1>1, RecordedOk DEF ResInv
  <2>2. LedgerOk(L)
    BY <2>1, AdmittedOk DEF Res!Ledger
  <2>3. claims' = [L EXCEPT ![o].resident = r]
    BY <1>3
  <2> HIDE DEF L, r
  <2> QED BY <2>2, <2>3 DEF LedgerOk, ClaimOk, ClaimFields
<1> QED BY <1>2, <1>3 DEF Res!ores_report

LEMMA DeviceFreeInt == ResInv => Res!DeviceFree \in Int
<1>1. {o \in Owner : ctx[o]} \in SUBSET Owner
  OBVIOUS
<1> QED BY <1>1, MbNat, OwnersTyped DEF ResInv, Res!DeviceFree

LEMMA ResInvNext == ResInv /\ [Res!ResNext]_(Res!resVars) => ResInv'
<1> SUFFICES ASSUME ResInv, [Res!ResNext]_(Res!resVars) PROVE ResInv'
  OBVIOUS
<1>a. ASSUME NEW n \in Nat, NEW f \in Int, NEW s, NEW o \in Owner, s = [requests |-> n, free |-> f],
             seen' = [seen EXCEPT ![o] = s]
      PROVE  DOMAIN seen' = Owner /\ \A x \in Owner : seen'[x].requests \in Nat /\ seen'[x].free \in Int
  <2>1. s.requests \in Nat /\ s.free \in Int
    BY <1>a
  <2> QED BY <1>a, <2>1 DEF ResInv
<1>b. ASSUME NEW o \in Owner, seen' = [seen EXCEPT ![o] = Res!Nothing] \/ UNCHANGED seen
      PROVE  DOMAIN seen' = Owner /\ \A x \in Owner : seen'[x].requests \in Nat /\ seen'[x].free \in Int
  BY <1>a, <1>b DEF Res!Nothing, ResInv
<1>c. ASSUME NEW o \in Owner, NEW p, rpc' = [rpc EXCEPT ![o] = p] \/ UNCHANGED rpc PROVE DOMAIN rpc' = Owner
  BY <1>c DEF ResInv
<1>d. ASSUME NEW o \in Owner, reqs' = [reqs EXCEPT ![o] = 0] \/ reqs' = [reqs EXCEPT ![o] = @ + 1] \/ UNCHANGED reqs
      PROVE  DOMAIN reqs' = Owner /\ \A x \in Owner : reqs'[x] \in Nat
  BY <1>d DEF ResInv
<1>1. ASSUME NEW o \in Owner, Res!RmRead(o) PROVE ResInv'
  <2>1. PICK f \in {Res!DeviceFree, -1} : seen' = [seen EXCEPT ![o] = [requests |-> reqs[o], free |-> f]]
    BY <1>1 DEF Res!RmRead
  <2>2. f \in Int /\ reqs[o] \in Nat
    BY <2>1, DeviceFreeInt DEF ResInv
  <2>3. DOMAIN seen' = Owner /\ \A x \in Owner : seen'[x].requests \in Nat /\ seen'[x].free \in Int
    BY <1>a, <2>1, <2>2
  <2> QED BY <1>1, <1>c, <1>d, <2>3 DEF ResInv, Res!RmRead
<1>2. ASSUME NEW o \in Owner, Res!RmReport(o) \/ Res!RmConfirm(o) PROVE ResInv'
  <2>1. LedgerOk(claims')
    BY <1>2, ReportKeepsLedger DEF Res!RmReport, Res!RmConfirm
  <2> QED BY <1>2, <1>b, <1>c, <2>1 DEF ResInv, Res!RmReport, Res!RmConfirm, Res!Slept, Res!gateway
<1>3. ASSUME NEW o \in Owner, Res!RmAgain(o) PROVE ResInv'
  <2>1. DOMAIN seen' = Owner /\ \A x \in Owner : seen'[x].requests \in Nat /\ seen'[x].free \in Int
    BY <1>3, <1>a, DeviceFreeInt DEF Res!RmAgain
  <2> QED BY <1>3, <1>c, <2>1 DEF ResInv, Res!RmAgain, Res!gateway
<1>4. ASSUME NEW o \in Owner,
             \/ Res!RmUnreachable(o) \/ Res!RmApply(o) \/ Res!RmSwitch(o) \/ Res!Generate(o)
             \/ Res!Generated(o) \/ Res!Restart(o)
      PROVE  ResInv'
  <2>1. /\ UNCHANGED <<claims, other>>
        /\ seen' = [seen EXCEPT ![o] = Res!Nothing] \/ UNCHANGED seen
        /\ \E p : rpc' = [rpc EXCEPT ![o] = p] \/ UNCHANGED rpc
        /\ reqs' = [reqs EXCEPT ![o] = 0] \/ reqs' = [reqs EXCEPT ![o] = @ + 1] \/ UNCHANGED reqs
    BY <1>4 DEF Res!RmUnreachable, Res!RmApply, Res!RmSwitch, Res!Generate, Res!Generated,
                Res!Restart, Res!Slept, Res!gateway, Res!locals
  <2> QED BY <1>b, <1>c, <1>d, <2>1 DEF ResInv
<1>5. ASSUME Res!Tick PROVE ResInv'
  <2>1. other' \in Nat /\ UNCHANGED <<rpc, seen, reqs>>
    BY <1>5, OwnersTyped DEF Res!Tick, Res!gateway, Res!locals
  <2>2. ASSUME NEW o \in Owner PROVE ClaimOk(claims'[o])
    <3>0. DOMAIN claims[o] = ClaimFields /\ claims[o].demand \in Nat /\ claims[o].seen_age \in Nat
      BY DEF ResInv, LedgerOk, ClaimOk
    <3> DEFINE d == claims[o].demand \div 2  a == Res!Min({claim_ttl + 1, claims[o].seen_age + 1})
    <3>1. PICK q, h, c : claims'[o] = [claims[o] EXCEPT !.demand = d, !.req_age = q, !.seen_age = a,
                                                        !.held = h, !.cool = c]
      BY <1>5 DEF Res!Tick
    <3>2. d \in Nat
      BY <3>0
    <3>3. claim_ttl + 1 \in Nat /\ claims[o].seen_age + 1 \in Nat
      BY <3>0, OwnersTyped
    <3>4. a \in Nat
      BY <3>3, LeastOfTwo
    <3> HIDE DEF d, a
    <3> QED BY <3>0, <3>1, <3>2, <3>4 DEF ClaimOk, ClaimFields
  <2>3. DOMAIN claims' = Owner
    BY <1>5 DEF Res!Tick
  <2> QED BY <2>1, <2>2, <2>3 DEF ResInv, LedgerOk
<1>6. CASE UNCHANGED Res!resVars
  BY <1>6 DEF ResInv, Res!resVars, Res!gateway
<1> QED BY <1>1, <1>2, <1>3, <1>4, <1>5, <1>6 DEF Res!ResNext

\* A locked holder that loses the grant in a report was not eligible, or its share did
\* not fit beside locked holders
LEMMA HoldInReport ==
    ASSUME ResInv, NEW r \in Owner, Res!ores_report(r), rpc[r] \in {"report", "confirm"}, rpc'[r] # rpc[r]
    PROVE  Res!HoldKept
<1> DEFINE E == Res!Expired(claims)  free == seen[r].free  low == Res!Low(free)
           base == Res!Recorded(E, r, seen[r].requests, cur[r])
           W == Res!Winners(base, free, low)
           locked == {x \in Res!Active(base) : Res!Locked(base[x])}
<1>1. LedgerOk(claims) /\ LedgerOk(E) /\ \A o \in Owner : claims[o].seen_age <= claim_ttl => E[o] = claims[o]
  BY ExpiredOk DEF ResInv
<1>2. seen[r].requests \in Nat /\ free \in Int
  BY DEF ResInv
<1>3. /\ LedgerOk(base)
      /\ \A x \in Owner : x # r => base[x] = E[x]
      /\ E[r].active => /\ base[r].active = E[r].active /\ base[r].admitted = E[r].admitted
                        /\ base[r].held = E[r].held
  BY <1>1, <1>2, RecordedOk
<1>4. /\ LedgerOk(Res!Ledger(r))
      /\ \A o \in Owner : base[o].active /\ o \in W => Res!Ledger(r)[o].admitted
  BY <1>3, AdmittedOk DEF Res!Ledger
<1>5. /\ W \in SUBSET Res!Active(base)
      /\ \A o \in Res!Active(base) :
           o \in W <=> Res!Joins(base, free, low, {x \in W : Res!Before(base, x, o)}, o)
  BY <1>3, WinnersTaken
<1> SUFFICES ASSUME NEW o \in Owner, claims[o].active, claims[o].seen_age <= claim_ttl,
                    Res!Locked(claims[o]), claims'[o].active, ~claims'[o].admitted
             PROVE  \/ free < 0 \/ ~Res!eligible(base[o], o)
                    \/ Res!Mb(locked) + keep_free_mb + Res!stream_reserve(base, {o})
                         > Res!Capacity(base, free)
  BY DEF Res!HoldKept
<1>6. E[o] = claims[o]
  BY <1>1
<1>7. base[o].active /\ Res!Locked(base[o]) /\ base[o].admitted
  <2> HIDE DEF E, base
  <2>1. CASE o = r
    BY <1>3, <1>6, <2>1 DEF Res!Locked
  <2>2. CASE o # r
    BY <1>3, <1>6, <2>2 DEF Res!Locked
  <2> QED BY <2>1, <2>2
<1>8. claims' = [Res!Ledger(r) EXCEPT ![r].resident = @ \/ Res!Answer(r)]
  <2>1. claims' # E
    BY <1>6 DEF Res!Locked
  <2> QED BY <2>1 DEF Res!ores_report
<1>9. claims'[o].admitted = Res!Ledger(r)[o].admitted
  <2> DEFINE L == Res!Ledger(r)  a == L[r].resident \/ Res!Answer(r)
  <2>1. claims' = [L EXCEPT ![r].resident = a]
    BY <1>8
  <2>2. LedgerOk(L)
    BY <1>4
  <2> HIDE DEF L, a
  <2>3. claims'[o].admitted = L[o].admitted
    BY <2>1, <2>2 DEF LedgerOk, ClaimOk, ClaimFields
  <2> QED BY <2>3 DEF L
<1>10. o \notin W /\ o \in Res!Active(base)
  BY <1>4, <1>7, <1>9 DEF Res!Active
<1> DEFINE S == {x \in W : Res!Before(base, x, o)}
<1>11. ~Res!Joins(base, free, low, S, o)
  BY <1>5, <1>10
<1>12. S \cup {o} \subseteq locked /\ locked \in SUBSET Owner
  <2>1. ASSUME NEW x \in S PROVE x \in Res!Active(base) /\ x \in Owner /\ Res!Before(base, x, o)
    BY <1>5 DEF Res!Active
  <2> HIDE DEF base, W, S
  <2>2. ASSUME NEW x \in S PROVE Res!Locked(base[x])
    <3>1. Res!Score(base, o)[1] = 1
      BY <1>3, <1>7, ScoreTyped
    <3>2. Res!Score(base, x)[1] = IF Res!Locked(base[x]) THEN 1 ELSE 0
      BY <1>3, <2>1, ScoreTyped
    <3>3. Res!Score(base, x)[1] >= 1
      BY <2>1, <3>1, <3>2 DEF Res!Before
    <3> QED BY <3>2, <3>3
  <2> QED BY <1>7, <1>10, <2>1, <2>2 DEF Res!Active
<1> SUFFICES ASSUME free >= 0, Res!eligible(base[o], o)
             PROVE  Res!Mb(locked) + keep_free_mb + Res!stream_reserve(base, {o}) > Res!Capacity(base, free)
  BY <1>2
<1>13. ~(Res!Mb(S \cup {o}) + keep_free_mb + Res!stream_reserve(base, S \cup {o}) <= Res!Capacity(base, free))
  BY <1>7, <1>11 DEF Res!Joins
<1>14. Res!Mb(S \cup {o}) <= Res!Mb(locked) /\ Res!Mb(S \cup {o}) \in Nat /\ Res!Mb(locked) \in Nat
  BY <1>12, MbMonotone, MbNat
<1>15. Res!stream_reserve(base, S \cup {o}) <= Res!stream_reserve(base, {o})
  BY ReserveShrinks
<1>16. Res!stream_reserve(base, S \cup {o}) \in Nat /\ Res!stream_reserve(base, {o}) \in Nat
  BY ReserveGreatest
<1>17. Res!Capacity(base, free) \in Int
  <2>1. {x \in Res!Active(base) : base[x].resident} \in SUBSET Owner
    BY DEF Res!Active
  <2> QED BY <1>2, <2>1, MbNat DEF Res!Capacity
<1> HIDE DEF base, W, S, locked, free
<1> QED BY <1>13, <1>14, <1>15, <1>16, <1>17, OwnersTyped

LEMMA HoldStep == ResInv /\ [Res!ResNext]_(Res!resVars) => [Res!HoldKept]_(Res!resVars)
<1> SUFFICES ASSUME ResInv, [Res!ResNext]_(Res!resVars), ~(UNCHANGED Res!resVars) PROVE Res!HoldKept
  OBVIOUS
<1>1. ASSUME NEW r \in Owner, Res!RmReport(r) \/ Res!RmConfirm(r) PROVE Res!HoldKept
  <2>1. Res!ores_report(r) /\ rpc[r] \in {"report", "confirm"} /\ rpc'[r] # rpc[r]
    BY <1>1 DEF Res!RmReport, Res!RmConfirm, Res!Slept, ResInv
  <2> QED BY <2>1, HoldInReport
<1>2. ASSUME UNCHANGED claims PROVE Res!HoldKept
  BY <1>2 DEF Res!HoldKept, Res!Locked
<1>3. CASE Res!Tick
  <2>1. ASSUME NEW o \in Owner PROVE claims'[o].admitted = claims[o].admitted
    <3>0. DOMAIN claims[o] = ClaimFields
      BY DEF ResInv, LedgerOk, ClaimOk
    <3>1. PICK d, a, q, h, c : claims'[o] = [claims[o] EXCEPT !.demand = d, !.req_age = q, !.seen_age = a,
                                                              !.held = h, !.cool = c]
      BY <1>3 DEF Res!Tick
    <3> QED BY <3>0, <3>1 DEF ClaimFields
  <2> QED BY <2>1 DEF Res!HoldKept, Res!Locked
<1>4. ASSUME NEW o \in Owner,
             \/ Res!RmRead(o) \/ Res!RmUnreachable(o) \/ Res!RmApply(o) \/ Res!RmSwitch(o)
             \/ Res!RmAgain(o) \/ Res!Generate(o) \/ Res!Generated(o) \/ Res!Restart(o)
      PROVE  Res!HoldKept
  <2>1. UNCHANGED claims
    BY <1>4 DEF Res!RmRead, Res!RmUnreachable, Res!RmApply, Res!RmSwitch, Res!RmAgain,
                Res!Generate, Res!Generated, Res!Restart
  <2> QED BY <1>2, <2>1
<1> QED BY <1>1, <1>3, <1>4 DEF Res!ResNext

\* Whoever reports, a resident claim that has not lapsed keeps its grant for min_hold_s, but
\* for want of demand, of device information or of room beside the other locked holders
\* (admit_all of oresidency.c).
THEOREM HoldsAreRespected == Res!ResSpec => HoldRespected
BY ResInvInit, ResInvNext, HoldStep, PTL DEF Res!ResSpec, HoldRespected, Res!HoldRespected

-----------------------------------------------------------------------------
(* The image cache.  Whoever is past the lookup and before the store holds    *)
(* g_sd_lock, and every change of an entry is made under it: what a thread    *)
(* found is still there.  A switch of the context drops every latent, so the  *)
(* ones that remain belong to the context that renders.                       *)

ImgEntryFields == {"key", "resume", "latent", "image"}
ImgEntryOk(x) ==
    /\ DOMAIN x = ImgEntryFields /\ x.key \in ImgKey \cup {"none"} /\ x.resume \in BOOLEAN /\ x.latent \in Nat
    /\ x.resume <=> x.latent # 0
    /\ x.key = "none" => x.latent = 0
    /\ x.image \in Img!ImgReq \cup {Img!NoImage}
    /\ x.image # Img!NoImage => x.key = x.image.key /\ (x.latent # 0 <=> x.image.kind = "teleport")
EntriesOk(e) == DOMAIN e = Img!Slot /\ \A s \in Img!Slot : ImgEntryOk(e[s])
\* A slot in use has its place in the order of use
Recent(e, lru) ==
    /\ lru \in Seq(Img!Slot)
    /\ \A s \in Img!Slot : e[s].key # "none" => \E i \in DOMAIN lru : lru[i] = s
Lens(e) == [s \in Img!Slot |-> Img!Len0(e[s].image)]
CacheOk(c) ==
    /\ DOMAIN c = {"e", "lru", "bytes"}
    /\ EntriesOk(c.e) /\ Recent(c.e, c.lru)
    /\ c.bytes = Sum(Lens(c.e), Img!Slot) /\ c.bytes <= CacheMax

LEMMA ImgTyped ==
    /\ ImgLen \in [ImgKey -> Nat \ {0}] /\ CacheMax \in Nat /\ CacheSlots \in Nat
    /\ "none" \notin ImgKey /\ Img!Nobody \notin ImgThread /\ Img!Arbiter \notin ImgThread
BY ServicesAssumption DEF Img!ImgAssumption, Img!Nobody, Img!Arbiter

LEMMA SlotsFinite == IsFiniteSet(Img!Slot) /\ Img!Slot \subseteq Nat /\ 0 \notin Img!Slot
BY ImgTyped, FS_Interval DEF Img!Slot

LEMMA ImgSum == \A f, S : Img!Sum(f, S) = Sum(f, S)
<1>1. \A f, S : Img!Sum(f, S) = Adder(f, S)[S]
  BY DEF Img!Sum, Img!MapThenSumSet, Img!MapThenFoldSet, Adder, Adds, Pick
<1> QED BY <1>1, SumIsAdder

LEMMA HeldIsSum == \A c, S : Img!Held(c, S) = Sum(Lens(c.e), S)
BY ImgSum DEF Img!Held, Lens

LEMMA ImgSelect == \A q, I : Img!SelectAt(q, I) = SelectAt(q, I)
BY DEF Img!SelectAt, SelectAt, Img!RankIn, RankIn, Img!Cardinality, Cardinality

LEMMA LensNat ==
    ASSUME NEW e, EntriesOk(e)
    PROVE  /\ \A s \in Img!Slot : Lens(e)[s] \in Nat /\ Lens(e)[s] \in Int
           /\ \A S \in SUBSET Img!Slot : Sum(Lens(e), S) \in Nat /\ IsFiniteSet(S)
<1>1. ASSUME NEW s \in Img!Slot PROVE Lens(e)[s] \in Nat
  <2>1. e[s].image \in Img!ImgReq \cup {Img!NoImage}
    BY DEF EntriesOk, ImgEntryOk
  <2>2. CASE e[s].image = Img!NoImage
    BY <2>2 DEF Lens, Img!Len0
  <2>3. CASE e[s].image # Img!NoImage
    <3>1. e[s].image.key \in ImgKey
      BY <2>1, <2>3 DEF Img!ImgReq
    <3>2. ImgLen[e[s].image.key] \in Nat
      BY <3>1, ImgTyped
    <3> QED BY <2>3, <3>2 DEF Lens, Img!Len0
  <2> QED BY <2>2, <2>3
<1>2. ASSUME NEW S \in SUBSET Img!Slot PROVE Sum(Lens(e), S) \in Nat /\ IsFiniteSet(S)
  <2>1. IsFiniteSet(S) /\ \A s \in S : Lens(e)[s] \in Nat
    BY <1>1, SlotsFinite, FS_Subset
  <2> QED BY <2>1, SumNat
<1> QED BY <1>1, <1>2

LEMMA WithoutKeeps ==
    ASSUME NEW q \in Seq(Img!Slot), NEW S
    PROVE  /\ Img!Without(q, S) \in Seq(Img!Slot)
           /\ \A i \in DOMAIN q : q[i] \notin S => \E k \in DOMAIN Img!Without(q, S) : Img!Without(q, S)[k] = q[i]
<1> DEFINE I == {i \in DOMAIN q : q[i] \notin S}
<1>1. I \in SUBSET (1 .. Len(q)) /\ Img!Without(q, S) = SelectAt(q, I)
  BY ImgSelect DEF Img!Without
<1>2. Selection(Img!Slot, q, I, SelectAt(q, I))
  BY <1>1, SelectAtElements
<1> QED BY <1>1, <1>2 DEF Selection

LEMMA AppendKeeps ==
    ASSUME NEW S, NEW q \in Seq(S), NEW x \in S
    PROVE  /\ Append(q, x) \in Seq(S)
           /\ \E i \in DOMAIN Append(q, x) : Append(q, x)[i] = x
           /\ \A i \in DOMAIN q : \E k \in DOMAIN Append(q, x) : Append(q, x)[k] = q[i]
<1>1. Append(q, x) \in Seq(S) /\ Len(Append(q, x)) = Len(q) + 1 /\ Len(q) \in Nat
  OBVIOUS
<1>2. Append(q, x)[Len(q) + 1] = x /\ \A i \in 1 .. Len(q) : Append(q, x)[i] = q[i]
  OBVIOUS
<1>3. DOMAIN q = 1 .. Len(q) /\ DOMAIN Append(q, x) = 1 .. Len(q) + 1
  BY <1>1
<1>4. Len(q) + 1 \in DOMAIN Append(q, x) /\ \A i \in DOMAIN q : i \in DOMAIN Append(q, x)
  BY <1>1, <1>3
<1> QED BY <1>1, <1>2, <1>3, <1>4

\* A use changes the order of use alone
LEMMA TouchedOk ==
    ASSUME NEW c, CacheOk(c), NEW s \in Img!Slot
    PROVE  /\ CacheOk(Img!Touched(c, s)) /\ Img!Touched(c, s).e = c.e
           /\ \E i \in DOMAIN Img!Touched(c, s).lru : Img!Touched(c, s).lru[i] = s
<1> DEFINE q == Img!Without(c.lru, {s})  r == Append(q, s)  d == Img!Touched(c, s)
<1>0. DOMAIN c = {"e", "lru", "bytes"} /\ Recent(c.e, c.lru)
  BY DEF CacheOk
<1>1. q \in Seq(Img!Slot) /\ \A i \in DOMAIN c.lru : c.lru[i] \notin {s} => \E k \in DOMAIN q : q[k] = c.lru[i]
  <2>1. c.lru \in Seq(Img!Slot)
    BY <1>0 DEF Recent
  <2> QED BY <2>1, WithoutKeeps, Zenon
<1> HIDE DEF q
<1>2. /\ r \in Seq(Img!Slot) /\ \E i \in DOMAIN r : r[i] = s
      /\ \A i \in DOMAIN q : \E k \in DOMAIN r : r[k] = q[i]
  BY <1>1, AppendKeeps
<1>3. d = [c EXCEPT !.lru = r]
  BY DEF Img!Touched, q
<1> HIDE DEF r, d
<1>4. d.e = c.e /\ d.bytes = c.bytes /\ d.lru = r /\ DOMAIN d = {"e", "lru", "bytes"}
  BY <1>0, <1>3
<1>5. Recent(c.e, r)
  <2>1. ASSUME NEW v \in Img!Slot, c.e[v].key # "none" PROVE \E k \in DOMAIN r : r[k] = v
    <3>1. CASE v = s
      BY <1>2, <3>1
    <3>2. CASE v # s
      <4>1. PICK i \in DOMAIN c.lru : c.lru[i] = v
        BY <1>0, <2>1 DEF Recent
      <4>2. PICK k \in DOMAIN q : q[k] = v
        BY <1>1, <3>2, <4>1
      <4> QED BY <1>2, <4>2
    <3> QED BY <3>1, <3>2
  <2> QED BY <1>2, <2>1 DEF Recent
<1> QED BY <1>2, <1>4, <1>5 DEF CacheOk, d

\* Clearing slots takes their images off the count and loses nothing else
LEMMA ClearedOk ==
    ASSUME NEW c, CacheOk(c), NEW S \in SUBSET Img!Slot
    PROVE  LET d == Img!Cleared(c, S) IN
           /\ CacheOk(d) /\ d.bytes = c.bytes - Sum(Lens(c.e), S)
           /\ \A s \in Img!Slot : d.e[s] = IF s \in S THEN Img!Empty ELSE c.e[s]
<1> DEFINE d == Img!Cleared(c, S)  L == Lens(c.e)  R == Img!Slot \ S
<1>0. EntriesOk(c.e) /\ Recent(c.e, c.lru) /\ c.bytes = Sum(L, Img!Slot) /\ c.bytes <= CacheMax
  BY DEF CacheOk
<1>1. /\ DOMAIN d = {"e", "lru", "bytes"} /\ DOMAIN d.e = Img!Slot
      /\ \A s \in Img!Slot : d.e[s] = IF s \in S THEN Img!Empty ELSE c.e[s]
      /\ d.lru = Img!Without(c.lru, S) /\ d.bytes = c.bytes - Sum(L, S)
  BY HeldIsSum DEF Img!Cleared
<1> HIDE DEF d
<1>2. ImgEntryOk(Img!Empty) /\ Img!Empty.key = "none" /\ Img!Empty.image = Img!NoImage
  BY DEF ImgEntryOk, Img!Empty, ImgEntryFields
<1>3. EntriesOk(d.e)
  BY <1>0, <1>1, <1>2 DEF EntriesOk
<1>4. Recent(d.e, d.lru)
  <2>1. c.lru \in Seq(Img!Slot)
    BY <1>0 DEF Recent
  <2>2. /\ d.lru \in Seq(Img!Slot)
        /\ \A i \in DOMAIN c.lru : c.lru[i] \notin S => \E k \in DOMAIN d.lru : d.lru[k] = c.lru[i]
    BY <1>1, <2>1, WithoutKeeps
  <2>3. ASSUME NEW s \in Img!Slot, d.e[s].key # "none" PROVE \E k \in DOMAIN d.lru : d.lru[k] = s
    <3>1. s \notin S /\ c.e[s].key # "none"
      BY <1>1, <1>2, <2>3
    <3>2. PICK i \in DOMAIN c.lru : c.lru[i] = s
      BY <1>0, <3>1 DEF Recent
    <3> QED BY <2>2, <3>1, <3>2
  <2> QED BY <2>2, <2>3 DEF Recent
<1>5. /\ \A s \in S : Lens(d.e)[s] = 0
      /\ \A s \in R : Lens(d.e)[s] = L[s]
  BY <1>1, <1>2 DEF Lens, Img!Len0
<1>6. /\ \A s \in Img!Slot : L[s] \in Int /\ Lens(d.e)[s] \in Int
      /\ Sum(L, S) \in Nat /\ Sum(L, R) \in Nat /\ Sum(Lens(d.e), S) \in Nat /\ Sum(Lens(d.e), R) \in Nat
      /\ IsFiniteSet(S) /\ IsFiniteSet(R) /\ IsFiniteSet(Img!Slot)
  BY <1>0, <1>3, LensNat, SlotsFinite
<1> HIDE DEF L, R
<1>7. Sum(Lens(d.e), S) = 0
  BY <1>5, <1>6, SumZero
<1>8. Sum(Lens(d.e), R) = Sum(L, R)
  <2>1. \A s \in R : L[s] \in Int /\ L[s] = Lens(d.e)[s]
    BY <1>5, <1>6 DEF R
  <2> QED BY <1>6, <2>1, SumSame
<1>9. Sum(L, Img!Slot) = Sum(L, S) + Sum(L, R)
  BY <1>6, SumSplit DEF R
<1>10. Sum(Lens(d.e), Img!Slot) = Sum(Lens(d.e), S) + Sum(Lens(d.e), R)
  BY <1>6, SumSplit DEF R
<1>11. d.bytes = Sum(Lens(d.e), Img!Slot) /\ d.bytes <= CacheMax
  BY <1>0, <1>1, <1>6, <1>7, <1>8, <1>9, <1>10, ImgTyped
<1> QED BY <1>1, <1>3, <1>4, <1>11 DEF CacheOk, d, L

\* The image of one slot is another
LEMMA ImageSet ==
    ASSUME NEW e, EntriesOk(e), NEW s \in Img!Slot, NEW m, NEW d, d = [e EXCEPT ![s].image = m], EntriesOk(d)
    PROVE  /\ Sum(Lens(d), Img!Slot) = Sum(Lens(e), Img!Slot) - Img!Len0(e[s].image) + Img!Len0(m)
           /\ \A v \in Img!Slot : v # s => d[v] = e[v]
           /\ d[s].key = e[s].key /\ d[s].latent = e[s].latent /\ d[s].image = m
<1>1. /\ \A v \in Img!Slot : v # s => d[v] = e[v]
      /\ d[s].key = e[s].key /\ d[s].latent = e[s].latent /\ d[s].image = m
  BY DEF EntriesOk, ImgEntryOk, ImgEntryFields
<1>2. \A v \in Img!Slot : Lens(e)[v] \in Int /\ Lens(d)[v] \in Int
  BY LensNat
<1>3. \A v \in Img!Slot : v # s => Lens(d)[v] = Lens(e)[v]
  BY <1>1 DEF Lens
<1>4. Sum(Lens(d), Img!Slot) = Sum(Lens(e), Img!Slot) - Lens(e)[s] + Lens(d)[s]
  <2> DEFINE F == Lens(e)  G == Lens(d)
  <2>1. /\ \A v \in Img!Slot : F[v] \in Int /\ G[v] \in Int
        /\ \A v \in Img!Slot : v # s => G[v] = F[v]
    BY <1>2, <1>3
  <2> HIDE DEF F, G
  <2>2. Sum(G, Img!Slot) = Sum(F, Img!Slot) - F[s] + G[s]
    BY <2>1, SlotsFinite, SumUpdate
  <2> QED BY <2>2 DEF F, G
<1>5. Lens(e)[s] = Img!Len0(e[s].image) /\ Lens(d)[s] = Img!Len0(m)
  BY <1>1 DEF Lens
<1> QED BY <1>1, <1>4, <1>5

\* cache_find, with the slot it found
Found(c, s, r, b) == s # 0 => s \in Img!Slot /\ c.e[s].key = r.key /\ c.e[s].resume = b
LEMMA LookupFinds ==
    ASSUME NEW c, NEW r, NEW b
    PROVE  Found(c, Img!Lookup(c, r, b), r, b) /\ (Img!Lookup(c, r, b) # 0 => Img!Lookup(c, r, b) \in Img!Slot)
<1> DEFINE F == {s \in Img!Slot : Img!cache_key_equal(c, s, r, b)}
<1>1. CASE F = {}
  <2>1. Img!Lookup(c, r, b) = 0
    BY <1>1 DEF Img!Lookup
  <2> QED BY <2>1 DEF Found
<1>2. CASE F # {}
  <2>1. Img!Lookup(c, r, b) = Min(F)
    BY <1>2 DEF Img!Lookup, Img!Min, Min
  <2>2. IsFiniteSet(F) /\ \A x \in F : x \in Int
    BY SlotsFinite, FS_Subset
  <2>3. Min(F) \in F
    BY <1>2, <2>2, LeastElement
  <2> QED BY <2>1, <2>3 DEF Found, Img!cache_key_equal
<1> QED BY <1>1, <1>2

LEMMA FindOk ==
    ASSUME NEW c, CacheOk(c), NEW r, NEW b
    PROVE  CacheOk(Img!cache_find(c, r, b)) /\ Img!cache_find(c, r, b).e = c.e
<1> DEFINE s == Img!Lookup(c, r, b)
<1>1. s # 0 => s \in Img!Slot
  BY LookupFinds
<1>2. CASE s = 0
  BY <1>2 DEF Img!cache_find
<1>3. CASE s # 0
  BY <1>1, <1>3, TouchedOk DEF Img!cache_find
<1> QED BY <1>2, <1>3

\* The slot an insert takes, and what it leaves there
InsertedAt(c, d, s, r, b, latent) ==
    /\ s \in Img!Slot /\ CacheOk(d)
    /\ d.e[s].key = r.key /\ d.e[s].resume = b /\ d.e[s].latent = latent
    /\ \A v \in Img!Slot : v # s => d.e[v] = c.e[v]

LEMMA PlaceIsSlot ==
    ASSUME NEW c, CacheOk(c), CacheSlots > 0, NEW r, NEW b
    PROVE  Img!Place(c, r, b) \in Img!Slot
<1>1. CASE Img!Lookup(c, r, b) # 0
  BY <1>1, LookupFinds DEF Img!Place
<1>2. CASE Img!Lookup(c, r, b) = 0 /\ Img!Used(c) # Img!Slot
  <2> DEFINE F == Img!Slot \ Img!Used(c)
  <2>1. F # {} /\ IsFiniteSet(F) /\ \A x \in F : x \in Int
    BY <1>2, SlotsFinite, FS_Subset DEF Img!Used
  <2>2. Min(F) \in F
    BY <2>1, LeastElement
  <2>3. Img!Place(c, r, b) = Min(F)
    BY <1>2 DEF Img!Place, Img!Min, Min
  <2> QED BY <2>2, <2>3
<1>3. CASE Img!Lookup(c, r, b) = 0 /\ Img!Used(c) = Img!Slot
  <2>1. 1 \in Img!Slot
    BY ImgTyped DEF Img!Slot
  <2>2. c.e[1].key # "none"
    BY <1>3, <2>1 DEF Img!Used
  <2>3. c.lru \in Seq(Img!Slot) /\ \E i \in DOMAIN c.lru : c.lru[i] = 1
    BY <2>1, <2>2 DEF CacheOk, Recent
  <2>4. c.lru # <<>>
    BY <2>3
  <2>5. Head(c.lru) \in Img!Slot
    BY <2>3, <2>4
  <2> QED BY <1>3, <2>5 DEF Img!Place
<1> QED BY <1>1, <1>2, <1>3

\* A cleared slot takes a new entry
EntryPut(c, s, x) == [Img!Touched(Img!cache_entry_clear(c, s), s) EXCEPT !.e[s] = x]
LEMMA EntryPutOk ==
    ASSUME NEW c, CacheOk(c), NEW s \in Img!Slot, NEW x, ImgEntryOk(x), x.image = Img!NoImage
    PROVE  /\ CacheOk(EntryPut(c, s, x)) /\ EntryPut(c, s, x).e[s] = x
           /\ \A v \in Img!Slot : v # s => EntryPut(c, s, x).e[v] = c.e[v]
<1> DEFINE d == EntryPut(c, s, x)
           a == Img!cache_entry_clear(c, s)  b == Img!Touched(a, s)
<1>1. /\ CacheOk(a)
      /\ \A v \in Img!Slot : a.e[v] = IF v \in {s} THEN Img!Empty ELSE c.e[v]
  <2>1. {s} \in SUBSET Img!Slot
    OBVIOUS
  <2>2. a = Img!Cleared(c, {s})
    BY DEF Img!cache_entry_clear
  <2> QED BY <2>1, <2>2, ClearedOk
<1> HIDE DEF a
<1>2. /\ CacheOk(b) /\ b.e = a.e
      /\ \E i \in DOMAIN b.lru : b.lru[i] = s
  BY <1>1, TouchedOk
<1>3. d = [b EXCEPT !.e[s] = x]
  BY DEF a, EntryPut
<1> HIDE DEF b, d
<1>4. DOMAIN b = {"e", "lru", "bytes"} /\ EntriesOk(b.e) /\ Recent(b.e, b.lru) /\ b.bytes = Sum(Lens(b.e), Img!Slot) /\ b.bytes <= CacheMax
  BY <1>2 DEF CacheOk
<1>5. DOMAIN d = {"e", "lru", "bytes"} /\ d.lru = b.lru /\ d.bytes = b.bytes /\ d.e = [b.e EXCEPT ![s] = x]
  BY <1>3, <1>4
<1>6. DOMAIN d.e = Img!Slot /\ d.e[s] = x /\ \A v \in Img!Slot : v # s => d.e[v] = b.e[v]
  BY <1>4, <1>5 DEF EntriesOk
<1>7. b.e[s].image = Img!NoImage
  BY <1>1, <1>2 DEF Img!Empty
<1>8. Lens(d.e) = Lens(b.e)
  <2>1. \A v \in Img!Slot : d.e[v].image = b.e[v].image
    BY <1>6, <1>7
  <2> QED BY <2>1 DEF Lens
<1>9. EntriesOk(d.e)
  BY <1>4, <1>6 DEF EntriesOk
<1>10. Recent(d.e, d.lru)
  <2>1. b.lru \in Seq(Img!Slot) /\ \A v \in Img!Slot : b.e[v].key # "none" => \E i \in DOMAIN b.lru : b.lru[i] = v
    BY <1>4 DEF Recent
  <2>2. ASSUME NEW v \in Img!Slot, d.e[v].key # "none" PROVE \E i \in DOMAIN b.lru : b.lru[i] = v
    BY <1>2, <1>6, <2>1, <2>2
  <2> QED BY <1>5, <2>1, <2>2 DEF Recent
<1>11. CacheOk(d)
  BY <1>4, <1>5, <1>8, <1>9, <1>10 DEF CacheOk
<1>12. \A v \in Img!Slot : v # s => d.e[v] = c.e[v]
  BY <1>1, <1>2, <1>6
<1> QED BY <1>6, <1>11, <1>12 DEF d

\* The latent of a render, where there was none: resumed from later
LEMMA InsertLatent ==
    ASSUME NEW c, CacheOk(c), CacheSlots > 0, NEW r \in Img!ImgReq, NEW n \in Nat \ {0}
    PROVE  InsertedAt(c, Img!cache_insert(c, r, TRUE, n), Img!Place(c, r, TRUE), r, TRUE, n)
<1> DEFINE s == Img!Place(c, r, TRUE)  d == Img!cache_insert(c, r, TRUE, n)
           x == [key |-> r.key, resume |-> TRUE, latent |-> n, image |-> Img!NoImage]
<1>1. s \in Img!Slot
  BY PlaceIsSlot
<1>2. ImgEntryOk(x) /\ x.image = Img!NoImage /\ x.key = r.key /\ x.resume = TRUE /\ x.latent = n
  <2>1. r.key \in ImgKey /\ r.key # "none"
    BY ImgTyped DEF Img!ImgReq
  <2> QED BY <2>1 DEF ImgEntryOk, ImgEntryFields
<1>3. d = EntryPut(c, s, x)
  BY DEF Img!cache_insert, EntryPut
<1> HIDE DEF s, d, x
<1>4. CacheOk(d) /\ d.e[s] = x /\ \A v \in Img!Slot : v # s => d.e[v] = c.e[v]
  BY <1>1, <1>2, <1>3, EntryPutOk
<1> QED BY <1>1, <1>2, <1>4 DEF InsertedAt, s, d

\* The entry of an image alone
LEMMA InsertPlain ==
    ASSUME NEW c, CacheOk(c), CacheSlots > 0, NEW r \in Img!ImgReq
    PROVE  InsertedAt(c, Img!cache_insert(c, r, FALSE, 0), Img!Place(c, r, FALSE), r, FALSE, 0)
<1> DEFINE s == Img!Place(c, r, FALSE)  d == Img!cache_insert(c, r, FALSE, 0)  k == Img!Lookup(c, r, FALSE)
           x == [key |-> r.key, resume |-> FALSE, latent |-> 0, image |-> Img!NoImage]
<1>1. s \in Img!Slot
  BY PlaceIsSlot
<1>2. CASE k # 0
  <2>1. s = k /\ d = Img!Touched(c, s)
    BY <1>2 DEF Img!Place, Img!cache_insert
  <2>2. c.e[k].key = r.key /\ c.e[k].resume = FALSE
    <3>1. Found(c, k, r, FALSE)
      BY LookupFinds, Zenon
    <3> QED BY <1>2, <3>1 DEF Found
  <2> HIDE DEF s, d, k
  <2>3. CacheOk(d) /\ d.e = c.e
    BY <1>1, <2>1, TouchedOk
  <2>4. c.e[s].latent = 0
    BY <1>1, <2>1, <2>2 DEF CacheOk, EntriesOk, ImgEntryOk
  <2>5. InsertedAt(c, d, s, r, FALSE, 0)
    BY <1>1, <2>1, <2>2, <2>3, <2>4 DEF InsertedAt
  <2> QED BY <2>5 DEF s, d
<1>3. CASE k = 0
  <2>2. ImgEntryOk(x) /\ x.image = Img!NoImage /\ x.key = r.key /\ x.resume = FALSE /\ x.latent = 0
    <3>1. r.key \in ImgKey /\ r.key # "none"
      BY ImgTyped DEF Img!ImgReq
    <3> QED BY <3>1 DEF ImgEntryOk, ImgEntryFields
  <2>3. d = EntryPut(c, s, x)
    BY <1>3 DEF Img!cache_insert, EntryPut
  <2> HIDE DEF s, d, x, k
  <2>4. CacheOk(d) /\ d.e[s] = x /\ \A v \in Img!Slot : v # s => d.e[v] = c.e[v]
    BY <1>1, <2>2, <2>3, EntryPutOk
  <2>5. InsertedAt(c, d, s, r, FALSE, 0)
    BY <1>1, <2>2, <2>4 DEF InsertedAt
  <2> QED BY <2>5 DEF s, d
<1> QED BY <1>2, <1>3

\* What is older than the oldest image that stays is gone: the new one fits
LEMMA VictimsMakeRoom ==
    ASSUME NEW c, CacheOk(c), NEW s \in Img!Slot, c.e[s].image = Img!NoImage, NEW n \in Nat, n <= CacheMax
    PROVE  /\ Img!Victims(c, s, n) \in SUBSET Img!Slot /\ s \notin Img!Victims(c, s, n)
           /\ c.bytes - Sum(Lens(c.e), Img!Victims(c, s, n)) + n <= CacheMax
<1> DEFINE V == Img!Victims(c, s, n)  O == Img!Imaged(c) \ {s}  L == Lens(c.e)
           Older(v) == {u \in O : Img!Age(c, u) < Img!Age(c, v)}
<1>0. EntriesOk(c.e) /\ Recent(c.e, c.lru) /\ c.bytes = Sum(L, Img!Slot)
  BY DEF CacheOk
<1>1. V = {v \in O : c.bytes - Sum(L, Older(v)) + n > CacheMax}
  BY HeldIsSum DEF Img!Victims
<1>2. O \in SUBSET Img!Slot /\ s \notin O /\ \A v \in Img!Slot : v \notin O => c.e[v].image = Img!NoImage
  BY DEF Img!Imaged
<1>3. \A v \in O : Img!Age(c, v) \in DOMAIN c.lru
  <2>1. ASSUME NEW v \in O PROVE \E i \in DOMAIN c.lru : c.lru[i] = v
    <3>1. v \in Img!Slot /\ c.e[v].image # Img!NoImage
      BY DEF Img!Imaged
    <3>2. ImgEntryOk(c.e[v])
      BY <1>0, <3>1 DEF EntriesOk
    <3>3. c.e[v].image \in Img!ImgReq /\ c.e[v].key = c.e[v].image.key
      BY <3>1, <3>2 DEF ImgEntryOk
    <3>4. c.e[v].key \in ImgKey /\ c.e[v].key # "none"
      BY <3>3, ImgTyped DEF Img!ImgReq
    <3> QED BY <1>0, <3>1, <3>4 DEF Recent
  <2> QED BY <2>1 DEF Img!Age
<1>4. DOMAIN c.lru = 1 .. Len(c.lru) /\ Len(c.lru) \in Nat
  BY <1>0 DEF Recent
<1>5. \A v \in Img!Slot : v \notin O => L[v] = 0
  BY <1>2 DEF Lens, Img!Len0
<1>6. /\ \A v \in Img!Slot : L[v] \in Nat /\ L[v] \in Int
      /\ \A S \in SUBSET Img!Slot : Sum(L, S) \in Nat /\ IsFiniteSet(S)
  BY <1>0, LensNat
<1> HIDE DEF L, O, V
<1>7. \A v \in O : Older(v) \in SUBSET Img!Slot
  BY <1>2
<1>8. V \in SUBSET Img!Slot /\ V \subseteq O /\ s \notin V
  BY <1>1, <1>2
<1>9. CASE V = O
  <2>1. IsFiniteSet(Img!Slot) /\ IsFiniteSet(Img!Slot \ V)
    BY <1>6
  <2>2. Sum(L, Img!Slot) = Sum(L, V) + Sum(L, Img!Slot \ V)
    BY <1>6, <1>8, <2>1, SumSplit
  <2>3. Sum(L, Img!Slot \ V) = 0
    <3>1. \A v \in Img!Slot \ V : L[v] = 0
      BY <1>5, <1>9
    <3> QED BY <2>1, <3>1, SumZero
  <2>4. Sum(L, V) \in Nat
    BY <1>6, <1>8
  <2>5. c.bytes - Sum(L, V) + n <= CacheMax
    BY <1>0, <2>2, <2>3, <2>4, ImgTyped
  <2> QED BY <1>8, <2>5 DEF V, L
<1>10. CASE V # O
  <2> DEFINE B == {i \in 1 .. Len(c.lru) : \E v \in O \ V : Img!Age(c, v) = i}
  <2>1. B # {} /\ IsFiniteSet(B) /\ \A x \in B : x \in Int
    <3>1. \E v \in O : v \notin V
      BY <1>8, <1>10
    <3>2. IsFiniteSet(1 .. Len(c.lru))
      BY <1>4, FS_Interval
    <3> QED BY <1>3, <1>4, <3>1, <3>2, FS_Subset
  <2>2. Min(B) \in B /\ \A y \in B : Min(B) <= y
    BY <2>1, LeastElement
  <2>3. PICK v \in O \ V : Img!Age(c, v) = Min(B)
    BY <2>2
  <2>4. ASSUME NEW u \in Older(v) PROVE u \in V
    <3>1. u \in O /\ Img!Age(c, u) < Min(B)
      BY <2>3
    <3>2. Img!Age(c, u) \in 1 .. Len(c.lru)
      BY <1>3, <1>4, <3>1
    <3>3. u \notin V => Img!Age(c, u) \in B
      BY <3>1, <3>2
    <3>4. Img!Age(c, u) \in B => FALSE
      BY <2>1, <2>2, <3>1, <3>2
    <3> QED BY <3>3, <3>4
  <2>5. ~(c.bytes - Sum(L, Older(v)) + n > CacheMax)
    BY <1>1, <2>3
  <2>6. Older(v) \in SUBSET V /\ IsFiniteSet(V) /\ \A x \in V : L[x] \in Nat
    BY <1>6, <1>8, <2>4
  <2>7. Sum(L, Older(v)) \in Nat /\ Sum(L, V) \in Nat /\ Sum(L, Img!Slot) \in Nat
    BY <1>6, <1>7, <1>8, <2>3
  <2> HIDE DEF Older
  <2>8. Sum(L, Older(v)) <= Sum(L, V)
    BY <2>6, SumSubset
  <2>9. c.bytes - Sum(L, V) + n <= CacheMax
    BY <1>0, <2>5, <2>7, <2>8, ImgTyped
  <2> QED BY <1>8, <2>9 DEF V, L
<1> QED BY <1>9, <1>10

\* The image stored last fits, under the key of its slot; other slots are as they
\* were, or empty
LEMMA StoreOk ==
    ASSUME NEW c, CacheOk(c), NEW s \in Img!Slot, NEW r \in Img!ImgReq, c.e[s].key = r.key,
           c.e[s].latent # 0 <=> r.kind = "teleport"
    PROVE  LET d == Img!cache_store_encoded_result(c, s, r) IN
           /\ CacheOk(d)
           /\ \A v \in Img!Slot : d.e[v].latent \in {0, c.e[v].latent}
<1> DEFINE n == ImgLen[r.key]
           e0 == [c.e EXCEPT ![s].image = Img!NoImage]
           bare == [c EXCEPT !.e[s].image = Img!NoImage, !.bytes = @ - Img!Len0(c.e[s].image)]
           V == Img!Victims(bare, s, n)
           a == Img!Cleared(bare, V)
           e1 == [a.e EXCEPT ![s].image = r]
           d == Img!cache_store_encoded_result(c, s, r)
<1>0. /\ DOMAIN c = {"e", "lru", "bytes"}
      /\ EntriesOk(c.e) /\ Recent(c.e, c.lru) /\ c.bytes = Sum(Lens(c.e), Img!Slot) /\ c.bytes <= CacheMax
  BY DEF CacheOk
<1>1. n \in Nat /\ r.key \in ImgKey /\ r # Img!NoImage
  <2>1. r.key \in ImgKey
    BY DEF Img!ImgReq
  <2>2. ImgLen[r.key] \in Nat
    BY <2>1, ImgTyped
  <2>3. Img!NoImage.key = "none"
    BY DEF Img!NoImage
  <2> QED BY <2>1, <2>2, <2>3, ImgTyped
<1>2. CASE n > CacheMax
  <2>1. d = c
    BY <1>2 DEF Img!cache_store_encoded_result
  <2>2. CacheOk(d) /\ \A v \in Img!Slot : d.e[v].latent \in {0, c.e[v].latent}
    BY <2>1
  <2> QED BY <2>2
<1>3. CASE ~(n > CacheMax)
  <2>1. bare.e = e0 /\ bare.lru = c.lru /\ bare.bytes = c.bytes - Img!Len0(c.e[s].image) /\ DOMAIN bare = {"e", "lru", "bytes"}
    BY <1>0
  <2>2. /\ DOMAIN e0 = Img!Slot /\ \A v \in Img!Slot : v # s => e0[v] = c.e[v]
        /\ DOMAIN e0[s] = ImgEntryFields /\ e0[s].key = c.e[s].key /\ e0[s].resume = c.e[s].resume
        /\ e0[s].latent = c.e[s].latent /\ e0[s].image = Img!NoImage
    BY <1>0 DEF EntriesOk, ImgEntryOk, ImgEntryFields
  <2>3. d = [a EXCEPT !.e[s].image = r, !.bytes = @ + n]
    BY <1>3 DEF Img!cache_store_encoded_result
  <2>d. e0 = [c.e EXCEPT ![s].image = Img!NoImage]
    OBVIOUS
  <2> HIDE DEF e0, bare
  <2>4. EntriesOk(e0)
    <3>1. ImgEntryOk(c.e[s])
      BY <1>0 DEF EntriesOk
    <3>2. ImgEntryOk(e0[s])
      BY <2>2, <3>1 DEF ImgEntryOk
    <3> QED BY <1>0, <2>2, <3>2 DEF EntriesOk
  <2>5. Sum(Lens(e0), Img!Slot) = Sum(Lens(c.e), Img!Slot) - Img!Len0(c.e[s].image) + Img!Len0(Img!NoImage)
    BY <1>0, <2>4, <2>d, ImageSet
  <2>6. /\ bare.bytes = Sum(Lens(e0), Img!Slot) /\ bare.bytes <= CacheMax
        /\ bare.bytes \in Nat
    <3>1. Img!Len0(Img!NoImage) = 0
      BY DEF Img!Len0
    <3>2. Lens(c.e)[s] = Img!Len0(c.e[s].image) /\ Lens(c.e)[s] \in Nat
      BY <1>0, LensNat DEF Lens
    <3>3. Sum(Lens(c.e), Img!Slot) \in Nat /\ Sum(Lens(e0), Img!Slot) \in Nat
      BY <1>0, <2>4, LensNat
    <3> QED BY <1>0, <2>1, <2>5, <3>1, <3>2, <3>3, ImgTyped
  <2>7. Recent(e0, c.lru)
    <3>1. \A v \in Img!Slot : e0[v].key = c.e[v].key
      BY <2>2
    <3> QED BY <1>0, <3>1 DEF Recent
  <2>8. CacheOk(bare)
    BY <2>1, <2>4, <2>6, <2>7 DEF CacheOk
  <2>9. V \in SUBSET Img!Slot /\ s \notin V /\ bare.bytes - Sum(Lens(bare.e), V) + n <= CacheMax
    <3>1. bare.e[s].image = Img!NoImage /\ n <= CacheMax
      BY <1>1, <1>3, <2>1, <2>2, ImgTyped
    <3> QED BY <1>1, <2>8, <3>1, VictimsMakeRoom
  <2> HIDE DEF V
  <2>10. /\ CacheOk(a) /\ a.bytes = bare.bytes - Sum(Lens(bare.e), V)
         /\ \A v \in Img!Slot : a.e[v] = IF v \in V THEN Img!Empty ELSE bare.e[v]
    BY <2>8, <2>9, ClearedOk
  <2> HIDE DEF a
  <2>11. DOMAIN a = {"e", "lru", "bytes"} /\ EntriesOk(a.e) /\ Recent(a.e, a.lru) /\ a.bytes = Sum(Lens(a.e), Img!Slot)
    BY <2>10 DEF CacheOk
  <2>12. DOMAIN d = {"e", "lru", "bytes"} /\ d.e = e1 /\ d.lru = a.lru /\ d.bytes = a.bytes + n
    BY <2>3, <2>11
  <2>13. a.e[s] = e0[s]
    BY <2>1, <2>9, <2>10
  <2>14. /\ DOMAIN e1 = Img!Slot /\ \A v \in Img!Slot : v # s => e1[v] = a.e[v]
         /\ DOMAIN e1[s] = ImgEntryFields /\ e1[s].key = e0[s].key /\ e1[s].resume = e0[s].resume
         /\ e1[s].latent = e0[s].latent /\ e1[s].image = r
    BY <2>2, <2>11, <2>13 DEF EntriesOk, ImgEntryFields
  <2>e. e1 = [a.e EXCEPT ![s].image = r]
    OBVIOUS
  <2> HIDE DEF e1, d
  <2>15. EntriesOk(e1)
    <3>1. ImgEntryOk(a.e[s])
      BY <2>11 DEF EntriesOk
    <3>2. ImgEntryOk(e1[s])
      BY <2>2, <2>13, <2>14, <3>1 DEF ImgEntryOk
    <3> QED BY <2>11, <2>14, <3>2 DEF EntriesOk
  <2>16. Sum(Lens(e1), Img!Slot) = Sum(Lens(a.e), Img!Slot) - Img!Len0(a.e[s].image) + Img!Len0(r)
    BY <2>11, <2>15, <2>e, ImageSet
  <2>17. Img!Len0(a.e[s].image) = 0 /\ Img!Len0(r) = n
    BY <1>1, <2>2, <2>13 DEF Img!Len0
  <2>18. Sum(Lens(a.e), Img!Slot) \in Nat /\ Sum(Lens(bare.e), V) \in Nat
    BY <2>1, <2>4, <2>9, <2>11, LensNat
  <2> HIDE DEF n
  <2>19. d.bytes = Sum(Lens(e1), Img!Slot) /\ d.bytes <= CacheMax
    BY <1>1, <2>6, <2>9, <2>10, <2>11, <2>12, <2>16, <2>17, <2>18, ImgTyped
  <2>20. Recent(e1, a.lru)
    <3>1. \A v \in Img!Slot : e1[v].key = a.e[v].key
      BY <2>13, <2>14
    <3> QED BY <2>11, <3>1 DEF Recent
  <2>21. CacheOk(d)
    BY <2>12, <2>15, <2>19, <2>20 DEF CacheOk
  <2>22. \A v \in Img!Slot : d.e[v].latent \in {0, c.e[v].latent}
    <3>1. Img!Empty.latent = 0
      BY DEF Img!Empty
    <3>2. \A v \in Img!Slot : e0[v].latent = c.e[v].latent
      BY <2>2
    <3>3. \A v \in Img!Slot : a.e[v].latent \in {0, e0[v].latent}
      BY <2>1, <2>10, <3>1
    <3> QED BY <2>12, <2>13, <2>14, <3>2, <3>3
  <2> QED BY <2>21, <2>22 DEF d
<1> QED BY <1>2, <1>3

LEMMA EmptyCacheOk ==
    LET c == [e |-> [s \in Img!Slot |-> Img!Empty], lru |-> <<>>, bytes |-> 0]
    IN CacheOk(c) /\ \A s \in Img!Slot : c.e[s].latent = 0
<1> DEFINE e == [s \in Img!Slot |-> Img!Empty]  c == [e |-> e, lru |-> <<>>, bytes |-> 0]
<1>1. ImgEntryOk(Img!Empty) /\ Img!Empty.key = "none" /\ Img!Empty.image = Img!NoImage /\ Img!Empty.latent = 0
  BY DEF ImgEntryOk, Img!Empty, ImgEntryFields
<1>2. EntriesOk(e)
  BY <1>1 DEF EntriesOk
<1>3. Recent(e, <<>>)
  BY <1>1 DEF Recent
<1>4. Sum(Lens(e), Img!Slot) = 0
  <2>1. \A s \in Img!Slot : Lens(e)[s] = 0
    BY <1>1 DEF Lens, Img!Len0
  <2> QED BY <2>1, SlotsFinite, SumZero
<1>5. c.e = e /\ c.lru = <<>> /\ c.bytes = 0 /\ DOMAIN c = {"e", "lru", "bytes"}
  OBVIOUS
<1>6. \A s \in Img!Slot : c.e[s].latent = 0
  BY <1>1
<1>7. CacheOk(c)
  <2> HIDE DEF e, c
  <2> QED BY <1>2, <1>3, <1>4, <1>5, ImgTyped DEF CacheOk
<1> QED BY <1>6, <1>7

\* What a thread at place p knows of its request r, slot i and image m, with the
\* entries e and g_sd_lock held by lk
ThreadOk(t, p, r, i, m, e, lk) ==
    /\ p # "idle" => r \in Img!ImgReq
    /\ p \in {"lookup", "render", "store", "switch"} => lk = t
    /\ p = "render" => i \in Img!Slot \cup {0} /\ (i # 0 => e[i].key = r.key /\ e[i].latent # 0)
    /\ p \in {"insert", "refind", "store"} => m = r
    /\ p = "insert" => r.kind = "cached"
    /\ p = "refind" => r.kind = "teleport"
    /\ p = "store" => i \in Img!Slot /\ e[i].key = r.key /\ (e[i].latent # 0 <=> r.kind = "teleport")
    /\ p = "reply" => m.key = r.key /\ (m.kind = "teleport" <=> r.kind = "teleport")
ThreadAt(t) == ThreadOk(t, ipc[t], ireq[t], islot[t], image[t], cache.e, sd_lock)
ThreadVars == DOMAIN ipc = ImgThread /\ DOMAIN ireq = ImgThread /\ DOMAIN islot = ImgThread /\ DOMAIN image = ImgThread
\* Outside a demotion's gap there is a context, and every latent is of it
ContextOk == switching # "rebuild" => context # 0 /\ \A s \in Img!Slot : cache.e[s].latent \in {0, context}
\* A switch is made by a holder of the lock that does nothing else
SwitchHeld ==
    switching # "no" => sd_lock = Img!Arbiter \/ (sd_lock \in ImgThread /\ ipc[sd_lock] = "switch")

ImgInv ==
    /\ CacheOk(cache) /\ context \in Nat /\ wishes \in Nat
    /\ ContextOk /\ SwitchHeld /\ ThreadVars
    /\ \A t \in ImgThread : ThreadAt(t)

\* The step is of no other thread than t
OnlyThread(t) ==
    /\ ThreadVars'
    /\ \A u \in ImgThread : u # t =>
         ipc'[u] = ipc[u] /\ ireq'[u] = ireq[u] /\ islot'[u] = islot[u] /\ image'[u] = image[u]

\* Without the lock a thread knows nothing of the entries
LEMMA ThreadUnlocked ==
    ASSUME NEW t, NEW p, NEW r, NEW i, NEW m, NEW e, NEW lk, ThreadOk(t, p, r, i, m, e, lk), lk # t,
           NEW e2, NEW lk2
    PROVE  ThreadOk(t, p, r, i, m, e2, lk2)
BY DEF ThreadOk

LEMMA OthersKept ==
    ASSUME NEW t, OnlyThread(t), \A u \in ImgThread : ThreadAt(u), t \in ImgThread => ThreadAt(t)',
           \/ sd_lock' = sd_lock /\ cache'.e = cache.e
           \/ sd_lock \in {t, Img!Nobody}
    PROVE  \A u \in ImgThread : ThreadAt(u)'
<1> SUFFICES ASSUME NEW u \in ImgThread, u # t PROVE ThreadAt(u)'
  OBVIOUS
<1>1. ipc'[u] = ipc[u] /\ ireq'[u] = ireq[u] /\ islot'[u] = islot[u] /\ image'[u] = image[u]
  BY DEF OnlyThread
<1>2. ThreadOk(u, ipc[u], ireq[u], islot[u], image[u], cache.e, sd_lock)
  BY DEF ThreadAt
<1>3. ThreadOk(u, ipc[u], ireq[u], islot[u], image[u], cache'.e, sd_lock')
  <2>1. CASE sd_lock' = sd_lock /\ cache'.e = cache.e
    BY <1>2, <2>1
  <2>2. CASE sd_lock \in {t, Img!Nobody}
    <3>1. sd_lock # u
      BY <2>2, ImgTyped
    <3> QED BY <1>2, <3>1, ThreadUnlocked
  <2> QED BY <2>1, <2>2
<1> QED BY <1>1, <1>3 DEF ThreadAt

\* A step of a thread that neither begins nor ends a switch
LEMMA ThreadStep ==
    ASSUME ImgInv, NEW t \in ImgThread, OnlyThread(t), ipc[t] # "switch",
           context' = context, switching' = switching, wishes' \in Nat,
           \/ sd_lock' = sd_lock /\ cache'.e = cache.e
           \/ sd_lock \in {t, Img!Nobody},
           CacheOk(cache'), \A s \in Img!Slot : cache'.e[s].latent \in {0, context, cache.e[s].latent},
           ThreadAt(t)'
    PROVE  ImgInv'
<1>0. ContextOk /\ SwitchHeld /\ context \in Nat /\ \A u \in ImgThread : ThreadAt(u)
  BY DEF ImgInv
<1>1. \A u \in ImgThread : ThreadAt(u)'
  BY <1>0, OthersKept
<1>2. ContextOk'
  BY <1>0 DEF ContextOk
<1>3. SwitchHeld'
  <2>1. SUFFICES ASSUME switching # "no" PROVE SwitchHeld'
    BY DEF SwitchHeld
  <2>2. sd_lock = Img!Arbiter \/ (sd_lock \in ImgThread /\ ipc[sd_lock] = "switch")
    BY <1>0, <2>1 DEF SwitchHeld
  <2>3. sd_lock # t /\ sd_lock # Img!Nobody
    BY <2>2, ImgTyped DEF Img!Nobody, Img!Arbiter
  <2>4. sd_lock' = sd_lock /\ (sd_lock \in ImgThread => ipc'[sd_lock] = ipc[sd_lock])
    BY <2>3 DEF OnlyThread
  <2> QED BY <2>2, <2>4 DEF SwitchHeld
<1>4. CacheOk(cache)' /\ ThreadVars'
  BY DEF OnlyThread
<1> QED BY <1>0, <1>1, <1>2, <1>3, <1>4 DEF ImgInv

LEMMA ImgStarts == Img!ImgInit => ImgInv
<1> SUFFICES ASSUME Img!ImgInit PROVE ImgInv
  OBVIOUS
<1>1. /\ sd_lock = Img!Nobody /\ context = 1 /\ switching = "no" /\ wishes = 0
      /\ cache = [e |-> [s \in Img!Slot |-> Img!Empty], lru |-> <<>>, bytes |-> 0]
      /\ ipc = [t \in ImgThread |-> "idle"] /\ ireq = [t \in ImgThread |-> Img!NoImage]
      /\ islot = [t \in ImgThread |-> 0] /\ image = [t \in ImgThread |-> Img!NoImage]
  BY DEF Img!ImgInit
<1> QED BY <1>1, EmptyCacheOk DEF ImgInv, ContextOk, SwitchHeld, ThreadVars, ThreadAt, ThreadOk

\* Requests without the lock, and a reply
LEMMA ImgOutside ==
    ASSUME ImgInv, NEW t \in ImgThread,
           Img!ImgArrive(t) \/ Img!ImgLease(t) \/ Img!ImgEnter(t) \/ Img!ImgReply(t)
    PROVE  ImgInv'
<1>0. ThreadVars /\ ThreadAt(t) /\ CacheOk(cache) /\ wishes \in Nat
  BY DEF ImgInv
<1>1. cache' = cache /\ sd_lock' = sd_lock /\ context' = context /\ switching' = switching /\ wishes' = wishes
  BY DEF Img!ImgArrive, Img!ImgLease, Img!ImgEnter, Img!ImgReply, Img!ictx, Img!ibounds
<1>2. ipc[t] \in {"idle", "lease", "enter", "reply"}
  BY DEF Img!ImgArrive, Img!ImgLease, Img!ImgEnter, Img!ImgReply
<1>3. /\ OnlyThread(t)
      /\ \/ ipc'[t] = "idle"
         \/ ipc[t] = "idle" /\ ipc'[t] = "try" /\ ireq'[t] \in Img!ImgReq
         \/ ipc[t] # "idle" /\ ipc'[t] \in {"enter", "lock"} /\ ireq'[t] = ireq[t]
  <2>1. CASE Img!ImgArrive(t)
    BY <1>0, <2>1 DEF Img!ImgArrive, Img!Goto, OnlyThread, ThreadVars
  <2>2. CASE Img!ImgLease(t)
    BY <1>0, <2>2 DEF Img!ImgLease, Img!Done, Img!Goto, OnlyThread, ThreadVars
  <2>3. CASE Img!ImgEnter(t)
    BY <1>0, <2>3 DEF Img!ImgEnter, Img!Done, Img!Goto, OnlyThread, ThreadVars
  <2>4. CASE Img!ImgReply(t)
    BY <1>0, <2>4 DEF Img!ImgReply, Img!Done, Img!Goto, OnlyThread, ThreadVars
  <2> QED BY <2>1, <2>2, <2>3, <2>4
<1>4. ThreadAt(t)'
  BY <1>0, <1>3 DEF ThreadAt, ThreadOk
<1> QED BY <1>0, <1>1, <1>2, <1>3, <1>4, ThreadStep

\* The image of a slot with this key answers this request, and no other kind
LEMMA HitAnswers ==
    ASSUME NEW c, CacheOk(c), NEW s \in Img!Slot, c.e[s].image # Img!NoImage
    PROVE  c.e[s].image.key = c.e[s].key /\ (c.e[s].image.kind = "teleport" <=> c.e[s].resume)
BY DEF CacheOk, EntriesOk, ImgEntryOk

LEMMA ImgTryCachedOk ==
    ASSUME ImgInv, NEW t \in ImgThread, Img!ImgTryCached(t)
    PROVE  ImgInv'
<1> DEFINE r == ireq[t]  s == Img!Lookup(cache, r, FALSE)
           hit == Img!Tries(t) /\ s # 0 /\ cache.e[s].image # Img!NoImage
<1>0. ThreadVars /\ ThreadAt(t) /\ CacheOk(cache) /\ wishes \in Nat
  BY DEF ImgInv
<1>1. /\ sd_lock' = sd_lock /\ context' = context /\ switching' = switching /\ wishes' = wishes
      /\ ipc[t] = "try" /\ ireq' = ireq /\ islot' = islot
      /\ cache' = (IF Img!Tries(t) THEN Img!cache_find(cache, r, FALSE) ELSE cache)
      /\ image' = [image EXCEPT ![t] = IF hit THEN cache.e[s].image ELSE Img!NoImage]
      /\ ipc' = [ipc EXCEPT ![t] = IF hit THEN "reply" ELSE "lease"]
  BY DEF Img!ImgTryCached, Img!Goto, Img!ictx, Img!ibounds
<1>2. CacheOk(cache') /\ cache'.e = cache.e
  <2>1. CacheOk(Img!cache_find(cache, r, FALSE)) /\ Img!cache_find(cache, r, FALSE).e = cache.e
    BY <1>0, FindOk, Zenon
  <2> QED BY <1>0, <1>1, <2>1
<1>3. OnlyThread(t)
  BY <1>0, <1>1 DEF OnlyThread, ThreadVars
<1>4. r \in Img!ImgReq
  BY <1>0, <1>1 DEF ThreadAt, ThreadOk
<1>5. ThreadAt(t)'
  <2>1. CASE hit
    <3>1. Found(cache, s, r, FALSE)
      BY LookupFinds, Zenon
    <3>2. s \in Img!Slot /\ cache.e[s].key = r.key /\ cache.e[s].resume = FALSE /\ cache.e[s].image # Img!NoImage
      BY <2>1, <3>1 DEF Found
    <3>3. r.kind # "teleport"
      BY <2>1 DEF Img!Tries
    <3>4. ipc'[t] = "reply" /\ image'[t] = cache.e[s].image /\ ireq'[t] = r
      BY <1>0, <1>1, <2>1 DEF ThreadVars
    <3> HIDE DEF r, s
    <3>5. image'[t].key = r.key /\ image'[t].kind # "teleport"
      BY <1>0, <3>2, <3>4, HitAnswers
    <3> QED BY <1>4, <3>3, <3>4, <3>5 DEF ThreadAt, ThreadOk
  <2>2. CASE ~hit
    <3>1. ipc'[t] = "lease" /\ ireq'[t] = r
      BY <1>0, <1>1, <2>2 DEF ThreadVars
    <3> QED BY <1>4, <3>1 DEF ThreadAt, ThreadOk
  <2> QED BY <2>1, <2>2
<1>6. \A v \in Img!Slot : cache'.e[v].latent \in {0, context, cache.e[v].latent}
  BY <1>2
<1> QED BY <1>0, <1>1, <1>2, <1>3, <1>5, <1>6, ThreadStep

\* The lock is taken, for the request or for the switch it has to make first
LEMMA ImgLockOk ==
    ASSUME ImgInv, NEW t \in ImgThread, Img!ImgLock(t)
    PROVE  ImgInv'
<1>0. /\ ThreadVars /\ CacheOk(cache) /\ wishes \in Nat /\ context \in Nat
      /\ ContextOk /\ SwitchHeld /\ \A u \in ImgThread : ThreadAt(u)
  BY DEF ImgInv
<1>1. /\ ipc[t] = "lock" /\ sd_lock = Img!Nobody /\ sd_lock' = t
      /\ context' = context /\ cache' = cache /\ wishes' = wishes
      /\ ireq' = ireq /\ islot' = islot /\ image' = image
      /\ \/ switching' \in {"promote", "demote"} /\ ipc' = [ipc EXCEPT ![t] = "switch"]
         \/ switching' = switching /\ ipc' = [ipc EXCEPT ![t] = "lookup"]
  BY DEF Img!ImgLock, Img!Goto, Img!ibounds
<1>2. switching = "no"
  BY <1>0, <1>1, ImgTyped DEF SwitchHeld, Img!Nobody, Img!Arbiter
<1>3. OnlyThread(t)
  BY <1>0, <1>1 DEF OnlyThread, ThreadVars
<1>4. ThreadAt(t)'
  <2>1. ireq[t] \in Img!ImgReq
    BY <1>0, <1>1 DEF ThreadAt, ThreadOk
  <2>2. ipc'[t] \in {"switch", "lookup"} /\ ireq'[t] = ireq[t]
    BY <1>0, <1>1 DEF ThreadVars
  <2> QED BY <1>1, <2>1, <2>2 DEF ThreadAt, ThreadOk
<1>5. \A u \in ImgThread : ThreadAt(u)'
  BY <1>0, <1>1, <1>3, <1>4, OthersKept
<1>6. ContextOk'
  BY <1>0, <1>1, <1>2 DEF ContextOk
<1>7. SwitchHeld'
  BY <1>0, <1>1, <1>2 DEF SwitchHeld, ThreadVars
<1>8. CacheOk(cache)' /\ ThreadVars'
  BY <1>0, <1>1, <1>3 DEF OnlyThread
<1> QED BY <1>0, <1>1, <1>5, <1>6, <1>7, <1>8 DEF ImgInv

LEMMA ImgLookupOk ==
    ASSUME ImgInv, NEW t \in ImgThread, Img!ImgLookup(t)
    PROVE  ImgInv'
<1> DEFINE r == ireq[t]  tp == Img!Teleports(r)  looks == Img!ResultCache(r) \/ tp
           s == IF looks THEN Img!Lookup(cache, r, tp) ELSE 0
           hit == s # 0 /\ cache.e[s].image # Img!NoImage
<1>0. ThreadVars /\ ThreadAt(t) /\ CacheOk(cache) /\ wishes \in Nat
  BY DEF ImgInv
<1>1. /\ context' = context /\ switching' = switching /\ wishes' = wishes
      /\ ipc[t] = "lookup" /\ ireq' = ireq
      /\ sd_lock' = (IF hit THEN Img!Nobody ELSE sd_lock)
      /\ cache' = (IF looks THEN Img!cache_find(cache, r, tp) ELSE cache)
      /\ image' = [image EXCEPT ![t] = IF hit THEN cache.e[s].image ELSE Img!NoImage]
      /\ islot' = [islot EXCEPT ![t] = IF tp /\ ~hit THEN s ELSE 0]
      /\ ipc' = [ipc EXCEPT ![t] = IF hit THEN "reply" ELSE "render"]
  BY DEF Img!ImgLookup, Img!Goto, Img!ictx, Img!ibounds
<1>2. CacheOk(cache') /\ cache'.e = cache.e
  <2>1. CacheOk(Img!cache_find(cache, r, tp)) /\ Img!cache_find(cache, r, tp).e = cache.e
    BY <1>0, FindOk, Zenon
  <2> QED BY <1>0, <1>1, <2>1
<1>3. OnlyThread(t)
  BY <1>0, <1>1 DEF OnlyThread, ThreadVars
<1>4. r \in Img!ImgReq /\ sd_lock = t
  BY <1>0, <1>1 DEF ThreadAt, ThreadOk
<1>a. s # 0 => s \in Img!Slot /\ cache.e[s].key = r.key /\ cache.e[s].resume = tp
  <2>1. Found(cache, Img!Lookup(cache, r, tp), r, tp)
    BY LookupFinds, Zenon
  <2> QED BY <2>1 DEF Found
<1>b. tp <=> r.kind = "teleport"
  BY DEF Img!Teleports
<1>c. ireq'[t] = r
  BY <1>1
<1>5. ThreadAt(t)'
  <2> HIDE DEF r, s, tp
  <2>1. CASE hit
    <3>4. ipc'[t] = "reply" /\ image'[t] = cache.e[s].image
      BY <1>0, <1>1, <2>1 DEF ThreadVars
    <3>5. image'[t].key = r.key /\ (image'[t].kind = "teleport" <=> r.kind = "teleport")
      BY <1>0, <1>a, <1>b, <2>1, <3>4, HitAnswers
    <3> QED BY <1>4, <1>c, <3>4, <3>5 DEF ThreadAt, ThreadOk
  <2>2. CASE ~hit
    <3>1. ipc'[t] = "render" /\ islot'[t] = (IF tp THEN s ELSE 0) /\ sd_lock' = t
      BY <1>0, <1>1, <1>4, <2>2 DEF ThreadVars
    <3>2. islot'[t] # 0 => islot'[t] \in Img!Slot /\ cache.e[islot'[t]].key = r.key /\ cache.e[islot'[t]].latent # 0
      BY <1>0, <1>a, <3>1 DEF CacheOk, EntriesOk, ImgEntryOk
    <3> QED BY <1>2, <1>4, <1>c, <3>1, <3>2 DEF ThreadAt, ThreadOk
  <2> QED BY <2>1, <2>2
<1>6. \A v \in Img!Slot : cache'.e[v].latent \in {0, context, cache.e[v].latent}
  BY <1>2
<1> QED BY <1>0, <1>1, <1>2, <1>3, <1>4, <1>5, <1>6, ThreadStep

LEMMA ImgRenderOk ==
    ASSUME ImgInv, NEW t \in ImgThread, Img!ImgRender(t)
    PROVE  ImgInv'
<1> DEFINE r == ireq[t]  i == islot[t]
           Outs == IF Img!Teleports(r) THEN Img!Replayed(t) \cup {Img!Failed(t)}
                   ELSE {[c |-> cache, teleport |-> FALSE]}
<1>0. /\ ThreadVars /\ ThreadAt(t) /\ CacheOk(cache) /\ wishes \in Nat /\ context \in Nat
      /\ ContextOk /\ SwitchHeld
  BY DEF ImgInv
<1>1. PICK out \in Outs :
        /\ ipc[t] = "render" /\ sd_lock = t /\ sd_lock' = Img!Nobody
        /\ context' = context /\ switching' = switching /\ wishes' = wishes
        /\ cache' = out.c
        /\ \/ /\ image' = [image EXCEPT ![t] = r] /\ ireq' = ireq
              /\ ipc' = [ipc EXCEPT ![t] = IF Img!ResultCache(r) THEN "insert" ELSE IF out.teleport THEN "refind" ELSE "reply"]
              /\ islot' = [islot EXCEPT ![t] = IF out.teleport THEN @ ELSE 0]
           \/ Img!Done(t)
  BY DEF Img!ImgRender, Img!Goto, Img!ictx, Img!ibounds
<1>2. r \in Img!ImgReq /\ i \in Img!Slot \cup {0}
  BY <1>0, <1>1 DEF ThreadAt, ThreadOk
<1>3. switching = "no" /\ context # 0
  BY <1>0, <1>1, ImgTyped DEF SwitchHeld, ContextOk
<1>4. /\ CacheOk(out.c) /\ \A v \in Img!Slot : out.c.e[v].latent \in {0, context, cache.e[v].latent}
      /\ out.teleport => r.kind = "teleport"
  <2>1. CASE out = [c |-> cache, teleport |-> FALSE] \/ (Img!Teleports(r) /\ out = [c |-> cache, teleport |-> TRUE])
    <3>1. out.c = cache /\ (out.teleport => Img!Teleports(r))
      BY <2>1
    <3> QED BY <1>0, <3>1 DEF Img!Teleports
  <2>2. CASE Img!Teleports(r) /\ CacheSlots > 0 /\ out = [c |-> Img!cache_insert(cache, r, TRUE, context), teleport |-> TRUE]
    <3> DEFINE s == Img!Place(cache, r, TRUE)
    <3>1. out.c = Img!cache_insert(cache, r, TRUE, context) /\ r.kind = "teleport"
      BY <2>2 DEF Img!Teleports
    <3>2. context \in Nat \ {0}
      BY <1>0, <1>3
    <3>3. InsertedAt(cache, out.c, s, r, TRUE, context)
      BY <1>0, <1>2, <2>2, <3>1, <3>2, InsertLatent
    <3> HIDE DEF s
    <3>4. \A v \in Img!Slot : out.c.e[v].latent \in {0, context, cache.e[v].latent}
      BY <3>3 DEF InsertedAt
    <3> QED BY <3>1, <3>3, <3>4 DEF InsertedAt
  <2>3. CASE i \in Img!Slot /\ out = [c |-> Img!cache_entry_clear(cache, i), teleport |-> FALSE]
    <3>1. out.c = Img!Cleared(cache, {i}) /\ ~out.teleport /\ {i} \in SUBSET Img!Slot
      BY <2>3 DEF Img!cache_entry_clear
    <3>2. /\ CacheOk(out.c)
          /\ \A v \in Img!Slot : out.c.e[v] = IF v \in {i} THEN Img!Empty ELSE cache.e[v]
      BY <1>0, <3>1, ClearedOk
    <3>3. Img!Empty.latent = 0
      BY DEF Img!Empty
    <3> QED BY <3>1, <3>2, <3>3
  <2>4. \/ out = [c |-> cache, teleport |-> FALSE] \/ (Img!Teleports(r) /\ out = [c |-> cache, teleport |-> TRUE])
        \/ Img!Teleports(r) /\ CacheSlots > 0 /\ out = [c |-> Img!cache_insert(cache, r, TRUE, context), teleport |-> TRUE]
        \/ i \in Img!Slot /\ out = [c |-> Img!cache_entry_clear(cache, i), teleport |-> FALSE]
    BY <1>2 DEF Img!Replayed, Img!Failed
  <2> QED BY <2>1, <2>2, <2>3, <2>4
<1>5. OnlyThread(t)
  BY <1>0, <1>1 DEF OnlyThread, ThreadVars, Img!Done, Img!Goto
<1>6. ThreadAt(t)'
  <2>1. CASE Img!Done(t)
    <3>1. ipc'[t] = "idle"
      BY <1>0, <2>1 DEF Img!Done, Img!Goto, ThreadVars
    <3> QED BY <3>1 DEF ThreadAt, ThreadOk
  <2>2. CASE ~Img!Done(t)
    <3>1. /\ image'[t] = r /\ ireq'[t] = r
          /\ ipc'[t] = (IF Img!ResultCache(r) THEN "insert" ELSE IF out.teleport THEN "refind" ELSE "reply")
      BY <1>0, <1>1, <2>2 DEF ThreadVars
    <3>2. Img!ResultCache(r) => r.kind = "cached"
      BY DEF Img!ResultCache
    <3> HIDE DEF r
    <3> QED BY <1>2, <1>4, <3>1, <3>2 DEF ThreadAt, ThreadOk
  <2> QED BY <2>1, <2>2
<1> QED BY <1>0, <1>1, <1>4, <1>5, <1>6, ThreadStep

LEMMA ImgInsertOk ==
    ASSUME ImgInv, NEW t \in ImgThread, Img!ImgInsert(t)
    PROVE  ImgInv'
<1> DEFINE r == ireq[t]  s == Img!Place(cache, r, FALSE)  d == Img!cache_insert(cache, r, FALSE, 0)
<1>0. ThreadVars /\ ThreadAt(t) /\ CacheOk(cache) /\ wishes \in Nat /\ context \in Nat
  BY DEF ImgInv
<1>1. /\ ipc[t] = "insert" /\ sd_lock = Img!Nobody
      /\ context' = context /\ switching' = switching /\ wishes' = wishes
      /\ ireq' = ireq /\ image' = image
      /\ \/ /\ CacheSlots > 0 /\ sd_lock' = t /\ cache' = d
            /\ islot' = [islot EXCEPT ![t] = s] /\ ipc' = [ipc EXCEPT ![t] = "store"]
         \/ sd_lock' = sd_lock /\ cache' = cache /\ islot' = islot /\ ipc' = [ipc EXCEPT ![t] = "reply"]
  BY DEF Img!ImgInsert, Img!Goto, Img!ictx, Img!ibounds
<1>2. r \in Img!ImgReq /\ image[t] = r /\ r.kind = "cached"
  BY <1>0, <1>1 DEF ThreadAt, ThreadOk
<1>3. OnlyThread(t)
  BY <1>0, <1>1 DEF OnlyThread, ThreadVars
<1>4. CASE CacheSlots > 0 /\ sd_lock' = t /\ cache' = d /\ islot' = [islot EXCEPT ![t] = s] /\ ipc' = [ipc EXCEPT ![t] = "store"]
  <2>1. InsertedAt(cache, d, s, r, FALSE, 0)
    BY <1>0, <1>2, <1>4, InsertPlain
  <2>2. ipc'[t] = "store" /\ islot'[t] = s /\ image'[t] = r /\ ireq'[t] = r
    BY <1>0, <1>1, <1>2, <1>4 DEF ThreadVars
  <2> HIDE DEF d, s, r
  <2>3. ThreadAt(t)'
    BY <1>2, <1>4, <2>1, <2>2 DEF ThreadAt, ThreadOk, InsertedAt
  <2>4. CacheOk(cache') /\ \A v \in Img!Slot : cache'.e[v].latent \in {0, context, cache.e[v].latent}
    BY <1>4, <2>1 DEF InsertedAt
  <2> QED BY <1>0, <1>1, <1>3, <2>3, <2>4, ThreadStep
<1>5. CASE sd_lock' = sd_lock /\ cache' = cache /\ islot' = islot /\ ipc' = [ipc EXCEPT ![t] = "reply"]
  <2>2. ipc'[t] = "reply" /\ image'[t] = r /\ ireq'[t] = r
    BY <1>0, <1>1, <1>2, <1>5 DEF ThreadVars
  <2>3. ThreadAt(t)'
    BY <1>2, <2>2 DEF ThreadAt, ThreadOk
  <2> QED BY <1>0, <1>1, <1>3, <1>5, <2>3, ThreadStep
<1> QED BY <1>1, <1>4, <1>5

LEMMA ImgRefindOk ==
    ASSUME ImgInv, NEW t \in ImgThread, Img!ImgRefind(t)
    PROVE  ImgInv'
<1> DEFINE r == ireq[t]  s == Img!Lookup(cache, r, TRUE)
<1>0. ThreadVars /\ ThreadAt(t) /\ CacheOk(cache) /\ wishes \in Nat /\ context \in Nat
  BY DEF ImgInv
<1>1. /\ ipc[t] = "refind" /\ sd_lock = Img!Nobody
      /\ context' = context /\ switching' = switching /\ wishes' = wishes
      /\ ireq' = ireq /\ image' = image
      /\ cache' = Img!cache_find(cache, r, TRUE)
      /\ islot' = [islot EXCEPT ![t] = s]
      /\ \/ s = 0 /\ ipc' = [ipc EXCEPT ![t] = "reply"]
         \/ s # 0 /\ ipc' = [ipc EXCEPT ![t] = "store"] /\ sd_lock' = t
  BY DEF Img!ImgRefind, Img!Goto, Img!ictx, Img!ibounds
<1>2. r \in Img!ImgReq /\ image[t] = r /\ r.kind = "teleport"
  BY <1>0, <1>1 DEF ThreadAt, ThreadOk
<1>3. OnlyThread(t)
  BY <1>0, <1>1 DEF OnlyThread, ThreadVars
<1>4. CacheOk(cache') /\ cache'.e = cache.e
  <2>1. CacheOk(Img!cache_find(cache, r, TRUE)) /\ Img!cache_find(cache, r, TRUE).e = cache.e
    BY <1>0, FindOk, Zenon
  <2> QED BY <1>1, <2>1
<1>5. s # 0 => s \in Img!Slot /\ cache.e[s].key = r.key /\ cache.e[s].latent # 0
  <2>1. Found(cache, s, r, TRUE)
    BY LookupFinds, Zenon
  <2> HIDE DEF s, r
  <2>2. s # 0 => s \in Img!Slot /\ cache.e[s].key = r.key /\ cache.e[s].resume = TRUE
    BY <2>1 DEF Found
  <2> QED BY <1>0, <2>2 DEF CacheOk, EntriesOk, ImgEntryOk
<1>6. image'[t] = r /\ ireq'[t] = r /\ islot'[t] = s /\ ipc'[t] = (IF s = 0 THEN "reply" ELSE "store")
  BY <1>0, <1>1, <1>2 DEF ThreadVars
<1>7. ThreadAt(t)'
  <2> HIDE DEF s, r
  <2> QED BY <1>1, <1>2, <1>4, <1>5, <1>6 DEF ThreadAt, ThreadOk
<1> QED BY <1>0, <1>1, <1>3, <1>4, <1>7, ThreadStep

LEMMA ImgStoreOk ==
    ASSUME ImgInv, NEW t \in ImgThread, Img!ImgStore(t)
    PROVE  ImgInv'
<1> DEFINE r == ireq[t]  s == islot[t]  d == Img!cache_store_encoded_result(cache, s, r)
<1>0. ThreadVars /\ ThreadAt(t) /\ CacheOk(cache) /\ wishes \in Nat /\ context \in Nat
  BY DEF ImgInv
<1>1. /\ ipc[t] = "store" /\ sd_lock' = Img!Nobody
      /\ context' = context /\ switching' = switching /\ wishes' = wishes
      /\ ireq' = ireq /\ image' = image /\ islot' = islot
      /\ cache' = Img!cache_store_encoded_result(cache, s, image[t])
      /\ ipc' = [ipc EXCEPT ![t] = "reply"]
  BY DEF Img!ImgStore, Img!Goto, Img!ictx, Img!ibounds
<1>2. /\ r \in Img!ImgReq /\ image[t] = r /\ sd_lock = t
      /\ s \in Img!Slot /\ cache.e[s].key = r.key /\ (cache.e[s].latent # 0 <=> r.kind = "teleport")
  BY <1>0, <1>1 DEF ThreadAt, ThreadOk
<1>3. OnlyThread(t)
  BY <1>0, <1>1 DEF OnlyThread, ThreadVars
<1>4. cache' = d
  BY <1>1, <1>2
<1>5. ireq'[t] = r /\ image'[t] = r /\ ipc'[t] = "reply"
  BY <1>0, <1>1, <1>2 DEF ThreadVars
<1> HIDE DEF r, s
<1>6. CacheOk(d) /\ \A v \in Img!Slot : d.e[v].latent \in {0, cache.e[v].latent}
  BY <1>0, <1>2, StoreOk
<1>7. ThreadAt(t)'
  BY <1>2, <1>5 DEF ThreadAt, ThreadOk
<1>8. CacheOk(cache') /\ \A v \in Img!Slot : cache'.e[v].latent \in {0, context, cache.e[v].latent}
  BY <1>4, <1>6
<1> QED BY <1>0, <1>1, <1>2, <1>3, <1>7, <1>8, ThreadStep

LEMMA NoLatentsOk ==
    ASSUME NEW c, CacheOk(c)
    PROVE  CacheOk(Img!NoLatents(c)) /\ \A v \in Img!Slot : Img!NoLatents(c).e[v].latent = 0
<1> DEFINE S == {s \in Img!Slot : c.e[s].latent # 0}  d == Img!Cleared(c, S)
<1>1. CacheOk(d) /\ \A s \in Img!Slot : d.e[s] = IF s \in S THEN Img!Empty ELSE c.e[s]
  BY ClearedOk
<1>2. Img!Empty.latent = 0
  BY DEF Img!Empty
<1>3. Img!NoLatents(c) = d
  BY DEF Img!NoLatents
<1> HIDE DEF d
<1> QED BY <1>1, <1>2, <1>3

\* The holder is done with its switch: no thread knows an entry
LEMMA SwitchEnds ==
    ASSUME ImgInv, Img!SwitchDone, switching # "no", CacheOk(cache'), context' \in Nat, wishes' = wishes,
           context' # 0, \A v \in Img!Slot : cache'.e[v].latent \in {0, context'},
           ireq' = ireq, islot' = islot, image' = image
    PROVE  ImgInv'
<1>0. ThreadVars /\ SwitchHeld /\ wishes \in Nat /\ \A u \in ImgThread : ThreadAt(u)
  BY DEF ImgInv
<1>1. sd_lock = Img!Arbiter \/ (sd_lock \in ImgThread /\ ipc[sd_lock] = "switch")
  BY <1>0 DEF SwitchHeld
<1>2. /\ switching' = "no"
      /\ \/ sd_lock = Img!Arbiter /\ sd_lock' = Img!Nobody /\ ipc' = ipc
         \/ sd_lock # Img!Arbiter /\ ipc' = [ipc EXCEPT ![sd_lock] = "lookup"] /\ sd_lock' = sd_lock
  BY DEF Img!SwitchDone, Img!Goto
<1> PICK h : h = sd_lock
  OBVIOUS
<1>3. OnlyThread(h)
  BY <1>0, <1>2 DEF OnlyThread, ThreadVars
<1>4. h \in ImgThread => ThreadAt(h)'
  <2> SUFFICES ASSUME h \in ImgThread PROVE ThreadAt(h)'
    OBVIOUS
  <2>1. sd_lock' = h /\ ipc'[h] = "lookup" /\ ireq'[h] = ireq[h]
    BY <1>0, <1>2, ImgTyped DEF ThreadVars
  <2>2. ireq[h] \in Img!ImgReq
    BY <1>0, <1>1, ImgTyped DEF ThreadAt, ThreadOk
  <2> QED BY <2>1, <2>2 DEF ThreadAt, ThreadOk
<1>5. \A u \in ImgThread : ThreadAt(u)'
  BY <1>0, <1>3, <1>4, OthersKept
<1>6. ContextOk' /\ SwitchHeld' /\ ThreadVars'
  BY <1>2, <1>3 DEF ContextOk, SwitchHeld, OnlyThread
<1> QED BY <1>0, <1>5, <1>6 DEF ImgInv

LEMMA ImgSwitches ==
    ASSUME ImgInv, Img!SwPromote \/ Img!SwFree \/ Img!SwRebuild \/ Img!SwAbort
    PROVE  ImgInv'
<1>0. /\ CacheOk(cache) /\ context \in Nat /\ wishes \in Nat /\ ContextOk /\ SwitchHeld /\ ThreadVars
      /\ \A u \in ImgThread : ThreadAt(u)
  BY DEF ImgInv
<1>a. CacheOk(Img!NoLatents(cache)) /\ \A v \in Img!Slot : Img!NoLatents(cache).e[v].latent = 0
  BY <1>0, NoLatentsOk
<1>b. wishes + 2 \in Nat /\ wishes + 2 # 0
  BY <1>0
<1>1. CASE Img!SwPromote
  <2>1. /\ switching = "promote" /\ Img!SwitchDone /\ wishes' = wishes /\ ireq' = ireq /\ islot' = islot /\ image' = image
        /\ \/ context' = wishes + 2 /\ cache' = Img!NoLatents(cache)
           \/ context' = context /\ cache' = cache
    BY <1>1 DEF Img!SwPromote, Img!ibounds
  <2>2. context # 0 /\ \A s \in Img!Slot : cache.e[s].latent \in {0, context}
    BY <1>0, <2>1 DEF ContextOk
  <2>3. CacheOk(cache') /\ context' \in Nat /\ context' # 0 /\ \A v \in Img!Slot : cache'.e[v].latent \in {0, context'}
    BY <1>0, <1>a, <1>b, <2>1, <2>2
  <2> QED BY <2>1, <2>3, SwitchEnds
<1>2. CASE Img!SwFree
  <2>1. /\ switching = "demote" /\ switching' = "rebuild" /\ context' = 0 /\ sd_lock' = sd_lock /\ cache' = cache
        /\ ipc' = ipc /\ ireq' = ireq /\ islot' = islot /\ image' = image /\ wishes' = wishes
    BY <1>2 DEF Img!SwFree, Img!ithread, Img!ibounds
  <2> QED BY <1>0, <2>1 DEF ImgInv, ContextOk, SwitchHeld, ThreadVars, ThreadAt
<1>3. CASE Img!SwRebuild
  <2>1. /\ switching = "rebuild" /\ Img!SwitchDone /\ wishes' = wishes /\ ireq' = ireq /\ islot' = islot /\ image' = image
        /\ context' = wishes + 2 /\ cache' = Img!NoLatents(cache)
    BY <1>3 DEF Img!SwRebuild, Img!ibounds
  <2>3. CacheOk(cache') /\ context' \in Nat /\ context' # 0 /\ \A v \in Img!Slot : cache'.e[v].latent \in {0, context'}
    BY <1>a, <1>b, <2>1
  <2> QED BY <2>1, <2>3, SwitchEnds
<1>4. CASE Img!SwAbort
  <2>1. /\ context' = 1 /\ switching' = "no" /\ wishes' = wishes
        /\ cache' = [e |-> [s \in Img!Slot |-> Img!Empty], lru |-> <<>>, bytes |-> 0]
        /\ ipc' = [t \in ImgThread |-> "idle"] /\ ireq' = [t \in ImgThread |-> Img!NoImage]
        /\ islot' = [t \in ImgThread |-> 0] /\ image' = [t \in ImgThread |-> Img!NoImage]
    BY <1>4 DEF Img!SwAbort, Img!ibounds
  <2>2. CacheOk(cache') /\ \A s \in Img!Slot : cache'.e[s].latent = 0
    BY <2>1, EmptyCacheOk
  <2>3. ThreadVars' /\ \A t \in ImgThread : ipc'[t] = "idle"
    BY <2>1 DEF ThreadVars
  <2>4. \A t \in ImgThread : ThreadAt(t)'
    BY <2>3 DEF ThreadAt, ThreadOk
  <2>5. ContextOk' /\ SwitchHeld'
    BY <2>1, <2>2 DEF ContextOk, SwitchHeld
  <2> QED BY <1>0, <2>1, <2>2, <2>3, <2>4, <2>5 DEF ImgInv
<1> QED BY <1>1, <1>2, <1>3, <1>4

LEMMA ImgWishes ==
    ASSUME ImgInv, (\E r \in BOOLEAN : Img!SwAsk(r)) \/ Img!osd_residency_settled
    PROVE  ImgInv'
<1>0. /\ CacheOk(cache) /\ context \in Nat /\ wishes \in Nat /\ ContextOk /\ SwitchHeld /\ ThreadVars
      /\ \A u \in ImgThread : ThreadAt(u)
  BY DEF ImgInv
<1>1. /\ context' = context /\ cache' = cache /\ wishes' \in {wishes, wishes + 1}
      /\ ipc' = ipc /\ ireq' = ireq /\ islot' = islot /\ image' = image
      /\ \/ sd_lock' = sd_lock /\ switching' = switching
         \/ sd_lock = Img!Nobody /\ sd_lock' = Img!Arbiter /\ switching' \in {"promote", "demote"}
  BY DEF Img!SwAsk, Img!osd_residency_settled, Img!ithread, Img!ibounds
<1>2. ThreadVars'
  BY <1>0, <1>1 DEF ThreadVars
<1>3. \A u \in ImgThread : ThreadAt(u)'
  <2>1. OnlyThread(Img!Nobody)
    BY <1>1, <1>2 DEF OnlyThread
  <2>2. (sd_lock' = sd_lock /\ cache'.e = cache.e) \/ sd_lock \in {Img!Nobody, Img!Nobody}
    BY <1>1
  <2> QED BY <1>0, <2>1, <2>2, OthersKept, ImgTyped
<1>4. ContextOk' /\ SwitchHeld'
  <2>1. CASE sd_lock' = sd_lock /\ switching' = switching
    BY <1>0, <1>1, <2>1 DEF ContextOk, SwitchHeld
  <2>2. CASE sd_lock = Img!Nobody /\ sd_lock' = Img!Arbiter /\ switching' \in {"promote", "demote"}
    <3>1. switching = "no"
      BY <1>0, <2>2, ImgTyped DEF SwitchHeld, Img!Nobody, Img!Arbiter
    <3> QED BY <1>0, <1>1, <2>2, <3>1 DEF ContextOk, SwitchHeld
  <2> QED BY <1>1, <2>1, <2>2
<1>5. CacheOk(cache)' /\ context' \in Nat /\ wishes' \in Nat
  BY <1>0, <1>1
<1> QED BY <1>2, <1>3, <1>4, <1>5 DEF ImgInv

LEMMA ImgKeeps == ImgInv /\ [Img!ImgNext]_(Img!imgVars) => ImgInv'
<1> SUFFICES ASSUME ImgInv, [Img!ImgNext]_(Img!imgVars) PROVE ImgInv'
  OBVIOUS
<1>1. ASSUME NEW t \in ImgThread,
             \/ Img!ImgArrive(t) \/ Img!ImgTryCached(t) \/ Img!ImgLease(t) \/ Img!ImgEnter(t) \/ Img!ImgLock(t) \/ Img!ImgLookup(t)
             \/ Img!ImgRender(t) \/ Img!ImgInsert(t) \/ Img!ImgRefind(t) \/ Img!ImgStore(t) \/ Img!ImgReply(t)
      PROVE  ImgInv'
  BY <1>1, ImgOutside, ImgTryCachedOk, ImgLockOk, ImgLookupOk, ImgRenderOk, ImgInsertOk, ImgRefindOk, ImgStoreOk
<1>2. CASE Img!SwPromote \/ Img!SwFree \/ Img!SwRebuild \/ Img!SwAbort
  BY <1>2, ImgSwitches
<1>3. CASE (\E r \in BOOLEAN : Img!SwAsk(r)) \/ Img!osd_residency_settled
  BY <1>3, ImgWishes
<1>4. CASE UNCHANGED Img!imgVars
  BY <1>4 DEF ImgInv, ContextOk, SwitchHeld, ThreadVars, ThreadAt, Img!imgVars, Img!ictx, Img!ithread, Img!ibounds
<1> QED BY <1>1, <1>2, <1>3, <1>4 DEF Img!ImgNext

\* Whatever moves in the image cache between a lookup, a render and a store, its
\* byte count is exact and within the budget, an image sits under its own key,
\* and the latent a render resumes from is of its request and of the context
\* that renders (backend_sd.c, osd_generate and sd_switch_locked)
THEOREM ImageCacheIsSound == Img!ImgSpec => []ImageCacheSound
<1>1. ImgInv => ImageCacheSound
  <2> SUFFICES ASSUME ImgInv PROVE ImageCacheSound
    OBVIOUS
  <2>0. CacheOk(cache) /\ ContextOk /\ SwitchHeld /\ \A t \in ImgThread : ThreadAt(t)
    BY DEF ImgInv
  <2>1. Img!BytesExact
    BY <2>0, HeldIsSum DEF Img!BytesExact, CacheOk
  <2>2. Img!CacheHoldsKey
    <3>1. ASSUME NEW s \in Img!Slot, cache.e[s].image # Img!NoImage
          PROVE  Img!cache_key_equal(cache, s, cache.e[s].image, Img!Teleports(cache.e[s].image))
      <4>1. cache.e[s].image.key = cache.e[s].key /\ (cache.e[s].image.kind = "teleport" <=> cache.e[s].resume)
        BY <2>0, <3>1, HitAnswers
      <4>2. cache.e[s].resume \in BOOLEAN
        BY <2>0 DEF CacheOk, EntriesOk, ImgEntryOk
      <4> QED BY <4>1, <4>2 DEF Img!cache_key_equal, Img!Teleports
    <3>2. ASSUME NEW t \in ImgThread, ipc[t] = "reply"
          PROVE  image[t].key = ireq[t].key /\ (Img!Teleports(image[t]) <=> Img!Teleports(ireq[t]))
      BY <2>0, <3>2 DEF ThreadAt, ThreadOk, Img!Teleports
    <3> QED BY <3>1, <3>2 DEF Img!CacheHoldsKey
  <2>3. Img!LatentLive
    <3> SUFFICES ASSUME NEW t \in ImgThread, ipc[t] = "render"
                 PROVE  /\ context # 0
                        /\ islot[t] # 0 => /\ Img!cache_key_equal(cache, islot[t], ireq[t], TRUE)
                                           /\ cache.e[islot[t]].latent = context
      BY DEF Img!LatentLive
    <3>1. /\ sd_lock = t /\ islot[t] \in Img!Slot \cup {0}
          /\ islot[t] # 0 => cache.e[islot[t]].key = ireq[t].key /\ cache.e[islot[t]].latent # 0
      BY <2>0 DEF ThreadAt, ThreadOk
    <3>2. switching = "no"
      BY <2>0, <3>1, ImgTyped DEF SwitchHeld
    <3>3. context # 0 /\ \A s \in Img!Slot : cache.e[s].latent \in {0, context}
      BY <2>0, <3>2 DEF ContextOk
    <3>4. ASSUME islot[t] # 0 PROVE Img!cache_key_equal(cache, islot[t], ireq[t], TRUE) /\ cache.e[islot[t]].latent = context
      <4>1. ImgEntryOk(cache.e[islot[t]])
        BY <2>0, <3>1, <3>4 DEF CacheOk, EntriesOk
      <4>2. cache.e[islot[t]].resume = TRUE
        BY <3>1, <3>4, <4>1 DEF ImgEntryOk
      <4> QED BY <3>1, <3>3, <3>4, <4>2 DEF Img!cache_key_equal
    <3> QED BY <3>3, <3>4
  <2> QED BY <2>1, <2>2, <2>3 DEF ImageCacheSound
<1> QED BY <1>1, ImgStarts, ImgKeeps, PTL DEF Img!ImgSpec

-----------------------------------------------------------------------------
(* The sum                                                                 *)

\* A step of the sum is a step of the service that moves and leaves the
\* others as they are
LEMMA ServiceInTurn ==
    ASSUME [ImageMoves \/ GuardMoves \/ ResidencyMoves \/ MusicMoves \/ ServerMoves \/ TextMoves]_allVars
    PROVE  /\ [Guard!GuardNext]_(Guard!guardVars) /\ [Jobs!MusicNext]_(Jobs!musicVars)
           /\ [Server!MServerNext]_(Server!serverVars)
           /\ [Res!ResNext]_(Res!resVars) /\ [Img!ImgNext]_(Img!imgVars)
<1>1. UNCHANGED guardVars => UNCHANGED Guard!guardVars
  BY DEF guardVars, Guard!guardVars, Guard!judgeState
<1>2. UNCHANGED musicVars => UNCHANGED Jobs!musicVars
  BY DEF musicVars, Jobs!musicVars
<1>3. UNCHANGED serverVars => UNCHANGED Server!serverVars
  BY DEF serverVars, Server!serverVars
<1>4. UNCHANGED resVars => UNCHANGED Res!resVars
  BY DEF resVars, Res!resVars, Res!gateway, Res!bounds
<1>5. UNCHANGED imgVars => UNCHANGED Img!imgVars
  BY DEF imgVars, Img!imgVars, Img!ictx, Img!ithread, Img!ibounds
<1> QED BY <1>1, <1>2, <1>3, <1>4, <1>5, Zenon
        DEF ImageMoves, GuardMoves, ResidencyMoves, MusicMoves, ServerMoves, TextMoves, allVars

\* What these services promise on their own holds of the specification the run
\* checks: each service's part of its behaviours is a behaviour of the service.
THEOREM ServicesOfModels ==
    ServicesSpec =>
      Guard!GuardSpec /\ Jobs!MusicSpec /\ Server!MServerSpec /\ Res!ResSpec /\ Img!ImgSpec
<1>1. ServicesInit => Guard!GuardInit /\ Jobs!MusicInit /\ Server!MServerInit /\ Res!ResInit /\ Img!ImgInit
  BY DEF ServicesInit
<1> QED BY <1>1, ServiceInTurn, PTL
        DEF ServicesSpec, Guard!GuardSpec, Jobs!MusicSpec, Server!MServerSpec, Res!ResSpec, Img!ImgSpec
=============================================================================
