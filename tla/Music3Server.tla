---------------------------- MODULE Music3Server ----------------------------
(***************************************************************************)
(* start_server of src/music3c/main.c: the model server of a music worker, *)
(* started by the warm thread or by the first job under g_server_mutex,    *)
(* from a checkpoint that ensure_model fetches to the network volume all   *)
(* workers share.  The download tool leaves a whole file alone.            *)
(***************************************************************************)
EXTENDS Naturals, FiniteSets

CONSTANTS
    SWorker,       \* worker processes
    Deployments,   \* which workers run, which of them with MUSIC3_FORCE_REDOWNLOAD=1, and
                   \* whether a download may end with a damaged file of the right size
    MaxServers,    \* bound: server processes a worker has started
    MaxSFaults     \* bound: failed downloads, corrupt files, dead servers and killed containers

\* A worker that is told to download again, or one on a volume where a download may
\* be damaged, runs alone
ServerAssumption ==
    /\ \A d \in Deployments :
         /\ d \in [up : SUBSET SWorker, forced : SUBSET SWorker, damage : BOOLEAN]
         /\ \A w \in d.forced : d.up = {w}
         /\ d.damage => \E w \in SWorker : d.up = {w}
    /\ MaxServers \in Nat /\ MaxSFaults \in Nat

VARIABLES
    deploy,   \* the deployment
    vol,      \* the volume: marker, flowmatching_vae.pth, the rest of the snapshot
    spc,      \* <<who holds g_server_mutex, place>> of each worker
    server,   \* the process of g_server_pid, and how many others still run
    sfaults,
    begun     \* auxiliary: a server was started without its checkpoint

serverVars == <<deploy, vol, spc, server, sfaults, begun>>

Whole(v) == v.flow = "good" /\ v.rest
Unlocked == <<"nobody", "idle">>
NoServer == [pid |-> "none", answers |-> FALSE, others |-> 0]

MServerInit ==
    /\ deploy \in Deployments
    /\ vol \in [marker : {FALSE}, flow : {"none", "short", "bad", "good"}, rest : BOOLEAN]
    /\ spc = [w \in SWorker |-> Unlocked] /\ server = [w \in SWorker |-> NoServer]
    /\ sfaults = 0 /\ begun = FALSE

At(w, place) == spc[w][2] = place
SGoto(w, place) == spc' = [spc EXCEPT ![w][2] = place]
Return(w) == spc' = [spc EXCEPT ![w] = Unlocked]
Fault == sfaults < MaxSFaults /\ sfaults' = sfaults + 1

-----------------------------------------------------------------------------
(* start_server                                                            *)

\* A process that does not answer /health in two seconds is taken for no server
StartServer(w, who) ==
    /\ w \in deploy.up /\ spc[w] = Unlocked
    /\ server[w].others + 1 < MaxServers
    /\ ~(server[w].pid = "runs" /\ server[w].answers)
    /\ spc' = [spc EXCEPT ![w] = <<who, "marker">>]
    /\ UNCHANGED <<deploy, vol, server, sfaults, begun>>

(* ensure_model *)
CheckMarker(w) ==
    /\ At(w, "marker")
    /\ SGoto(w, IF vol.marker THEN "fork" ELSE "size")
    /\ UNCHANGED <<deploy, vol, server, sfaults, begun>>
\* The digest is looked at if the size is right
CheckFlow(w) ==
    /\ At(w, "size")
    /\ \/ vol.flow # "bad" /\ SGoto(w, "again")
       \/ vol.flow = "bad" /\ w \notin deploy.forced /\ Return(w)
       \/ vol.flow = "bad" /\ w \in deploy.forced /\ SGoto(w, "unlink")
    /\ UNCHANGED <<deploy, vol, server, sfaults, begun>>
UnlinkFlow(w) ==
    /\ At(w, "unlink")
    /\ vol' = [vol EXCEPT !.flow = "none"]
    /\ SGoto(w, "again")
    /\ UNCHANGED <<deploy, server, sfaults, begun>>
\* The second look is at the size alone
CheckSize(w) ==
    /\ At(w, "again")
    /\ SGoto(w, IF vol.flow \in {"good", "bad"} THEN "rest" ELSE "download")
    /\ UNCHANGED <<deploy, vol, server, sfaults, begun>>
Download(w) ==
    /\ At(w, "download")
    /\ vol' = [vol EXCEPT !.flow = "good"]
    /\ SGoto(w, "verify")
    /\ UNCHANGED <<deploy, server, sfaults, begun>>
\* The tool gives up, or ends with a file that is cut short or damaged
DownloadFails(w) ==
    /\ At(w, "download") /\ Fault
    /\ \/ Return(w) /\ UNCHANGED vol
       \/ vol.flow # "good" /\ \E f \in {"short"} \cup (IF deploy.damage THEN {"bad"} ELSE {}) : vol' = [vol EXCEPT !.flow = f] /\ SGoto(w, "verify")
    /\ UNCHANGED <<deploy, server, begun>>
\* Seeded fault: the size is checked after the download, the digest is not
VerifyFlow_Size(w) ==
    /\ At(w, "verify")
    /\ IF vol.flow \in {"good", "bad"} THEN SGoto(w, "rest") ELSE Return(w)
    /\ UNCHANGED <<deploy, vol, server, sfaults, begun>>
VerifyFlow(w) ==
    /\ At(w, "verify")
    /\ IF vol.flow = "good" THEN SGoto(w, "rest") ELSE Return(w)
    /\ UNCHANGED <<deploy, vol, server, sfaults, begun>>
Snapshot(w) ==
    /\ At(w, "rest")
    /\ vol' = [vol EXCEPT !.rest = TRUE]
    /\ SGoto(w, "write")
    /\ UNCHANGED <<deploy, server, sfaults, begun>>
SnapshotFails(w) ==
    /\ At(w, "rest") /\ Fault
    /\ Return(w)
    /\ UNCHANGED <<deploy, vol, server, begun>>
WriteMarker(w) ==
    /\ At(w, "write")
    /\ vol' = [vol EXCEPT !.marker = TRUE]
    /\ SGoto(w, "fork")
    /\ UNCHANGED <<deploy, server, sfaults, begun>>

\* Prefetched, forked; the process g_server_pid named before is forgotten, not ended
ForkServer(w) ==
    /\ At(w, "fork")
    /\ server' = [server EXCEPT ![w] = [pid |-> "runs", answers |-> FALSE,
                                        others |-> @.others + (IF @.pid = "runs" THEN 1 ELSE 0)]]
    /\ begun' = (begun \/ ~Whole(vol))
    /\ SGoto(w, "wait")
    /\ UNCHANGED <<deploy, vol, sfaults>>
\* health() answers, also when it is a forgotten process that does
ServerUp(w) ==
    /\ At(w, "wait")
    /\ server' = [server EXCEPT ![w].answers = TRUE]
    /\ Return(w)
    /\ UNCHANGED <<deploy, vol, sfaults, begun>>
\* The child ends before it answers, or is ended when the time is up
ServerFails(w) ==
    /\ At(w, "wait") /\ Fault
    /\ server' = [server EXCEPT ![w].pid = "none", ![w].answers = FALSE]
    /\ Return(w)
    /\ UNCHANGED <<deploy, vol, begun>>

-----------------------------------------------------------------------------
(* Faults                                                                  *)

ServerDies(w) ==
    /\ server[w].pid = "runs" /\ server[w].answers /\ Fault
    /\ server' = [server EXCEPT ![w].pid = "dead", ![w].answers = FALSE]
    /\ UNCHANGED <<deploy, vol, spc, begun>>
ServerStalls(w) ==
    /\ server[w].pid = "runs" /\ server[w].answers /\ Fault
    /\ server' = [server EXCEPT ![w].answers = FALSE]
    /\ UNCHANGED <<deploy, vol, spc, begun>>
SCrash(w) ==
    /\ w \in deploy.up /\ Fault
    /\ server' = [server EXCEPT ![w] = NoServer]
    /\ Return(w)
    /\ UNCHANGED <<deploy, vol, begun>>

MServerNext ==
    \E w \in SWorker :
      \/ \E who \in {"warm", "job"} : StartServer(w, who)
      \/ CheckMarker(w) \/ CheckFlow(w) \/ UnlinkFlow(w) \/ CheckSize(w) \/ Download(w) \/ DownloadFails(w) \/ VerifyFlow(w)
      \/ Snapshot(w) \/ SnapshotFails(w) \/ WriteMarker(w) \/ ForkServer(w) \/ ServerUp(w) \/ ServerFails(w)
      \/ ServerDies(w) \/ ServerStalls(w) \/ SCrash(w)
MServerSpec == MServerInit /\ [][MServerNext]_serverVars

-----------------------------------------------------------------------------
(* Properties                                                              *)

\* "Checkpoint is fully local at this point": no server is started from a checkpoint
\* that is missing, cut short or damaged, though the marker that says so is read long
\* after another worker, perhaps killed since, wrote it (ensure_model, start_server_locked).
CheckpointLocal == ~begun
=============================================================================
