SPECIFICATION ServicesSpec
CONSTANTS
    ImgThread = {t1, t2}
    ImgKey = {"ka", "kb"}
    ImgLen <- TwoAndOne
    CacheSlots = 2
    CacheMax = 2
    MaxSwitches = 2
    MaxImages = 3
    GuardThread = {t1, t2}
    Windows <- SevenWindows
    CatOn <- AllOn
    Category = {1, 2}
    JudgeSlots = 2
    AdmitTicks = 1
    MaxClassify = 3
    ga = ga
    gb = gb
    Owner = {ga, gb}
    Ranked <- AThenB
    ResidentMb <- FourEach
    StreamMb <- OneEach
    SavedMs <- BTwice
    Total = 7
    Others = {0, 1}
    keep_free_mb = 1
    hysteresis_mb = 1
    min_hold = 2
    idle_release = 1
    claim_ttl = 1
    reserve_idle = 1
    MaxBackoff = 1
    MaxClaims = 2
    Weight = 2
    MaxDemand = 2
    MaxTicks = 2
    MaxReports = 2
    MWorker = {t1, t2}
    MJob = {"j1", "j3"}
    MKey = {"ka", "kb"}
    KeyOf <- ThirdApart
    CacheEntries = 1
    Retries = 0
    Grace = 2
    MaxMCrashes = 1
    SWorker = {t1, t2}
    Deployments <- SoundOrForced
    MaxServers = 2
    MaxSFaults = 2
    Said <- Words
    Thought <- Musings
    TextReqs <- FiveReqs
    MaxNew = 6
SYMMETRY Symmetry
CHECK_DEADLOCK FALSE
INVARIANTS    CheckpointLocal 
PROPERTIES HoldRespected
