SPECIFICATION GatewaySpec
CONSTANTS
    Producer = {a1, a2}
    RingSlots = 2
    Wrap = 6
    FileCap = 2
    BatchCap = 2
    Keep = 2
    Starts = {0, 4}
    MaxRequests = 3
    AuthThread = {a1, a2}
    Cred = {"x"}
    HashOf <- OneSlot
    OkTtl = 1
    DenyTtl = 1
    StaleTtl = 2
    ModeTtl = 2
    Modes = {"off", "shadow", "enforce", "none"}
    MaxTime = 4
    NLanes = 2
    NInstances = 2
    TierList = {"paid", "sub", "background", "pro"}
    UpDepth = 1
    MaxInstances = 2
    MaxSpend = 4
    Price = 2
    Revenue = 1
    Margin = 1
    HourCap = 2
    Cooldown = 1
    IdleLimit = 1
    InstanceTtl = 3
    Poll = 1
    WarmTime = 1
    MaxDepth = 1
    Worker = {w1, w2, w3}
    Slots = 2
    Configured = {"aux", "threed", "training", "image", "art", "birefnet", "music"}
    Flags = {"chat_compat", "secret", "siblings"}
    CompatPermits = 0
    Conn = {"c1"}
    Reactor = {a1, a2}
    HttpWorker = {h1}
    None = None
    Loopback = {}
    Fragment = {"get", "head"}
    MaxPending = 3
    InlineCap = 2
    MaxBuffer = 3
    HeapCap = 3
SYMMETRY Symmetry
CHECK_DEADLOCK FALSE
INVARIANTS LogFaithful VerdictsExpire RentBounded AdmittedFindsModel HopNeverWaitsForHops ConnectionsSound
PROPERTY SweepSparesRequests
