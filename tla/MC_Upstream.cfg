SPECIFICATION UpstreamSpec
CONSTANTS
    Caller = {c1, c2, c3}
    FailureLimit = 1
    BaseCooldown = 2
    MaxCooldown = 3
    Stall = 1
    MaxTime = 5
    Worker = {w1, w2}
    Fd = {f1, f2}
    NoFd = NoFd
    MaxIdle = 1
    MaxRequests = 3
SYMMETRY Symmetry
CHECK_DEADLOCK FALSE
INVARIANTS BackoffHonoured WindowSound RelaySound
