SPECIFICATION Spec
CONSTANTS
    Tenant = {a, b}
    Pid = {a, b, g}
    PidOf <- OwnPid
    Reported = {a, b}
    Gateway = g
    Request <- MCLarge
    NLeases = 2
    NWaiters = 2
    Total = 5
    Keep = 4
    Ttl = 2
    JobLease = 2
    BlockMax = 1
    ForceTiers = {}
    Reserver = {}
    ReserveMb = {}
    WaitCap = 2
    Scratch = 0
    Idle = 0
    Renewing = FALSE
    NvmlFails = FALSE
INVARIANT NoOvercommit
