SPECIFICATION LanesSpec
CONSTANTS
    Thread = {a, b}
    Slots = 2
    Request <- MCRequest
    ActiveLimit = 1
    QueueLimit = 1
    Tenant = {a, b, c}
    Pid = {g}
    PidOf <- InGateway
    Reported = {}
    Gateway = g
    NLeases = 2
    NWaiters = 3
    Total = 3
    Keep = 1
    Ttl = 1
    JobLease = 1
    BlockMax = 0
    ForceTiers = {}
    Reserver = {}
    ReserveMb = {}
    WaitCap = 0
    Scratch = 0
    Idle = 0
    Renewing = FALSE
    NvmlFails = FALSE
INVARIANTS NothingLeaks AnsweredOnce
PROPERTIES LanesDrain 
