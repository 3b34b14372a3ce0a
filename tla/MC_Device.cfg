SPECIFICATION DeviceSpec
CONSTANTS
    Tenant = {a, b}
    Pid = {g}
    PidOf <- InGateway
    Reported = {}
    Gateway = g
    Request <- MCCalls
    NLeases = 2
    NWaiters = 1
    Total = 5
    Keep = 4
    Ttl = 1
    JobLease = 1
    BlockMax = 1
    ForceTiers = {3}
    Reserver = {o}
    ReserveMb = {0, 1}
    WaitCap = 2
    Scratch = 1
    Idle = 1
    Renewing = TRUE
    NvmlFails = TRUE
    Chat = {c1, c2, c3}
    Window = {w1}
    Hook = {h1}
    Admin = {a1}
    None = None
    Slots = 2
    Model = {boot, alt}
    Boot = boot
SYMMETRY Symmetry
INVARIANTS NoOvercommit TablesSound WindowKept NothingStranded
PROPERTIES EndsByHolderOrTtl GenerationKeepsModel
