SPECIFICATION WFairSpec
CONSTANTS
    Key = {1, 2}
    Worker = {w1, w2}
    Gpu = {g1}
    NoWorker = NoWorker
    NoGpu = NoGpu
    Priority <- MCPriority
    Kind <- MCKind
    Need <- MCNeed
    Mib = {1}
    KindSets <- MCKindSets
    Leases = {4}
    BusyS = 1
    MaxAttempts = 2
    GpuOf <- MCGpuOf
    LeaseSeconds = 4
    MaxFaults = 1
INVARIANTS RowsSound LeaseKept
PROPERTIES SucceededIsFinal JobSettles
