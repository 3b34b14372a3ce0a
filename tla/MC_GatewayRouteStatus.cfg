SPECIFICATION RouteSpec
CONSTANTS
    Worker = {w1, w2}
    Slots = 2
    Query <- Polls
    Configured = {"training"}
    Flags = {"secret"}
    Need <- MCNeed
    CompatPermits = 0
INVARIANT AdmittedFindsModel
