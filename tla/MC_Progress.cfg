SPECIFICATION ProgressSpec
CONSTANTS
    Thread = {t1, t2, t3}
    NoThread = NoThread
    Slots = 2
    Request <- MCStarvation
    TimeoutS = 1
    BgTimeoutS = 0
    BgAgeS = 1
    Conn = {c1}
    Reactor = {t1}
    Worker = {t2}
    None = None
    Loopback = {}
    Fragment = {"get", "head"}
    MaxPending = 3
    InlineCap = 2
    MaxBuffer = 3
    HeapCap = 3
CHECK_DEADLOCK FALSE
PROPERTIES BackgroundServed RequestServed
