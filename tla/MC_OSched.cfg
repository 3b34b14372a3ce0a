SPECIFICATION Spec
CONSTANTS
    Thread = {t1, t2, t3}
    NoThread = NoThread
    Slots = 2
    Request <- MCRequest
    TimeoutS = 2
    BgTimeoutS = 3
    BgAgeS = 1
SYMMETRY Symmetry
INVARIANTS BooksAgree NoStrandedQueue
PROPERTIES ServiceOrder AgedNotOvertaken ImplementsAdmission
