SPECIFICATION SafeSpec
CONSTANTS
    Callers = {c1, c2}
    NoCaller = NoCaller
    MaxRequests = 2
    TimesOut = TRUE
SYMMETRY Symmetry
INVARIANTS
    TypeOK
    AnswersInOrder
    NoAnswerSwallowed
    BusyWhileHeld
    NothingStranded
    LastIsLast
CHECK_DEADLOCK FALSE
