SPECIFICATION SafeSpec
CONSTANTS
    Senders = {s1, s2}
    Targets <- One
    Links = {l1, l2, l3}
    NoLink = NoLink
    MaxAsks = 2
    TimesOut = TRUE
    HasTls = TRUE
SYMMETRY Symmetry
INVARIANTS
    TypeOK
    AnswerIsOwn
    NothingPending
    Bounded
CHECK_DEADLOCK FALSE
