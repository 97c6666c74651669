SPECIFICATION SafeSpec
CONSTANTS
    Senders = {s1, s2}
    Targets <- One
    MaxAsks = 2
    Links = {l1, l2}
    NoLink = NoLink
    SenderTimesOut = TRUE
    LocationTimesOut = TRUE
SYMMETRY Symmetry
INVARIANTS
    OneConnectionEach
    OnlyOwnVerdict
PROPERTY FarEndAsAssumed
CHECK_DEADLOCK FALSE
