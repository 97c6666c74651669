SPECIFICATION Spec
CONSTANTS
    Senders = {s1, s2}
    Targets <- Both
    MaxAsks = 1
    Links = {l1, l2}
    NoLink = NoLink
    SenderTimesOut = FALSE
    LocationTimesOut = FALSE
PROPERTIES
    EveryPostEnds
    FarEndAsAssumed
CHECK_DEADLOCK FALSE
