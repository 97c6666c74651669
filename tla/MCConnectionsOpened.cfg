SPECIFICATION SafeSpec
CONSTANTS
    Senders = {s1, s2}
    Targets <- One
    Links = {l1, l2, l3}
    NoLink = NoLink
    MaxAsks = 2
    TimesOut = TRUE
    HasTls = TRUE
SYMMETRY Symmetry
INVARIANT OneOpenedPerEndpoint
CHECK_DEADLOCK FALSE
