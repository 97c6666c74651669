SPECIFICATION Spec
CONSTANTS
    Senders = {s1}
    Targets <- EveryOffer
    Links = {l1, l2, l3}
    NoLink = NoLink
    MaxAsks = 2
    TimesOut = TRUE
    HasTls = TRUE
INVARIANTS
    VersionOffered
    NeverInTheClear
PROPERTY ImplementsExchange
CHECK_DEADLOCK FALSE
