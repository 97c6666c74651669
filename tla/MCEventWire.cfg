SPECIFICATION Spec
CONSTANTS
    Parties = {p1}
    Urls <- EitherUrl
    Tokens <- OneToken
    MaxEvents = 2
    MaxSends = 4
INVARIANTS
    NonePassedOver
    ReadBackAsPublished
CHECK_DEADLOCK FALSE
