SPECIFICATION Spec
CONSTANTS
    Clients = {c1, c2, m}
    Mute = {m}
    Slow = {m}
    NoClient = NoClient
    MaxAsks = 3
INVARIANTS
    TypeOK
    NoneStranded
PROPERTY EveryAskEnds
CHECK_DEADLOCK FALSE
