SPECIFICATION Spec
CONSTANTS
    Streams = {j1}
    Passwords <- Two
    User = "orders"
    MaxSends = 2
    Keys <- Awkward
    Printable <- Plain
INVARIANTS
    IdentifiedIfAdmitted
    PresentsAPassword
    KeyReadsBack
