SPECIFICATION Spec
CONSTANTS
    Posted = {j1}
    Forwarded = {e0}
    Hooked = {}
    MaxSends = 3
    Honors = TRUE
INVARIANTS
    TypeOK
    SentIsInCustody
    RefusedOnlyByVerdict
    TakenOnce
CHECK_DEADLOCK FALSE
