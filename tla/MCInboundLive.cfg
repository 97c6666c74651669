SPECIFICATION Spec
CONSTANTS
    Callers = {c1, c2}
    NoCaller = NoCaller
    MaxRequests = 1
    TimesOut = TRUE
PROPERTIES
    ImplementsPromise
    EveryRequestTaken
    HungUpLetGo
CHECK_DEADLOCK FALSE
