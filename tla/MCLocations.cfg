SPECIFICATION Spec
CONSTANTS
    Receives = {l1, l2}
    Hosts <- Machine
    Ports <- WellKnown
PROPERTIES
    AddressesMeet
    NeverMetInTheClear
CHECK_DEADLOCK FALSE
