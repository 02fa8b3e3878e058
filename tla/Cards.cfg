SPECIFICATION FairSpec
CONSTANTS
    a1 = a1
    a2 = a2
    c1 = c1
    q1 = q1
    none = none
    Approvals = {a1}
    Credentials = {c1}
    Questions = {q1}
    NoCard = none
    MaxClicks = 2
    MaxFaults = 1
INVARIANTS
    IInv

PROPERTIES
    HoldsEnd
    GatewayAnswered
CHECK_DEADLOCK FALSE
