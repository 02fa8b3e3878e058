\* One session, four faults, limits or commands.
SPECIFICATION FairSpec
CONSTANTS
    s1 = s1
    s2 = s2
    none = none
    Sessions = {s1}
    Group <- OwnGroup
    NoSession = none
    MaxFaults = 4
INVARIANTS
    IInv
PROPERTIES
    ForcedStays
    ImplementsFailover
    ProbeResolves
    ReturnsWhenRecovered
    WorkSettles
