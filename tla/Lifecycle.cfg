SPECIFICATION Spec
CONSTANTS
    mine = mine
    late = late
    other = other
    Own = {mine}
    Late = {late}
    Others = {other}
    Settings <- MCSettings
    MaxRuns = 2
    MaxVersions = 2
    MaxAttempt = 3
    MaxFaults = 1
INVARIANT IInv
PROPERTY Orderly
CHECK_DEADLOCK FALSE
