\* One series: two failures in a row pause it; two commands or mishaps.  Every
\* task has a script, which may let the run pass: one without does nothing else.
SPECIFICATION SeriesFairSpec
CONSTANTS
    MaxRows = 3
    Cap = 2
    MaxTries = 1
    Scripts = {TRUE}
    MaxEvents = 2
INVARIANTS
    SeriesInv
    AutoPaused
PROPERTIES
    Fires
    Collected
CHECK_DEADLOCK FALSE
