\* A scripted task and an on_wake row, one row per prompt so that one hides the
\* other; two faults: retries, give-ups, limits, restarts,
\* and under fairness every task row is settled.
SPECIFICATION FairSpec
CONSTANTS
    chat = chat
    task = task
    note = note
    wake = wake
    clear = clear
    Msgs = {task, wake}
    Trigger = {task, wake}
    OnWake = {wake}
    Commands = {}
    Clears = {}
    Scripted = {task}
    MaxTries = 1
    MaxPerPrompt = 1
    MaxFaults = 2
PROPERTIES
    FailureJustified
    ChargedOnlyWhenDead
    ImplementsQueue
    Settles
