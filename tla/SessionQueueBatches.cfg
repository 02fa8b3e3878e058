\* A chat row, a context-only row and /clear; two rows per prompt; one fault:
\* batches and follow-ups.
SPECIFICATION Spec
CONSTANTS
    chat = chat
    task = task
    note = note
    wake = wake
    clear = clear
    Msgs = {note, chat, clear}
    Trigger = {chat, clear}
    OnWake = {}
    Commands = {clear}
    Clears = {clear}
    Scripted = {}
    MaxTries = 1
    MaxPerPrompt = 2
    MaxFaults = 1
INVARIANTS
    IInv
    SingleContainer
    NoInvisibleWork
    NoDoubleWork
PROPERTIES
    SettledIsFinal
