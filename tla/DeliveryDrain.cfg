\* One session with three rows, one of them for an unknown destination: the drains of three callers, retries, the notice, a fault.
SPECIFICATION Spec
CONSTANTS
    chat = chat
    other = other
    Rows = {1, 2, 3}
    Sessions = {chat}
    SessionOf <- AllOfChat
    Chats = {1, 2}
    Unroutable = {2}
    TaskSessions = {chat}
    Origins = {chat}
    Hanging = {}
    MaxAttempts = 2
    MaxFaults = 2
INVARIANTS
    IInv
    SeenOnceUnlessUnheard
PROPERTIES
    OvertakesOnlyFailed
    ImplementsOutbox
    NoticeLostOnlyByFailure
