\* Two sessions with a row each; the platform of one may never answer.
SPECIFICATION FairSpec
CONSTANTS
    chat = chat
    other = other
    Rows = {1, 2}
    Sessions = {chat, other}
    SessionOf <- OneEach
    Chats = {1}
    Unroutable = {}
    TaskSessions = {}
    Origins = {}
    Hanging = {other}
    MaxAttempts = 2
    MaxFaults = 1
PROPERTIES
    SettledWhileRunning
