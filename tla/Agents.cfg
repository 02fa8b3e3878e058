SPECIFICATION Spec
CONSTANTS
    a = a
    b = b
    k = k
    chat = chat
    Groups = {a, b, k}
    Founders = {a, b}
    Channels = {chat}
    NoGroup = NoGroup
    Sessions = {1, 2, 3, 4}
    GroupOf <- MCGroupOf
    Opened = {1, 2}
    System = {1}
    MaxMessages = 3
    MaxOps = 3
    MaxFaults = 1
    Budgets <- MCBudgets
INVARIANT IInv
PROPERTY ReplyReturns
CHECK_DEADLOCK FALSE
