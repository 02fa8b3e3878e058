CONSTANTS
    m1 = m1  m2 = m2  m3 = m3
    new = new  other = other
    stranger = stranger  known = known
    a1 = a1  a2 = a2
    Channels = {new, other}
    Agents = {a1, a2}
    Senders = {stranger, known}
    Messages = {m1, m2, m3}
    ChannelOf <- MCChannelOf
    SenderOf <- MCSenderOf
    Mentions = {m1, m3}
    Commands = {m3}
    Anonymous = {}
    Policy <- MCPolicy
    Mode <- MCMode
    FirstAgents = {a1}
    NoMessage = NoMessage
    NoChannel = NoChannel
    NoAgent = NoAgent
    MaxClicks = 3
    MaxFaults = 1
SPECIFICATION FairSpec
INVARIANTS IInv
PROPERTIES NoSideDoor ApprovedArrives
CHECK_DEADLOCK FALSE
