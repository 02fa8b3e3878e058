CONSTANTS
  code1 = code1
  code2 = code2
  Channels <- AllChannels
  Bundled <- MCBundled
  Codes <- MCCodes
  Chats <- MCChats
  Operator = "mine"
  NoChat = "nobody"
  MaxRegenerations = 1
  MaxRuns = 2
  MaxMishaps = 1
SYMMETRY CodesAreAlike
SPECIFICATION SetupSpec
INVARIANTS SetupInv AnnouncedIsReachable AnnouncedIsCurrent
CHECK_DEADLOCK FALSE
