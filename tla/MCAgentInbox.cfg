SPECIFICATION InboxSpec
CONSTANTS
    Terminals = {1}
    None = None
    MaxClock = 3
    QueueLimit = 1
    MaxBreaks = 1
    MaxClicks = 1
INVARIANTS
    InboxInv
    
PROPERTIES
    ListensAgain
CHECK_DEADLOCK FALSE
