SPECIFICATION Spec
CONSTANTS
    None = None
    MaxTerminals = 3
    Attempts = 2
    MaxLists = 2
    MaxActs = 2
    MaxEvents = 1
INVARIANTS
    ListsInv
    NoFalseAlarm
PROPERTIES
    ListSettles
CHECK_DEADLOCK FALSE
