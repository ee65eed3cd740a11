SPECIFICATION SizesSpec
CONSTANTS
    Views = {1, 2}
    Rooms = {1, 2}
    None = None
    InvalidLimit = 2
    MaxLayouts = 2
    MaxLosses = 1
CHECK_DEADLOCK FALSE
INVARIANT SmallestClaimed
