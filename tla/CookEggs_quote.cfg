SPECIFICATION Spec
CONSTANTS
    Screen = {s1}
    Orders <- OneOrder
    HalfMinute = 1
    MinTime <- BelowZero
    MaxTime = 7
    MaxTimers = 1
    None = None
PROPERTIES
    SavesWhatItQuotes
