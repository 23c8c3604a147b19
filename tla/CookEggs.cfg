SPECIFICATION Spec
CONSTANTS
    Screen = {s1, s2}
    Orders <- OneOrder
    HalfMinute = 1
    MinTime <- BelowZero
    MaxTime = 7
    MaxTimers = 2
    None = None
INVARIANTS
    TypeOK
    QuoteDrift
    PreparedBeforeTimed
PROPERTIES
    OnlyTopScreenSaves
    StopsWhenTimeIsUp
    LatestTimerStops
