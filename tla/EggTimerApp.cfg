SPECIFICATION Spec
CONSTANTS
    Sizes = {"Small", "Medium"}
    Kinds = {"Soft"}
    Screen = {s1}
    HalfMinute = 1
    MinTime = 4
    MaxTime = 9
    MaxTimers = 1
    None = None
INVARIANTS
    CooksTheOrder
PROPERTIES
    SavesForTheOrder
    ImplementsSelection
    ImplementsCooking
