SPECIFICATION EnabledSpec
CONSTANTS
    MaxWrites = 1
    Capacity = 1
    Targets = {t1}
PROPERTY UnknownIsResolved
