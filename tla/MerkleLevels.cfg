CONSTANTS
    Datum = {x, y}
    MaxData = 9
SPECIFICATION Spec
CHECK_DEADLOCK FALSE
INVARIANT
    EveryLevelIsEven
