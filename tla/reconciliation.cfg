SPECIFICATION Spec
CONSTANTS
    Shifts = {1, 2}
    Hour = 10
    CutoffHour = 4
    Offset <- MCOffset
    LeastOffset = 80
    GreatestOffset = 80
    Digits = 1
    Date = 1
    Limit = 1
    Windows <- MCWindows
    Instants = {203, 210, 213, 443}
    ZeroDistance = {1}
    None = None
INVARIANTS
    EveryRowOnce
    MismatchOnlyOutsideDay
    CountedWhereServed
PROPERTIES
    ReportsReturn
CHECK_DEADLOCK FALSE
