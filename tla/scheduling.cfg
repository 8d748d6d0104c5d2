SPECIFICATION Spec
CONSTANTS
    MaxRows = 3
    Horizon = 4
    PageLimit = 2
    MaximumDuty = 3
    MinimumBreak = 2
CHECK_DEADLOCK FALSE
INVARIANTS
    VerdictIsReference
    RefusedForTheTarget
PROPERTIES
    CheckReturns
