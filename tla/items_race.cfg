SPECIFICATION Spec
CONSTANTS
    Codes = {1, 2, 3}
    Callers = {c1, c2}
    Crashes = TRUE
INVARIANTS
    TypeOK
    RecordedKept
    VerdictMatchesItems
PROPERTIES
    HeaderFinal
