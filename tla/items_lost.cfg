SPECIFICATION Spec
CONSTANTS
    Codes = {1, 2}
    Callers = {c1, c2}
    Crashes = FALSE
INVARIANTS
    ChecklistProtected
