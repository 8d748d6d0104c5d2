SPECIFICATION FairSpec
CONSTANTS
    Jobs = {j1, j2}
    MaxAttempts = 2
    BatchSize = 1
    Digits = 1
    Fractions = {0, 5}
INVARIANTS
    TypeOK
    BatchFresh
PROPERTIES
    ImplementsJobQueue
    SettlesWhileRunning
