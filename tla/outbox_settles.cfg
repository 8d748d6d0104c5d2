SPECIFICATION FairSpec
CONSTANTS
    Jobs = {j1}
    MaxAttempts = 2
    BatchSize = 1
    Digits = 1
    Fractions = {0, 5}
PROPERTIES
    EveryJobSettles
