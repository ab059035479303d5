\* Does an attempt that failed reach Bull as a failure?
SPECIFICATION Spec
CONSTANTS
    Ids = {s1}
    Workers = {w1}
    None = None
    Verdicts <- MCVerdicts
    Attempts = 3
    MaxStalls = 1
    MaxFaults = 2
    LockLoss = FALSE
PROPERTY
    FailedAttemptIsRethrown
