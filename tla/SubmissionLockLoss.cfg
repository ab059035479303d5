\* Does the idempotency check hold when a slow worker loses its job's lock?
SPECIFICATION Spec
CONSTANTS
    Ids = {s1}
    Workers = {w1, w2}
    None = None
    Verdicts <- MCVerdicts
    Attempts = 3
    MaxStalls = 1
    MaxFaults = 0
    LockLoss = TRUE
INVARIANT
    SingleProcessing
