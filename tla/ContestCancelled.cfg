\* Does a cancelled contest stay cancelled?
SPECIFICATION Spec
CHECK_DEADLOCK FALSE
CONSTANTS
    Users = {u1, u2}
    Requests = {r1, r2}
    None = None
    Creations <- MCCreations
    Updates <- MCUpdates
    StatusUpdates <- MCStatusUpdates
    MinDuration = 1
    MaxDuration = 2
    Horizon = 5
    MaxRequests = 3
PROPERTY
    CancelledIsFinal
