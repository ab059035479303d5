\* Is a contest that is over ended by the transition, were it called periodically?
SPECIFICATION ScheduledSpec
CHECK_DEADLOCK FALSE
CONSTANTS
    Users = {u1, u2}
    Requests = {r1, r2}
    None = None
    Creations <- MCCreations
    Updates <- MCUpdates
    StatusUpdates <- MCStatusUpdates
    MinDuration = 1
    MaxDuration = 2
    Horizon = 5
    MaxRequests = 2
PROPERTY
    EndsByItself
