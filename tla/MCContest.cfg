\* Two users and two requests at a time, up to four requests.
SPECIFICATION Spec
CONSTANTS
    Users = {u1, u2}
    Requests = {r1, r2}
    None = None
    Creations <- MCCreations
    Updates <- MCUpdates
    StatusUpdates <- MCStatusUpdates
    MinDuration = 1
    MaxDuration = 2
    Horizon = 5
    MaxRequests = 4
INVARIANTS
    TypeOK
    ContestIsConsistent
PROPERTIES
    RegistrationIsLegal
