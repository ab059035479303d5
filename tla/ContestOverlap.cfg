\* Is a problem scored once when a user submits before the last answer is in?
SPECIFICATION Spec
CONSTANTS
    p1 = p1
    p2 = p2
    None = None
    Users = {u1}
    Problems = {p1, p2}
    Requests = {r1, r2}
    Points = {0, 7}
    BasePoints <- MCBasePoints
    ContestLength = 5
    MaxRequests = 3
INVARIANT
    CountersAlwaysMatch
