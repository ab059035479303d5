\* Two users and three submissions, one after the other.
SPECIFICATION Spec
SYMMETRY Symmetry
CONSTANTS
    p1 = p1
    p2 = p2
    None = None
    Users = {u1, u2}
    Problems = {p1, p2}
    Requests = {r1}
    Points = {0, 7}
    BasePoints <- MCBasePoints
    ContestLength = 5
    MaxRequests = 3
INVARIANT
    EarlierCompletionFirst
