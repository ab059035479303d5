\* One leaderboard-service process, as deployed; up to two faults.
SPECIFICATION FairSpec
CONSTANTS
    u1 = u1
    u2 = u2
    p1 = p1
    p2 = p2
    n1 = n1
    n2 = n2
    j1 = j1
    j2 = j2
    j3 = j3
    j4 = j4
    None = None
    Users = {u1, u2}
    Problems = {p1, p2}
    Names = {n1, n2}
    Jobs = {j1, j2, j3, j4}
    Workers = {w1}
    Payload <- MCPayload
    Attempts = 1
    MaxStalls = 1
    MaxFaults = 2
    LockLoss = FALSE
INVARIANTS
    TypeOK
    RowAddsUp
    RankingIsCurrent
PROPERTIES
    RefinesScoreboard
    EveryJobCounts
