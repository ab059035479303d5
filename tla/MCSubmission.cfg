\* Two submissions, two workers, up to four faults; locks are never lost.
SPECIFICATION FairSpec
CONSTANTS
    Ids = {s1, s2}
    Workers = {w1, w2}
    None = None
    Verdicts <- MCVerdicts
    Attempts = 2
    MaxStalls = 1
    MaxFaults = 4
    LockLoss = FALSE
INVARIANTS
    TypeOK
    SingleProcessing
    AnnouncedVerdictIsStored
    NoneForgotten
PROPERTIES
    StruckIsNeverJudged
    RefinesLifecycle
    Settles
