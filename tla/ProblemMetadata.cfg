\* One transaction at a time.
CONSTANTS
    Workers = {w1}
    Titles = {t1, t2}
    Contents = {c1}
    Tags = {g1}
    NoRow = NoRow
    NotGiven = NotGiven
    MaxId = 2
    MaxTransactions = 3
    MaxTests = 1
SPECIFICATION Spec
PROPERTIES
    UpdatesAreIndexed
