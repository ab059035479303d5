\* The same with two contents: a row changes with or without its title.
CONSTANTS
    Workers = {w1, w2}
    Titles = {t1, t2}
    Contents = {c1, c2}
    Tags = {g1}
    NoRow = NoRow
    NotGiven = NotGiven
    MaxId = 2
    MaxTransactions = 3
    MaxTests = 1
SPECIFICATION Spec
SYMMETRY Symmetry
INVARIANTS
    TypeOK
    TablesAreConsistent
    EventsFollowTable
