\* Two problems, two titles, two transactions at a time, with and without the
\* one tag; the title stands for every column of a row.
CONSTANTS
    Workers = {w1, w2}
    Titles = {t1, t2}
    Contents = {c1}
    Tags = {g1}
    NoRow = NoRow
    NotGiven = NotGiven
    MaxId = 2
    MaxTransactions = 3
    MaxTests = 1
SPECIFICATION Spec
SYMMETRY Symmetry
INVARIANTS
    TypeOK
    TablesAreConsistent
    EventsFollowTable
