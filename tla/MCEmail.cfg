\* Two mails, two workers, up to three deaths of a worker; two updates of the
\* user's preferences, each of one of two columns.
CONSTANTS
    Mails = {m1, m2}
    Workers = {w1, w2}
    None = None
    MaxStalls = 1
    MaxCrashes = 3
    Updates = {u1, u2}
    Changes <- MCChanges
    Texts = {"WEEKLY", "MONDAY"}
    m1 = m1
    m2 = m2
    w1 = w1
    w2 = w2
    u1 = u1
    u2 = u2
SPECIFICATION Spec
INVARIANTS
    TypeOK
    DeliveryIsTrue
    PreferencesAreKept
PROPERTIES
    QueuedIsSettled
