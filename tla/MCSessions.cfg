\* One account, two requests in flight; the browser may miss answers, so that a
\* newer pair than its own can exist.
CONSTANTS
    Emails = {e1}
    Browsers = {b1}
    Handlers = {h1, h2}
    NoUser = NoUser
    MaxTokens = 3
    MaxVersion = 1
    MaxEdits = 1
    e1 = e1
    b1 = b1
    h1 = h1
    h2 = h2
SPECIFICATION Spec
SYMMETRY Symmetry
INVARIANTS
    TypeOK
    SpentOnce
    LogoutEndsSessions
    ProfileIsLastEdit
PROPERTIES
    RevokedStaysRevoked
