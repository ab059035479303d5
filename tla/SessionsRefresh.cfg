\* One account, one browser, one request at a time.
CONSTANTS
    Emails = {e1}
    Browsers = {b1}
    Handlers = {h1}
    NoUser = NoUser
    MaxTokens = 3
    MaxVersion = 1
    MaxEdits = 1
    e1 = e1
    b1 = b1
    h1 = h1
SPECIFICATION Spec
INVARIANTS
    RefreshedSessionContinues
