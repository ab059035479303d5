\* Up to four tests, nine kinds of answer.
SPECIFICATION BatchSpec
CHECK_DEADLOCK FALSE
CONSTANTS
    MaxTests = 4
    MAX_RETRIES = 3
    Answers <- MCAnswers
    NoResult = NoResult
INVARIANTS
    BatchTypeOK
    VerdictMatchesTests
    VerdictIsFirstCause
