\* A failed Judge0 call: is it made again?
SPECIFICATION BatchSpec
CHECK_DEADLOCK FALSE
CONSTANTS
    MaxTests = 2
    MAX_RETRIES = 3
    Answers <- MCAnswers
    NoResult = NoResult
INVARIANT
    FailedCallIsRetried
