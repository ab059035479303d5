\* Every test died: is the verdict RUNTIME_ERROR?
SPECIFICATION BatchSpec
CHECK_DEADLOCK FALSE
CONSTANTS
    MaxTests = 2
    MAX_RETRIES = 3
    Answers <- MCAnswers
    NoResult = NoResult
INVARIANT
    RuntimeErrorIsReported
