\* A submission that does not compile: are there results of tests?
SPECIFICATION BatchSpec
CHECK_DEADLOCK FALSE
CONSTANTS
    MaxTests = 2
    MAX_RETRIES = 3
    Answers <- MCAnswers
    NoResult = NoResult
INVARIANT
    CompilationErrorHasNoResults
