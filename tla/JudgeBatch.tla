----------------------------- MODULE JudgeBatch -----------------------------
(***************************************************************************)
(* execution-service: Judge0Service.batchExecute, which runs a submission  *)
(* against every test of the problem, one Judge0 call after the other, and *)
(* derives the verdict from what it collected on the way.                  *)
(*                                                                         *)
(* An answer of Judge0 is [id, description, match]: the status id, the     *)
(* class of its description, and whether the trimmed stdout is the trimmed *)
(* expected output.  A call that fails (refused, timed out, 4xx, 5xx, or   *)
(* an answer that cannot be read) is the answer Failure.                   *)
(***************************************************************************)
EXTENDS Naturals, Sequences, FiniteSets

CONSTANTS
    MaxTests,       \* bound: test cases of the problem
    MAX_RETRIES,    \* calls executeCodeWithRetry makes for one test at most
    Answers,        \* what Judge0 may answer
    NoResult        \* no result yet

Descriptions == {"Time Limit Exceeded", "Memory Limit Exceeded", "Runtime", "Other"}

ExecutionResult == [success : BOOLEAN, status : Descriptions,
                    compilationError : BOOLEAN, runtimeError : BOOLEAN,
                    match : BOOLEAN]

TestStatuses == {"PASSED", "FAILED", "COMPILATION_ERROR", "TIME_LIMIT_EXCEEDED",
                 "MEMORY_LIMIT_EXCEEDED", "RUNTIME_ERROR"}
BatchVerdicts == {"ACCEPTED", "WRONG_ANSWER", "TIME_LIMIT_EXCEEDED",
                  "MEMORY_LIMIT_EXCEEDED", "RUNTIME_ERROR", "COMPILATION_ERROR"}

ASSUME JudgeBatchAssumption ==
    /\ MaxTests \in Nat \ {0} /\ MAX_RETRIES \in Nat \ {0}
    /\ Answers \subseteq [id : Nat, description : Descriptions, match : BOOLEAN]
    /\ NoResult \notin ExecutionResult \cup BatchVerdicts

VARIABLES
    testCases,          \* number of test cases (at least one, see processSubmission)
    stage,              \* "call", "record", "decide" or "done"
    calls,              \* calls made for the current test
    result,             \* what executeCodeWithRetry returned for it
    testResults,        \* status recorded for each test done
    passedCount,
    compilationError,   \* is the variable of that name set?
    runtimeError,       \* is the variable of that name set?
    firstRuntimeError,
    submissionStatus,
    answers             \* history: the answer each result came from

errorVars == <<compilationError, runtimeError, firstRuntimeError>>
batchVars == <<testCases, stage, calls, result, testResults, passedCount, errorVars,
               submissionStatus, answers>>

STATUS_CODES == [ACCEPTED |-> 3, COMPILATION_ERROR |-> 6, RUNTIME_ERROR |-> 7,
                 SEGMENTATION_FAULT |-> 12]

\* No id at all, and a status that is none of the descriptions looked for.
Failure == [id |-> 0, description |-> "Other", match |-> FALSE]

BatchTypeOK ==
    /\ testCases \in 1 .. MaxTests
    /\ stage \in {"call", "record", "decide", "done"}
    /\ calls \in 0 .. MAX_RETRIES
    /\ result \in ExecutionResult \cup {NoResult}
    /\ testResults \in Seq(TestStatuses) /\ Len(testResults) <= testCases
    /\ passedCount \in 0 .. testCases
    /\ {compilationError, runtimeError, firstRuntimeError} \subseteq BOOLEAN
    /\ submissionStatus \in BatchVerdicts \cup {NoResult}
    /\ answers \in Seq(Answers \cup {Failure})

BatchInit ==
    /\ testCases \in 1 .. MaxTests
    /\ stage = "call"
    /\ calls = 0
    /\ result = NoResult
    /\ testResults = <<>>
    /\ passedCount = 0
    /\ compilationError = FALSE
    /\ runtimeError = FALSE
    /\ firstRuntimeError = FALSE
    /\ submissionStatus = NoResult
    /\ answers = <<>>
-----------------------------------------------------------------------------
parseJudge0Response(answer) ==
    [success |-> answer.id = STATUS_CODES.ACCEPTED,
     status |-> answer.description,
     compilationError |-> answer.id = STATUS_CODES.COMPILATION_ERROR,
     runtimeError |-> answer.id \in {STATUS_CODES.RUNTIME_ERROR,
                                     STATUS_CODES.SEGMENTATION_FAULT},
     match |-> answer.match]

(***************************************************************************)
(* One call.  executeCode turns every error of the call into a result, and *)
(* every language of the DTO is mapped, so the retry loop around it never  *)
(* sees an exception: it returns after the first call.                     *)
(***************************************************************************)
executeCode(answer) ==
    /\ stage = "call"
    /\ calls' = calls + 1
    /\ result' = parseJudge0Response(answer)
    /\ answers' = Append(answers, answer)
    /\ stage' = "record"
    /\ UNCHANGED <<testCases, testResults, passedCount, errorVars, submissionStatus>>

IsRuntime(res) == res.runtimeError \/ res.status = "Runtime"

TestStatus(res) ==
    IF res.compilationError THEN "COMPILATION_ERROR"
    ELSE IF res.status = "Time Limit Exceeded" THEN "TIME_LIMIT_EXCEEDED"
    ELSE IF res.status = "Memory Limit Exceeded" THEN "MEMORY_LIMIT_EXCEEDED"
    ELSE IF IsRuntime(res) THEN "RUNTIME_ERROR"
    ELSE IF res.success /\ res.match THEN "PASSED"
    ELSE "FAILED"

\* Mutant: the call counter lives outside the loop over the tests.
RecordKeepsCalls ==
    /\ stage = "record"
    /\ compilationError' =
        (compilationError \/ (testResults = <<>> /\ result.compilationError))
    /\ testResults' = Append(testResults, TestStatus(result))
    /\ passedCount' = passedCount + (IF TestStatus(result) = "PASSED" THEN 1 ELSE 0)
    /\ result' = NoResult
    /\ stage' = IF Len(testResults) + 1 < testCases THEN "call" ELSE "decide"
    /\ UNCHANGED <<testCases, calls, runtimeError, firstRuntimeError,
                   submissionStatus, answers>>

\* Mutant: every runtime error overwrites the one before.
RecordLastError ==
    /\ stage = "record"
    /\ compilationError' =
        (compilationError \/ (testResults = <<>> /\ result.compilationError))
    /\ testResults' = Append(testResults, TestStatus(result))
    /\ IF TestStatus(result) = "RUNTIME_ERROR"
       THEN runtimeError' = result.runtimeError /\ firstRuntimeError' = TRUE
       ELSE UNCHANGED <<runtimeError, firstRuntimeError>>
    /\ passedCount' = passedCount + (IF TestStatus(result) = "PASSED" THEN 1 ELSE 0)
    /\ calls' = 0
    /\ result' = NoResult
    /\ stage' = IF Len(testResults) + 1 < testCases THEN "call" ELSE "decide"
    /\ UNCHANGED <<testCases, submissionStatus, answers>>

\* The rest of the loop body.
Record ==
    /\ stage = "record"
    /\ compilationError' = 
        (compilationError \/ (testResults = <<>> /\ result.compilationError))
    /\ testResults' = Append(testResults, TestStatus(result))
    /\ IF TestStatus(result) = "RUNTIME_ERROR" /\ ~firstRuntimeError
       THEN runtimeError' = result.runtimeError /\ firstRuntimeError' = TRUE
       ELSE UNCHANGED <<runtimeError, firstRuntimeError>>
    /\ passedCount' = passedCount + (IF TestStatus(result) = "PASSED" THEN 1 ELSE 0)
    /\ calls' = 0
    /\ result' = NoResult
    /\ stage' = IF Len(testResults) + 1 < testCases THEN "call" ELSE "decide"
    /\ UNCHANGED <<testCases, submissionStatus, answers>>

SomeTest(status) == \E k \in 1 .. Len(testResults) : testResults[k] = status

\* Mutant: limits are looked at only when no test passed.
SubmissionStatusLate ==
    IF compilationError THEN "COMPILATION_ERROR"
    ELSE IF runtimeError /\ passedCount < testCases THEN "RUNTIME_ERROR"
    ELSE IF passedCount > 0 THEN "ACCEPTED"
    ELSE IF SomeTest("TIME_LIMIT_EXCEEDED") THEN "TIME_LIMIT_EXCEEDED"
    ELSE IF SomeTest("MEMORY_LIMIT_EXCEEDED") THEN "MEMORY_LIMIT_EXCEEDED"
    ELSE "WRONG_ANSWER"

SubmissionStatus ==
    IF compilationError THEN "COMPILATION_ERROR"
    ELSE IF runtimeError /\ passedCount < testCases THEN "RUNTIME_ERROR"
    ELSE IF SomeTest("TIME_LIMIT_EXCEEDED") THEN "TIME_LIMIT_EXCEEDED"
    ELSE IF SomeTest("MEMORY_LIMIT_EXCEEDED") THEN "MEMORY_LIMIT_EXCEEDED"
    ELSE IF passedCount = testCases THEN "ACCEPTED"
    ELSE "WRONG_ANSWER"

Decide ==
    /\ stage = "decide"
    /\ submissionStatus' = SubmissionStatus
    /\ stage' = "done"
    /\ UNCHANGED <<testCases, calls, result, testResults, passedCount, errorVars, answers>>

BatchNext ==
    \/ \E answer \in Answers \cup {Failure} : executeCode(answer)
    \/ Record
    \/ Decide

BatchSpec == BatchInit /\ [][BatchNext]_batchVars
-----------------------------------------------------------------------------
(* Properties *)

(***************************************************************************)
(* What is stored agrees with itself: ACCEPTED exactly when every test is  *)
(* there and PASSED, WRONG_ANSWER only when every test was judged,         *)
(* `passed` counts the tests recorded PASSED, and a limit or a runtime     *)
(* error is the status of one of the tests.  Nothing is claimed of the     *)
(* results of a submission that did not compile: see                       *)
(* CompilationErrorHasNoResults.                                           *)
(***************************************************************************)
VerdictMatchesTests ==
    submissionStatus \notin {NoResult, "COMPILATION_ERROR"} =>
        /\ submissionStatus \in {"ACCEPTED", "WRONG_ANSWER"} => Len(testResults) = testCases
        /\ passedCount = Cardinality({k \in 1 .. Len(testResults) : testResults[k] = "PASSED"})
        /\ submissionStatus = "ACCEPTED"
               <=> \A k \in 1 .. testCases : k <= Len(testResults) /\ testResults[k] = "PASSED"
        /\ submissionStatus \notin {"ACCEPTED", "WRONG_ANSWER"}
               => SomeTest(submissionStatus)

(***************************************************************************)
(* The verdict as a function of Judge0's answers, whatever the order in    *)
(* which the loop met them: a compilation error of the first test, else a  *)
(* runtime error whose answer has one of the two ids that carry a text,    *)
(* else a time limit, else a memory limit, anywhere; this is the order of  *)
(* the chain in batchExecute.  Where the first test that died carries no   *)
(* text, only that the submission is not taken for a correct one: which    *)
(* verdict it should have is RuntimeErrorIsReported.                       *)
(***************************************************************************)
Ran(k) == answers[k].id # STATUS_CODES.COMPILATION_ERROR
Limit(k, text) == Ran(k) /\ answers[k].description = text
Died(k) ==
    /\ Ran(k)
    /\ answers[k].description \notin {"Time Limit Exceeded", "Memory Limit Exceeded"}
    /\ answers[k].description = "Runtime" \/ answers[k].id \in {7, 12}
Passed(k) == answers[k] \in [id : {3}, description : {"Other"}, match : {TRUE}]

VerdictIsFirstCause ==
    submissionStatus # NoResult =>
        LET tests == 1 .. testCases
            died == \E k \in tests : Died(k)
            diedWithText == \E k \in tests :
                /\ Died(k) /\ answers[k].id \in {7, 12}
                /\ \A h \in 1 .. k - 1 : ~Died(h)
            over(text) == \E k \in tests : Limit(k, text)
        IN  CASE ~Ran(1) -> submissionStatus = "COMPILATION_ERROR"
              [] Ran(1) /\ diedWithText -> submissionStatus = "RUNTIME_ERROR"
              [] Ran(1) /\ died /\ ~diedWithText
                    -> submissionStatus \notin {"ACCEPTED", "COMPILATION_ERROR"}
              [] Ran(1) /\ ~died /\ over("Time Limit Exceeded")
                    -> submissionStatus = "TIME_LIMIT_EXCEEDED"
              [] /\ Ran(1) /\ ~died
                 /\ ~over("Time Limit Exceeded") /\ over("Memory Limit Exceeded")
                    -> submissionStatus = "MEMORY_LIMIT_EXCEEDED"
              [] OTHER -> submissionStatus =
                    IF \A k \in tests : Passed(k) THEN "ACCEPTED" ELSE "WRONG_ANSWER"

(***************************************************************************)
(* "RUNTIME_ERROR: 7, // (NZEC)" and the test 'should handle runtime error *)
(* (RUNTIME_ERROR)': a submission each of whose tests is recorded as a     *)
(* runtime error has that verdict.  Judge0's id of NZEC is 11, which       *)
(* carries no text.                                                        *)
(***************************************************************************)
RuntimeErrorIsReported ==
    submissionStatus # NoResult /\ (\A k \in 1 .. testCases : testResults[k] = "RUNTIME_ERROR")
        => submissionStatus = "RUNTIME_ERROR"

(***************************************************************************)
(* "When compilation error, testResults should be null".                   *)
(***************************************************************************)
CompilationErrorHasNoResults ==
    submissionStatus = "COMPILATION_ERROR" => testResults = <<>>

(***************************************************************************)
(* "Execute code with retry logic": the result of a failed call is used    *)
(* only after MAX_RETRIES calls.                                           *)
(***************************************************************************)
FailedCallIsRetried ==
    stage = "record" /\ answers[Len(answers)] = Failure => calls = MAX_RETRIES
=============================================================================
