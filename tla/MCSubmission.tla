---------------------------- MODULE MCSubmission ----------------------------
(* Submission for TLC: two submissions, two workers, two verdicts.         *)
EXTENDS Submission

MCVerdicts == {"ACCEPTED", "WRONG_ANSWER"}
=============================================================================
