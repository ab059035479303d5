---------------------------- MODULE MCJudgeBatch ----------------------------
(* JudgeBatch for TLC: one answer of each kind that the code tells apart.  *)
EXTENDS JudgeBatch

Answer(id, description) == [id |-> id, description |-> description, match |-> FALSE]

MCAnswers ==
    {[Answer(3, "Other") EXCEPT !.match = TRUE], Answer(3, "Other"),
     Answer(5, "Time Limit Exceeded"), Answer(11, "Memory Limit Exceeded"),
     Answer(6, "Other"), Answer(7, "Runtime"), Answer(11, "Runtime"),
     Answer(12, "Runtime")}
=============================================================================
