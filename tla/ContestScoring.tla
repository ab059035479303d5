--------------------------- MODULE ContestScoring ---------------------------
(***************************************************************************)
(* contest-service: the score of a participant.  submitSolution loads the  *)
(* contest_participants row, ContestParticipant.updateProblemScoreICPC     *)
(* changes it in memory, and save() reads the row again and writes the     *)
(* columns that differ.  Nothing makes a user wait for the answer to one   *)
(* submission before he sends the next, and what overlapping requests do   *)
(* to a row is part of the model.  ContestScoringService computes the      *)
(* final scores from the rows and ranks them: those computations are       *)
(* operators here, with every time in minutes.  Contest models when they   *)
(* run: as long as finalizeContestResults fails on rows with a solved      *)
(* problem, what is said of the ranking is said of the computation its     *)
(* unit tests exercise.                                                    *)
(*                                                                         *)
(* Scores are fractions in the code.  They are scaled by the denominator   *)
(* 4 * length of the contest, so that the arithmetic is exact.             *)
(***************************************************************************)
EXTENDS Naturals, Integers, FiniteSets, FiniteSetsExt, Functions, Sequences, SequencesExt

CONSTANTS
    Users, Problems, Requests, None,
    Points,         \* points a client may send with a submission (0 is wrong)
    BasePoints,     \* BasePoints[p]: points of the contest problem
    ContestLength,  \* totalContestTimeMinutes
    MaxRequests     \* bound: submissions in one behaviour

PENALTY_PER_WRONG_SUBMISSION == 5
MAX_PENALTY_MINUTES == 500
SCORE_PENALTY_PER_WRONG == 2

ProblemScore == [score : Nat, attempts : Nat, wrongSubmissions : Nat,
                 solvedAt : Nat \cup {None}, penaltyTime : Nat]

ASSUME ScoringAssumption ==
    /\ None \notin Users \cup Requests \cup Nat \cup ProblemScore
    /\ IsFiniteSet(Users) /\ IsFiniteSet(Problems)
    /\ Points \subseteq Nat
    /\ BasePoints \in [Problems -> Nat]
    /\ ContestLength \in Nat \ {0} /\ MaxRequests \in Nat

VARIABLES
    db,         \* db[u]: the row of u's participation
    pc,         \* pc[r]: the call request r makes next
    who,        \* who[r]: its user
    mem,        \* mem[r]: the participant object it changed
    cols,       \* cols[r]: the columns save() found changed
    job,        \* job[r]: the problem and points of its submission
    updated,    \* updated[u]: updated_at of u's row, in minutes like `now`
    now,        \* minutes since the start: one per submission that arrives
    judged,     \* history: judged[u][p], the submissions saved, oldest first
    raced       \* history: users who had two submissions in flight at once

requestVars == <<pc, who, mem, cols, job>>
vars == <<db, updated, requestVars, now, judged, raced>>

Columns == {"problemsSolved", "totalSubmissions", "totalScore",
            "totalPenaltyMinutes", "timeOfLastSolve", "problemScores"}
Row == [problemsSolved : Nat, totalSubmissions : Nat, totalScore : Nat,
        totalPenaltyMinutes : Nat, timeOfLastSolve : Nat \cup {None},
        problemScores : [Problems -> ProblemScore \cup {None}]]

Submissions == [problem : Problems, points : Points, time : Nat]

TypeOK ==
    /\ db \in [Users -> Row]
    /\ pc \in [Requests -> {"idle", "select", "update"}]
    /\ who \in [Requests -> Users \cup {None}]
    /\ mem \in [Requests -> Row \cup {None}]
    /\ cols \in [Requests -> SUBSET Columns]
    /\ job \in [Requests -> Submissions \cup {None}]
    /\ updated \in [Users -> 0 .. MaxRequests]
    /\ now \in 0 .. MaxRequests
    /\ judged \in [Users -> [Problems -> Seq(Submissions)]]
    /\ raced \in SUBSET Users

Unsolved == [score |-> 0, attempts |-> 0, wrongSubmissions |-> 0,
             solvedAt |-> None, penaltyTime |-> 0]

Init ==
    /\ db = [u \in Users |->
                [problemsSolved |-> 0, totalSubmissions |-> 0, totalScore |-> 0,
                 totalPenaltyMinutes |-> 0, timeOfLastSolve |-> None,
                 problemScores |-> [p \in Problems |-> None]]]
    /\ pc = [r \in Requests |-> "idle"]
    /\ who = [r \in Requests |-> None]
    /\ mem = [r \in Requests |-> None]
    /\ cols = [r \in Requests |-> {}]
    /\ job = [r \in Requests |-> None]
    /\ updated = [u \in Users |-> 0]
    /\ now = 0
    /\ judged = [u \in Users |-> [p \in Problems |-> <<>>]]
    /\ raced = {}
-----------------------------------------------------------------------------
(* updateProblemScoreICPC *)

\* currentScore, with the attempt counted.
Attempted(row, p) ==
    LET current == row.problemScores[p]
    IN  [(IF current = None THEN Unsolved ELSE current) EXCEPT !.attempts = @ + 1]

\* "First correct solution"
Scores(row, submission) ==
    submission.points > 0 /\ Attempted(row, submission.problem).solvedAt = None

\* Mutant: the penalty counts the accepted attempt too.
SolvedCountingAll(current, submission) ==
    [current EXCEPT !.score = submission.points, !.solvedAt = submission.time,
                    !.wrongSubmissions = current.attempts,
                    !.penaltyTime = current.attempts * PENALTY_PER_WRONG_SUBMISSION]

Solved(current, submission) ==
    [current EXCEPT !.score = submission.points, !.solvedAt = submission.time,
                    !.wrongSubmissions = current.attempts - 1,
                    !.penaltyTime = (current.attempts - 1) * PENALTY_PER_WRONG_SUBMISSION]

UpdateProblemScore(row, submission) ==
    LET p == submission.problem
        current == Attempted(row, p)
        solved == Solved(current, submission)
        counted == [row EXCEPT !.totalSubmissions = @ + 1]
    IN  IF Scores(row, submission)
        THEN [counted EXCEPT !.problemScores[p] = solved,
                             !.problemsSolved = @ + 1,
                             !.totalScore = @ + submission.points,
                             !.timeOfLastSolve = submission.time,
                             !.totalPenaltyMinutes = @ + solved.penaltyTime]
        ELSE [counted EXCEPT !.problemScores[p] = current]
-----------------------------------------------------------------------------
(* submitSolution *)

Alone(u) == \A r \in Requests : who[r] # u

\* The participant is read and scored in memory.
Submit(r, u, p, points) ==
    LET submission == [problem |-> p, points |-> points, time |-> now] IN
    /\ pc[r] = "idle"
    /\ now < MaxRequests
    /\ now' = now + 1
    /\ pc' = [pc EXCEPT ![r] = "select"]
    /\ who' = [who EXCEPT ![r] = u]
    /\ job' = [job EXCEPT ![r] = submission]
    /\ mem' = [mem EXCEPT ![r] = UpdateProblemScore(db[u], submission)]
    /\ raced' = IF Alone(u) THEN raced ELSE raced \cup {u}
    /\ UNCHANGED <<db, updated, cols, judged>>

\* save(): the row is read again and compared...
Select(r) ==
    /\ pc[r] = "select"
    /\ pc' = [pc EXCEPT ![r] = "update"]
    /\ cols' = [cols EXCEPT ![r] = {c \in Columns : db[who[r]][c] # mem[r][c]}]
    /\ UNCHANGED <<db, updated, who, mem, job, now, judged, raced>>

Done(r) ==
    /\ pc' = [pc EXCEPT ![r] = "idle"]
    /\ who' = [who EXCEPT ![r] = None]
    /\ mem' = [mem EXCEPT ![r] = None]
    /\ cols' = [cols EXCEPT ![r] = {}]
    /\ job' = [job EXCEPT ![r] = None]
    /\ UNCHANGED <<now, raced>>

\* Mutant: the changed columns replace the row.
WrittenAlone(row, object, columns) == [c \in columns |-> object[c]]

Written(row, object, columns) ==
    [c \in Columns |-> IF c \in columns THEN object[c] ELSE row[c]]

\* ...and the columns that differ are written, with updated_at.  When another
\* request has written the same values meanwhile there are none: no UPDATE is
\* sent, and the submission is lost.
Update(r) ==
    LET u == who[r] IN
    /\ pc[r] = "update"
    /\ db' = [db EXCEPT ![u] = Written(@, mem[r], cols[r])]
    /\ updated' = IF cols[r] = {} THEN updated ELSE [updated EXCEPT ![u] = now]
    /\ judged' = [judged EXCEPT ![u][job[r].problem] = Append(@, job[r])]
    /\ Done(r)

\* A call fails without effect: the request ends with an error.  (A failing
\* UPDATE that has taken effect is Update: the answer is not modelled.)
Fails(r) ==
    /\ pc[r] # "idle"
    /\ Done(r)
    /\ UNCHANGED <<db, updated, judged>>
-----------------------------------------------------------------------------
(* finalizeContestResults and rankParticipants *)

Scale == 4 * ContestLength

\* Mutant: the time factor has the wrong sign.
ICPCScoreLate(points, time, wrong) ==
    Max({0, points * (Scale + time) - SCORE_PENALTY_PER_WRONG * wrong * Scale})

\* points * (1 - time / length * 0.25) - 2 * wrong, not below 0; scaled.
CalculateICPCScore(points, time, wrong) ==
    Max({0, points * (Scale - time) - SCORE_PENALTY_PER_WRONG * wrong * Scale})

CalculatePenaltyMinutes(wrong) ==
    Min({wrong * PENALTY_PER_WRONG_SUBMISSION, MAX_PENALTY_MINUTES})

SolvedProblems(row) ==
    {p \in Problems : row.problemScores[p] # None /\ row.problemScores[p].solvedAt # None}

\* Math.round of the sum.
FinalScore(row) ==
    LET scaled == [p \in SolvedProblems(row) |->
                      CalculateICPCScore(BasePoints[p], row.problemScores[p].solvedAt,
                                         row.problemScores[p].wrongSubmissions)]
    IN  (2 * SumFunction(scaled) + Scale) \div (2 * Scale)

FinalPenalty(row) ==
    SumFunction([p \in SolvedProblems(row) |->
                    CalculatePenaltyMinutes(row.problemScores[p].wrongSubmissions)])

\* Number.MAX_VALUE stands for "never".
Earlier(a, b) == a # None /\ (b = None \/ a < b)

\* The comparator of rankParticipants: does a come strictly before b?
Before(a, b) ==
    \/ FinalScore(a) > FinalScore(b)
    \/ FinalScore(a) = FinalScore(b) /\ FinalPenalty(a) < FinalPenalty(b)
    \/ /\ FinalScore(a) = FinalScore(b) /\ FinalPenalty(a) = FinalPenalty(b)
       /\ Earlier(a.timeOfLastSolve, b.timeOfLastSolve)
-----------------------------------------------------------------------------
(* The figures of a finalized contest *)

\* Math.round of a quotient.
Rounded(a, b) == (2 * a + b) \div (2 * b)

FinalScores == {FinalScore(db[u]) : u \in Users}
HighestScore == IF Users = {} THEN 0 ELSE Max(FinalScores)
LowestScore == IF Users = {} THEN 0 ELSE Min(FinalScores)
AverageScore ==
    IF Users = {} THEN 0
    ELSE Rounded(SumFunction([u \in Users |-> FinalScore(db[u])]), Cardinality(Users))

\* Mutant: only participants with a wrong attempt count as having tried.
AttemptedByWrong(p) ==
    {u \in Users : /\ db[u].problemScores[p] # None
                   /\ db[u].problemScores[p].wrongSubmissions > 0}

AttemptedBy(p) ==
    {u \in Users : /\ db[u].problemScores[p] # None
                   /\ db[u].problemScores[p].attempts > 0}

SolvedBy(p) == {u \in Users : p \in SolvedProblems(db[u])}

\* In percent of those who tried.
AcceptanceRate(p) ==
    IF AttemptedBy(p) = {} THEN 0
    ELSE Rounded(100 * Cardinality(SolvedBy(p)), Cardinality(AttemptedBy(p)))
-----------------------------------------------------------------------------
(* The leaderboard of a running contest *)

\* The order of getContestLeaderboard: does u come strictly before v?  Its
\* second key, penaltyTime, is a column that nothing writes.
LiveBefore(u, v) ==
    \/ db[u].totalScore > db[v].totalScore
    \/ /\ db[u].totalScore = db[v].totalScore
       /\ db[u].problemsSolved > db[v].problemsSolved
    \/ /\ db[u].totalScore = db[v].totalScore
       /\ db[u].problemsSolved = db[v].problemsSolved
       /\ updated[u] < updated[v]

\* The answers the database may give: equal rows come in any order.
Leaderboards ==
    {board \in SetToSeqs(Users) :
        \A i, j \in DOMAIN board : i < j => ~LiveBefore(board[j], board[i])}

\* The analytics of the administrator, made from such an answer.
TopScore(board) == db[board[1]].totalScore
TotalSolved == SumFunction([u \in Users |-> db[u].problemsSolved])
-----------------------------------------------------------------------------
\* No more submissions arrive.
Idle ==
    /\ now = MaxRequests
    /\ \A r \in Requests : pc[r] = "idle"
    /\ UNCHANGED vars

Next ==
    \/ \E r \in Requests :
           \/ \E u \in Users, p \in Problems, points \in Points : Submit(r, u, p, points)
           \/ Select(r) \/ Update(r) \/ Fails(r)
    \/ Idle

Spec == Init /\ [][Next]_vars
-----------------------------------------------------------------------------
(* Properties *)

(***************************************************************************)
(* The counters of a participant who never had two submissions in flight   *)
(* are those of the problems: each solved problem is counted, scored and   *)
(* penalized once, whatever the other users do.                            *)
(***************************************************************************)
Counted(row) ==
    LET solved == SolvedProblems(row)
    IN  /\ row.problemsSolved = Cardinality(solved)
        /\ row.totalScore = SumFunction([p \in solved |-> row.problemScores[p].score])
        /\ row.totalPenaltyMinutes =
               SumFunction([p \in solved |-> row.problemScores[p].penaltyTime])

CountersMatchProblems == \A u \in Users \ raced : Counted(db[u])

(***************************************************************************)
(* The same of every participant: save() writes the columns that differ    *)
(* from the row it found, so that of two submissions in flight each may    *)
(* leave some of its columns.                                              *)
(***************************************************************************)
CountersAlwaysMatch == \A u \in Users : Counted(db[u])

(***************************************************************************)
(* The stored details of a problem are those of submissions that were      *)
(* saved: attempts are all of them, and score, time and wrong attempts are *)
(* fixed by the first correct one.  Overlapping requests lose submissions, *)
(* but only whole ones: the details are always made by some of the saved   *)
(* submissions, in their order, and by all of them when the user never had *)
(* two in flight.                                                          *)
(***************************************************************************)
MadeOf(current, log, kept) ==
    LET correct == {k \in kept : log[k].points > 0}
    IN  /\ (current = None) = (kept = {})
        /\ current # None =>
            /\ current.attempts = Cardinality(kept)
            /\ correct = {} => current = [Unsolved EXCEPT !.attempts = Cardinality(kept)]
            /\ correct # {} =>
                LET first == Min(correct)
                IN  /\ current.solvedAt = log[first].time
                    /\ current.score = log[first].points
                    /\ current.wrongSubmissions = Cardinality({k \in kept : k < first})

DetailsMatchSubmissions ==
    \A u \in Users, p \in Problems :
        LET saved == 1 .. Len(judged[u][p])
        IN  \E kept \in SUBSET saved :
                /\ MadeOf(db[u].problemScores[p], judged[u][p], kept)
                /\ u \notin raced => kept = saved

(***************************************************************************)
(* A row is what the submissions that were saved make of it, in its        *)
(* counters and in its details.                                            *)
(***************************************************************************)
RowsMatchSubmissions == CountersMatchProblems /\ DetailsMatchSubmissions

(***************************************************************************)
(* The figures shown to users and administrators agree with each other:    *)
(* nobody solved what he did not try, no rate is above 100, the average    *)
(* lies between the extremes, whoever tops a leaderboard has the highest   *)
(* score of all, and, as long as nobody had two submissions in flight, the *)
(* solvers of the acceptance rates are the solved problems the rows count. *)
(***************************************************************************)
FiguresAddUp ==
    /\ raced = {} =>
           TotalSolved = SumFunction([p \in Problems |-> Cardinality(SolvedBy(p))])
    /\ \A p \in Problems :
           SolvedBy(p) \subseteq AttemptedBy(p) /\ AcceptanceRate(p) \in 0 .. 100
    /\ LowestScore <= AverageScore /\ AverageScore <= HighestScore
    /\ \A board \in Leaderboards, u \in Users : db[u].totalScore <= TopScore(board)

(***************************************************************************)
(* Of two participants with the same problems solved, one who was never    *)
(* later and never had more wrong attempts does not get a lower score or a *)
(* higher penalty than the other.  He is not ranked behind him either, if  *)
(* neither had two submissions in flight: then the last key, the time of   *)
(* the last solve, is that of the problems too.                            *)
(***************************************************************************)
NoWorse(a, b) ==
    /\ SolvedProblems(a) = SolvedProblems(b)
    /\ \A p \in SolvedProblems(a) :
           /\ a.problemScores[p].solvedAt <= b.problemScores[p].solvedAt
           /\ a.problemScores[p].wrongSubmissions <= b.problemScores[p].wrongSubmissions

FinalIsFair ==
    \A u, v \in Users : NoWorse(db[u], db[v]) =>
        /\ FinalScore(db[v]) <= FinalScore(db[u])
        /\ FinalPenalty(db[u]) <= FinalPenalty(db[v])
        /\ {u, v} \cap raced = {} => ~Before(db[v], db[u])

(***************************************************************************)
(* During the contest, one who has solved all that another has for at      *)
(* least the same points, and more, is shown above the other, if neither   *)
(* had two submissions in flight: the order is that of the counters.       *)
(***************************************************************************)
Surpasses(a, b) ==
    /\ SolvedProblems(b) \subseteq SolvedProblems(a)
    /\ SolvedProblems(a) # SolvedProblems(b)
    /\ \A p \in SolvedProblems(b) : a.problemScores[p].score >= b.problemScores[p].score

LiveIsFair ==
    \A u, v \in Users \ raced : Surpasses(db[u], db[v]) =>
        \A board \in Leaderboards : \A i, j \in DOMAIN board :
            board[i] = u /\ board[j] = v => i < j

(***************************************************************************)
(* Both rankings are fair, each by its own measure: the final one by time  *)
(* and wrong attempts, the live one by the points that were sent.          *)
(***************************************************************************)
RankingIsFair == FinalIsFair /\ LiveIsFair

(***************************************************************************)
(* "Earlier completion time as tiebreaker": of two with the same points    *)
(* for the same number of problems, the one who solved the last one        *)
(* earlier is not shown below the other.  The code sorts by updated_at,    *)
(* which every later submission moves, a wrong one too.                    *)
(***************************************************************************)
EarlierCompletionFirst ==
    \A u, v \in Users :
        (/\ db[u].totalScore = db[v].totalScore
         /\ db[u].problemsSolved = db[v].problemsSolved
         /\ Earlier(db[u].timeOfLastSolve, db[v].timeOfLastSolve))
            => ~LiveBefore(v, u)
=============================================================================
