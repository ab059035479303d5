----------------------------- MODULE Leaderboard -----------------------------
(***************************************************************************)
(* leaderboard-service: ScoreProcessor.handleSubmissionAccepted, which     *)
(* consumes leaderboard-queue, and ScoreService.updateScore, which keeps a *)
(* user's row in Postgres and the ranking (a sorted set and a hash of      *)
(* usernames) in Redis.  Nothing makes the two stores change together.     *)
(*                                                                         *)
(* One action is one awaited call with the code up to the next one.        *)
(***************************************************************************)
EXTENDS Naturals, FiniteSets, Sequences, SequencesExt

CONSTANTS
    Users, Problems, Names,
    Jobs,           \* 'submission.accepted' jobs that may be added
    Payload,        \* Payload[j]: the job's data
    Workers,        \* leaderboard-service processes
    None,           \* no row, no score, no name, no worker, no job
    Attempts,       \* 1: the producer sets no attempts option
    MaxStalls, LockLoss,
    MaxFaults       \* bound: crashes and failing calls in one behaviour

Columns == {"score", "solvedCount", "solvedProblemIds", "username"}
UserScore == [score : Nat, solvedCount : Nat, solvedProblemIds : SUBSET Problems,
              username : Names \cup {None}]
Difficulties == {"EASY", "MEDIUM", "HARD", "OTHER"}

ASSUME LeaderboardAssumption ==
    /\ IsFiniteSet(Users)
    /\ None \notin Users \cup Names \cup Jobs \cup Workers \cup Nat
    /\ None \notin UserScore
    /\ Payload \in [Jobs -> [user : Users, problem : Problems,
                             difficulty : Difficulties, name : Names \cup {None}]]
    /\ Attempts \in Nat \ {0} /\ MaxStalls \in Nat /\ MaxFaults \in Nat
    /\ LockLoss \in BOOLEAN

VARIABLES
    db,             \* db[u]: the user_scores row of u, None before the insert
    zset,           \* zset[u]: score in 'leaderboard:global', None if absent
    names,          \* names[u]: entry of 'leaderboard:usernames', None if absent
    pc, at,         \* control state of a worker and the job it runs
    mem,            \* mem[w]: the userScore object of the run
    cols,           \* cols[w]: the columns save() found changed
    faults,
    missed,         \* history: users a fault left with a stale ranking
    jobState, made, stalls, owner   \* leaderboard-queue

Queue == INSTANCE BullQueue WITH NoWorker <- None

storeVars == <<db, zset, names>>
workerVars == <<pc, at, mem, cols>>
queueVars == <<jobState, made, stalls, owner>>
vars == <<storeVars, workerVars, faults, missed, queueVars>>

Fallible == {"read", "rename", "insert", "select", "update", "rank", "label"}

TypeOK ==
    /\ db \in [Users -> UserScore \cup {None}]
    /\ zset \in [Users -> Nat \cup {None}]
    /\ names \in [Users -> Names \cup {None}]
    /\ pc \in [Workers -> Fallible \cup {"idle", "finish", "throw"}]
    /\ at \in [Workers -> Jobs \cup {None}]
    /\ mem \in [Workers -> UserScore \cup {None}]
    /\ cols \in [Workers -> SUBSET Columns]
    /\ faults \in 0 .. MaxFaults
    /\ missed \in SUBSET Users
    /\ Queue!QueueTypeOK

Init ==
    /\ db = [u \in Users |-> None]
    /\ zset = [u \in Users |-> None]
    /\ names = [u \in Users |-> None]
    /\ pc = [w \in Workers |-> "idle"]
    /\ at = [w \in Workers |-> None]
    /\ mem = [w \in Workers |-> None]
    /\ cols = [w \in Workers |-> {}]
    /\ faults = 0
    /\ missed = {}
    /\ Queue!QueueInit
-----------------------------------------------------------------------------
CalculatePoints(difficulty) ==
    CASE difficulty = "EASY" -> 10
      [] difficulty = "MEDIUM" -> 30
      [] difficulty = "HARD" -> 50
      [] OTHER -> 5

Job(w) == Payload[at[w]]
User(w) == Job(w).user

\* Mutant: the check for a repeated problem is dropped.
AlreadySolvedNever(userScore, problem) == FALSE

\* "Don't award points if problem was already solved by this user"
AlreadySolved(userScore, problem) == problem \in userScore.solvedProblemIds

\* Mutant: the problem is not remembered.
AwardedForgotten(userScore, job) ==
    [userScore EXCEPT !.score = @ + CalculatePoints(job.difficulty),
                      !.solvedCount = @ + 1]

Awarded(userScore, job) ==
    [userScore EXCEPT !.score = @ + CalculatePoints(job.difficulty),
                      !.solvedCount = @ + 1,
                      !.solvedProblemIds = @ \cup {job.problem}]

CanFault == faults < MaxFaults
Goto(w, label) == pc' = [pc EXCEPT ![w] = label]

\* The call took effect: go on, or throw because its answer was lost.
Proceed(w, label) ==
    \/ Goto(w, label) /\ UNCHANGED <<faults, missed>>
    \/ /\ CanFault
       /\ Goto(w, "throw")
       /\ faults' = faults + 1
       /\ missed' = missed \cup {User(w)}

NewScore(name) ==
    [score |-> 0, solvedCount |-> 0, solvedProblemIds |-> {}, username |-> name]

NameChanged(userScore, job) == job.name \notin {None, userScore.username}

\* From the check for a repeated problem to the call that saves the award.
Score(w, userScore) ==
    \/ /\ AlreadySolved(userScore, Job(w).problem)
       /\ mem' = [mem EXCEPT ![w] = userScore]
       /\ Goto(w, "finish")
    \/ /\ ~AlreadySolved(userScore, Job(w).problem)
       /\ mem' = [mem EXCEPT ![w] = Awarded(userScore, Job(w))]
       /\ Goto(w, "select")

(***************************************************************************)
(* History.  The ranking of a user is missed when a run dies after its     *)
(* save, and repaired by the next run that completes its Redis writes.     *)
(***************************************************************************)
Miss(w) ==
    missed' = IF pc[w] \in {"rank", "label"} THEN missed \cup {User(w)} ELSE missed

\* The last Redis write of a run took effect.
Publish(w) ==
    \/ /\ Goto(w, "finish")
       /\ missed' = missed \ {User(w)}
       /\ UNCHANGED faults
    \/ /\ CanFault
       /\ Goto(w, "throw")
       /\ faults' = faults + 1
       /\ missed' = missed \ {User(w)}

TakeJob(w, j) ==
    /\ pc[w] = "idle"
    /\ Queue!Take(j, w)
    /\ Goto(w, "read")
    /\ at' = [at EXCEPT ![w] = j]
    /\ UNCHANGED <<storeVars, mem, cols, faults, missed>>

\* A user seen for the first time has solved nothing: award and insert.
ReadNobody(w) ==
    /\ pc[w] = "read"
    /\ db[User(w)] = None
    /\ mem' = [mem EXCEPT ![w] = Awarded(NewScore(Job(w).name), Job(w))]
    /\ Goto(w, "insert")
    /\ UNCHANGED <<storeVars, at, cols, faults, missed, queueVars>>

\* A known user: the row is renamed first, or scored at once.
ReadKnown(w) ==
    /\ pc[w] = "read"
    /\ db[User(w)] # None
    /\ \/ /\ NameChanged(db[User(w)], Job(w))
          /\ mem' = [mem EXCEPT ![w] = db[User(w)]]
          /\ Goto(w, "rename")
       \/ /\ ~NameChanged(db[User(w)], Job(w))
          /\ Score(w, db[User(w)])
    /\ UNCHANGED <<storeVars, at, cols, faults, missed, queueVars>>

\* hset of the new name; without an award to save, the row keeps the old one.
Rename(w) ==
    /\ pc[w] = "rename"
    /\ names' = [names EXCEPT ![User(w)] = Job(w).name]
    /\ \/ /\ Score(w, [mem[w] EXCEPT !.username = Job(w).name])
          /\ UNCHANGED faults
       \/ /\ CanFault
          /\ Goto(w, "throw")
          /\ faults' = faults + 1
          /\ UNCHANGED mem
    /\ UNCHANGED <<db, zset, at, cols, missed, queueVars>>

\* save() of a new object: user_id is unique, so only one insert succeeds.
Insert(w) ==
    /\ pc[w] = "insert"
    /\ \/ /\ db[User(w)] = None
          /\ db' = [db EXCEPT ![User(w)] = mem[w]]
          /\ Proceed(w, "rank")
       \/ /\ db[User(w)] # None
          /\ Goto(w, "throw")
          /\ UNCHANGED <<db, faults, missed>>
    /\ UNCHANGED <<zset, names, at, mem, cols, queueVars>>

\* save() of a loaded object: the row is read again and compared with it...
Select(w) ==
    /\ pc[w] = "select"
    /\ cols' = [cols EXCEPT ![w] = {c \in Columns : db[User(w)][c] # mem[w][c]}]
    /\ Goto(w, "update")
    /\ UNCHANGED <<storeVars, at, mem, faults, missed, queueVars>>

\* Mutant: the changed columns replace the row.
UpdateReplaces(w) ==
    /\ pc[w] = "update"
    /\ db' = [db EXCEPT ![User(w)] = [c \in cols[w] |-> mem[w][c]]]
    /\ Proceed(w, "rank")
    /\ UNCHANGED <<zset, names, at, mem, cols, queueVars>>

\* Mutant: the run ends with the save, the ranking is left to the next one.
UpdateUnranked(w) ==
    /\ pc[w] = "update"
    /\ db' = [db EXCEPT ![User(w)] =
                 [c \in Columns |-> IF c \in cols[w] THEN mem[w][c] ELSE @[c]]]
    /\ Proceed(w, "finish")
    /\ UNCHANGED <<zset, names, at, mem, cols, queueVars>>

\* ...and the columns that differ are written.
Update(w) ==
    /\ pc[w] = "update"
    /\ db' = [db EXCEPT ![User(w)] =
                 [c \in Columns |-> IF c \in cols[w] THEN mem[w][c] ELSE @[c]]]
    /\ Proceed(w, "rank")
    /\ UNCHANGED <<zset, names, at, mem, cols, queueVars>>

\* zadd of the total in memory.
Rank(w) ==
    /\ pc[w] = "rank"
    /\ zset' = [zset EXCEPT ![User(w)] = mem[w].score]
    /\ IF mem[w].username = None THEN Publish(w) ELSE Proceed(w, "label")
    /\ UNCHANGED <<db, names, at, mem, cols, queueVars>>

Label(w) ==
    /\ pc[w] = "label"
    /\ names' = [names EXCEPT ![User(w)] = mem[w].username]
    /\ Publish(w)
    /\ UNCHANGED <<db, zset, at, mem, cols, queueVars>>

\* Mutant: the handler swallows the error.
ThrowsSwallowed(w) ==
    /\ pc[w] \in Fallible
    /\ CanFault
    /\ faults' = faults + 1
    /\ Goto(w, "finish")
    /\ Miss(w)
    /\ UNCHANGED <<storeVars, at, mem, cols, queueVars>>

\* A call fails without effect; the handler rethrows.
Throws(w) ==
    /\ pc[w] \in Fallible
    /\ CanFault
    /\ faults' = faults + 1
    /\ Goto(w, "throw")
    /\ Miss(w)
    /\ UNCHANGED <<storeVars, at, mem, cols, queueVars>>
-----------------------------------------------------------------------------
(* The ends of a job *)

Leave(w) ==
    /\ Goto(w, "idle")
    /\ at' = [at EXCEPT ![w] = None]
    /\ mem' = [mem EXCEPT ![w] = None]
    /\ cols' = [cols EXCEPT ![w] = {}]

Finish(w) ==
    /\ pc[w] = "finish"
    /\ Queue!Complete(at[w], w)
    /\ Leave(w)
    /\ UNCHANGED <<storeVars, faults, missed>>

Rethrow(w) ==
    /\ pc[w] = "throw"
    /\ Queue!Fail(at[w], w)
    /\ Leave(w)
    /\ UNCHANGED <<storeVars, faults, missed>>

Crash(w) ==
    /\ pc[w] # "idle"
    /\ CanFault
    /\ faults' = faults + 1
    /\ Miss(w)
    /\ Queue!Abandon(at[w], w)
    /\ Leave(w)
    /\ UNCHANGED storeVars

StallCheck(j) ==
    /\ Queue!Stall(j)
    /\ UNCHANGED <<storeVars, workerVars, faults, missed>>

\* execution-service adds the job of an accepted submission.
Enqueue(j) ==
    /\ jobState[j] = "none"
    /\ Queue!Add(j)
    /\ UNCHANGED <<storeVars, workerVars, faults, missed>>
-----------------------------------------------------------------------------
Work(w) ==
    \/ ReadNobody(w) \/ ReadKnown(w) \/ Rename(w) \/ Insert(w) \/ Select(w)
    \/ Update(w) \/ Rank(w) \/ Label(w) \/ Finish(w) \/ Rethrow(w)

\* Every job ended: the service waits for the next one.
Idle ==
    /\ \A j \in Jobs : jobState[j] \in {"done", "failed"}
    /\ \A w \in Workers : pc[w] = "idle"
    /\ UNCHANGED vars

Next ==
    \/ \E j \in Jobs : Enqueue(j) \/ StallCheck(j)
    \/ \E w \in Workers :
           \/ \E j \in Jobs : TakeJob(w, j)
           \/ Work(w) \/ Throws(w) \/ Crash(w)
    \/ Idle

Spec == Init /\ [][Next]_vars

(***************************************************************************)
(* A process that is up runs its code, an idle one polls the queue, and    *)
(* the stalled-job check is periodic.                                      *)
(***************************************************************************)
Fairness ==
    /\ \A w \in Workers : WF_vars(Work(w))
    /\ \A w \in Workers : WF_vars(\E j \in Jobs : TakeJob(w, j))
    /\ \A j \in Jobs : WF_vars(StallCheck(j))

FairSpec == Spec /\ Fairness
-----------------------------------------------------------------------------
(* Reading the ranking *)

Ranked == {u \in Users : zset[u] # None}

\* zrevrange: the highest score first.  Redis orders equal scores by name; here
\* they come in any order.
Rankings ==
    {ranking \in SetToSeqs(Ranked) :
        \A i, j \in DOMAIN ranking : i < j => zset[ranking[i]] >= zset[ranking[j]]}

\* getGlobalRanking: the i-th entry.
Entry(ranking, i) ==
    [user |-> ranking[i], score |-> zset[ranking[i]], rank |-> i,
     username |-> IF names[ranking[i]] = None THEN "Anonymous" ELSE names[ranking[i]]]

\* getUserRank: a score and a rank read one after the other; here no award of
\* another run comes between the two.
GetUserRank(ranking, u) ==
    IF u \in Ranked
    THEN [score |-> zset[u], rank |-> CHOOSE i \in DOMAIN ranking : ranking[i] = u]
    ELSE [score |-> 0, rank |-> None]
-----------------------------------------------------------------------------
(* Properties *)

Solved(u) == IF db[u] = None THEN {} ELSE db[u].solvedProblemIds
Points(u) == IF db[u] = None THEN 0 ELSE db[u].score
Count(u) == IF db[u] = None THEN 0 ELSE db[u].solvedCount

(***************************************************************************)
(* The count of a user is the number of distinct problems awarded, and the *)
(* points are within what that many problems can bring, however often jobs *)
(* are repeated, redelivered or cut short.                                 *)
(***************************************************************************)
RowAddsUp ==
    \A u \in Users :
        /\ Count(u) = Cardinality(Solved(u))
        /\ 5 * Count(u) <= Points(u) /\ Points(u) <= 50 * Count(u)

\* Users whose ranking is not being written, and was not left stale by a fault.
Current ==
    {u \in Users \ missed :
        \A w \in Workers : ~(at[w] # None /\ User(w) = u /\ pc[w] \in {"rank", "label"})}

(***************************************************************************)
(* A user is shown with the points of the row, under a name when the row   *)
(* has one, unless a run is between its save and its Redis writes or the   *)
(* last run that saved was cut short there; and when that holds of nobody, *)
(* every rank is the one the rows give, up to the order of equal scores,   *)
(* in the global ranking and in the answer to a single user alike.         *)
(***************************************************************************)
RankingIsCurrent ==
    \A ranking \in Rankings :
        /\ \A u \in Current :
               db[u] # None => GetUserRank(ranking, u).score = db[u].score
        /\ \A i \in DOMAIN ranking :
               LET entry == Entry(ranking, i) IN
               /\ [score |-> entry.score, rank |-> entry.rank]
                      = GetUserRank(ranking, entry.user)
               /\ entry.user \in Current /\ db[entry.user].username # None
                      => entry.username \in Names
               /\ Current = Users =>
                      /\ Cardinality({u \in Users : Points(u) > entry.score}) < entry.rank
                      /\ entry.rank <= Cardinality({u \in Users : Points(u) >= entry.score})

\* The contract of the leaderboard (Scoreboard) is implemented.
Board == INSTANCE Scoreboard WITH
    Worths <- {5, 10, 30, 50},
    solved <- [u \in Users |-> Solved(u)],
    count <- [u \in Users |-> Count(u)],
    points <- [u \in Users |-> Points(u)],
    board <- [u \in Users |-> IF zset[u] = None THEN 0 ELSE zset[u]]
RefinesScoreboard == Board!Spec

(***************************************************************************)
(* A job that was added ends with its problem among the user's solved      *)
(* ones, unless the queue records the job as failed.                       *)
(***************************************************************************)
EveryJobCounts ==
    \A j \in Jobs : jobState[j] = "waiting"
        ~> (Payload[j].problem \in Solved(Payload[j].user) \/ jobState[j] = "failed")
=============================================================================
