------------------------- MODULE LeaderboardProofs -------------------------
(***************************************************************************)
(* Proofs about Leaderboard, for any users, problems, names, jobs and      *)
(* faults.  The shapes of the state hold for any number of processes; the  *)
(* rest is proved for the one process the service is deployed as           *)
(* (OneWorker): two processes may undo each other's awards, because save   *)
(* writes only the columns that differ from the row as it was read again.  *)
(***************************************************************************)
EXTENDS Leaderboard, FiniteSetTheorems, TLAPS

OneWorker == \A v, w \in Workers : v = w

-----------------------------------------------------------------------------
(* The inductive invariant *)

\* The three parts of TypeOK.
StoreTypes ==
    /\ db \in [Users -> UserScore \cup {None}]
    /\ zset \in [Users -> Nat \cup {None}]
    /\ names \in [Users -> Names \cup {None}]
    /\ faults \in 0 .. MaxFaults
    /\ missed \in SUBSET Users

RunTypes ==
    /\ pc \in [Workers -> Fallible \cup {"idle", "finish", "throw"}]
    /\ at \in [Workers -> Jobs \cup {None}]
    /\ mem \in [Workers -> UserScore \cup {None}]
    /\ cols \in [Workers -> SUBSET Columns]

Types == StoreTypes /\ RunTypes /\ Queue!QueueTypeOK

\* A busy worker has a job.
Busy == \A w \in Workers : pc[w] # "idle" => at[w] \in Jobs

\* A lock is on an active job; a job that has not ended has an attempt left.
Locked ==
    /\ \A j \in Jobs : owner[j] # None => jobState[j] = "active"
    /\ \A j \in Jobs : jobState[j] \in {"none", "waiting", "active"} => made[j] < Attempts

\* While a run works on a row there is one, and its object is a row too.
Loaded ==
    \A w \in Workers :
        /\ pc[w] \in {"rename", "insert", "select", "update", "rank", "label"}
               => mem[w] \in UserScore
        /\ pc[w] \in {"rename", "select", "update", "rank", "label"} => db[User(w)] # None
        /\ pc[w] = "rename" => Job(w).name # None

TypeInv == Types /\ Busy /\ Locked /\ Loaded

\* The row of a user, before the first award an empty one.
Row(u) == IF db[u] = None THEN NewScore(None) ELSE db[u]

\* The figures of a row agree with its problems.
RowOK(row) ==
    /\ IsFiniteSet(row.solvedProblemIds)
    /\ row.solvedCount = Cardinality(row.solvedProblemIds)
    /\ 5 * row.solvedCount <= row.score /\ row.score <= 50 * row.solvedCount

RowsAddUp == \A u \in Users : RowOK(Row(u))

\* `new` is `row` with the job's award.
AwardOf(new, row, job) ==
    /\ job.problem \notin row.solvedProblemIds
    /\ new.solvedProblemIds = row.solvedProblemIds \cup {job.problem}
    /\ new.solvedCount = row.solvedCount + 1
    /\ new.score = row.score + CalculatePoints(job.difficulty)

\* What the object of a run says of the row, which nobody else writes.
Draft(w) ==
    /\ pc[w] = "rename" => mem[w] = db[User(w)]
    /\ pc[w] \in {"insert", "select", "update"} => AwardOf(mem[w], Row(User(w)), Job(w))
    /\ pc[w] = "update" => cols[w] = {c \in Columns : db[User(w)][c] # mem[w][c]}
    /\ pc[w] \in {"rank", "label"} => mem[w] = db[User(w)]
    /\ pc[w] = "label" => zset[User(w)] = mem[w].score /\ mem[w].username # None

Drafts == \A w \in Workers : Draft(w)

\* The ranking has rows behind it and, unless it is being written or was left
\* stale by a fault, their points and names.
Backed == \A u \in Users : zset[u] # None => db[u] # None

ShownAs(u) ==
    u \in Current /\ db[u] # None =>
        zset[u] = db[u].score /\ (db[u].username # None => names[u] # None)

Shown == \A u \in Users : ShownAs(u)

\* The inductive invariant.
IInv == TypeInv /\ RowsAddUp /\ Drafts /\ Backed /\ Shown

-----------------------------------------------------------------------------
(* Lemmas about rows, jobs and awards *)

LEMMA NoneIsNew ==
    /\ None \notin UserScore /\ None \notin Users /\ None \notin Names /\ None \notin Jobs
    /\ None \notin Workers /\ None \notin Nat
BY LeaderboardAssumption

LEMMA JobShape ==
    ASSUME NEW w \in Workers, at[w] \in Jobs
    PROVE  /\ User(w) \in Users /\ Job(w).problem \in Problems /\ Job(w).difficulty \in Difficulties
           /\ Job(w).name \in Names \cup {None}
BY LeaderboardAssumption DEF User, Job

LEMMA PointsAreWorth ==
    ASSUME NEW difficulty \in Difficulties
    PROVE  CalculatePoints(difficulty) \in {5, 10, 30, 50}
BY DEF CalculatePoints, Difficulties

\* A row is a function on its columns.
LEMMA RowByColumns ==
    /\ \A row \in UserScore : row = [c \in Columns |-> row[c]]
    /\ \A f : (/\ f["score"] \in Nat /\ f["solvedCount"] \in Nat
               /\ f["solvedProblemIds"] \in SUBSET Problems
               /\ f["username"] \in Names \cup {None})
           => [c \in Columns |-> f[c]] \in UserScore
BY DEF UserScore, Columns

\* Writing some columns of one row into another gives a row, and gives the
\* other row when they are the ones in which the two differ.
LEMMA WrittenRow ==
    ASSUME NEW row \in UserScore, NEW new \in UserScore, NEW written \in SUBSET Columns
    PROVE  LET result == [c \in Columns |-> IF c \in written THEN new[c] ELSE row[c]]
           IN  /\ result \in UserScore
               /\ written = {c \in Columns : row[c] # new[c]} => result = new
<1> DEFINE result == [c \in Columns |-> IF c \in written THEN new[c] ELSE row[c]]
<1>1. /\ result["score"] \in Nat /\ result["solvedCount"] \in Nat
      /\ result["solvedProblemIds"] \in SUBSET Problems
      /\ result["username"] \in Names \cup {None}
  BY DEF UserScore, Columns
<1>2. result = [c \in Columns |-> result[c]]
  OBVIOUS
<1>3. result \in UserScore
  <2> HIDE DEF result
  <2> QED BY <1>1, <1>2, RowByColumns
<1>4. ASSUME written = {c \in Columns : row[c] # new[c]} PROVE result = new
  BY <1>4, RowByColumns
<1> QED BY <1>3, <1>4

\* An award gives a row.
LEMMA AwardedIsRow ==
    ASSUME NEW row \in UserScore, NEW job, job.problem \in Problems,
           job.difficulty \in Difficulties
    PROVE  Awarded(row, job) \in UserScore
<1>1. CalculatePoints(job.difficulty) \in Nat
  BY PointsAreWorth
<1>2. /\ row.score + CalculatePoints(job.difficulty) \in Nat /\ row.solvedCount + 1 \in Nat
      /\ row.solvedProblemIds \cup {job.problem} \in SUBSET Problems
  BY <1>1 DEF UserScore
<1> QED BY <1>2 DEF Awarded, UserScore

LEMMA AwardedIsAward ==
    ASSUME NEW row \in UserScore, NEW job, ~AlreadySolved(row, job.problem)
    PROVE  AwardOf(Awarded(row, job), row, job)
BY DEF Awarded, AwardOf, AlreadySolved, UserScore

LEMMA NewScoreIsRow ==
    ASSUME NEW name \in Names \cup {None}
    PROVE  NewScore(name) \in UserScore /\ NewScore(name).solvedProblemIds = {}
BY DEF NewScore, UserScore

\* An award keeps the figures of a row in agreement with its problems.
LEMMA AwardAddsUp ==
    ASSUME NEW row \in UserScore, NEW new \in UserScore, NEW job,
           job.difficulty \in Difficulties, RowOK(row), AwardOf(new, row, job)
    PROVE  RowOK(new)
<1> DEFINE points == CalculatePoints(job.difficulty)
<1>1. points \in {5, 10, 30, 50}
  BY PointsAreWorth
<1>2. /\ IsFiniteSet(new.solvedProblemIds)
      /\ Cardinality(new.solvedProblemIds) = Cardinality(row.solvedProblemIds) + 1
  BY FS_AddElement DEF RowOK, AwardOf
<1>3. /\ row.score \in Nat /\ row.solvedCount \in Nat
      /\ new.score = row.score + points /\ new.solvedCount = row.solvedCount + 1
  BY DEF AwardOf, UserScore
<1> HIDE DEF points
<1>4. 5 * new.solvedCount <= new.score /\ new.score <= 50 * new.solvedCount
  BY <1>1, <1>3 DEF RowOK
<1> QED BY <1>2, <1>3, <1>4 DEF RowOK

LEMMA TypesAreTypeOK == TypeOK <=> Types
BY DEF TypeOK, Types, StoreTypes, RunTypes

\* The row of a user is always one.
LEMMA RowIsRow ==
    ASSUME StoreTypes, NEW u \in Users
    PROVE  Row(u) \in UserScore
BY NewScoreIsRow DEF StoreTypes, Row

-----------------------------------------------------------------------------
(* Types, for any number of processes *)

\* The two ends of a job in the queue.
LEMMA EndsKeepQueue ==
    ASSUME Queue!QueueTypeOK, Locked, NEW j \in Jobs, NEW w \in Workers,
           Queue!Complete(j, w) \/ Queue!Fail(j, w)
    PROVE  Queue!QueueTypeOK' /\ Locked'
<1> USE DEF Queue!QueueTypeOK, Queue!JobStates, Locked
<1>1. Attempts \in Nat \ {0} /\ made[j] \in Nat
  BY LeaderboardAssumption
<1>2. CASE Queue!Complete(j, w)
  BY <1>2, NoneIsNew DEF Queue!Complete, Queue!queueVars
<1>3. CASE Queue!Fail(j, w) /\ owner[j] # w
  BY <1>3 DEF Queue!Fail, Queue!queueVars
<1>4. CASE Queue!Fail(j, w) /\ owner[j] = w
  <2>1. made[j] < Attempts
    BY <1>4, NoneIsNew
  <2>2. Queue!QueueTypeOK'
    BY <1>1, <1>4, <2>1, NoneIsNew DEF Queue!Fail
  <2>3. Locked'
    BY <1>1, <1>4, NoneIsNew DEF Queue!Fail
  <2> QED BY <2>2, <2>3
<1> QED BY <1>2, <1>3, <1>4

LEMMA InitIsTyped == Init => TypeInv
<1> SUFFICES ASSUME Init PROVE TypeInv
  OBVIOUS
<1>1. Types
  BY LeaderboardAssumption
     DEF Init, Types, StoreTypes, RunTypes, Queue!QueueInit, Queue!QueueTypeOK, Queue!JobStates
<1>2. Busy /\ Locked /\ Loaded
  BY LeaderboardAssumption DEF Init, Busy, Locked, Loaded, Queue!QueueInit
<1> QED BY <1>1, <1>2 DEF TypeInv

\* Each action keeps them; one step per action.
LEMMA StepKeepsTypes ==
    ASSUME TypeInv, [Next]_vars
    PROVE  TypeInv'
<1> USE DEF TypeInv, storeVars, workerVars, queueVars
<1>t. StoreTypes /\ RunTypes /\ Queue!QueueTypeOK /\ Busy /\ Locked /\ Loaded
  BY DEF Types
<1>j. \A w \in Workers : pc[w] # "idle" =>
          /\ at[w] \in Jobs /\ User(w) \in Users
          /\ Job(w).problem \in Problems /\ Job(w).difficulty \in Difficulties
          /\ Job(w).name \in Names \cup {None}
  BY <1>t, JobShape DEF Busy
<1>a. Attempts \in Nat \ {0} /\ MaxStalls \in Nat /\ MaxFaults \in Nat
  BY LeaderboardAssumption
<1>1. ASSUME NEW j \in Jobs, Enqueue(j) PROVE TypeInv'
  <2>1. StoreTypes'
    BY <1>1, <1>t, NoneIsNew DEF Enqueue, StoreTypes
  <2>2. RunTypes'
    BY <1>1, <1>t, NoneIsNew DEF Enqueue, RunTypes, Fallible
  <2>3. Queue!QueueTypeOK'
    BY <1>1, <1>t, NoneIsNew, <1>a
       DEF Enqueue, Queue!QueueTypeOK, Queue!Add, Queue!JobStates, Locked
  <2>4. Busy'
    BY <1>1, <1>t, NoneIsNew DEF Enqueue, Busy, RunTypes
  <2>5. Locked'
    BY <1>1, <1>t, NoneIsNew, <1>a
       DEF Enqueue, Locked, Queue!Add, Queue!JobStates, Queue!QueueTypeOK
  <2>6. Loaded'
    BY <1>1, <1>t, NoneIsNew DEF Enqueue, Loaded, StoreTypes, RunTypes, Busy, User, Job
  <2> QED BY <2>1, <2>2, <2>3, <2>4, <2>5, <2>6 DEF Types
<1>2. ASSUME NEW j \in Jobs, StallCheck(j) PROVE TypeInv'
  <2>1. StoreTypes'
    BY <1>2, <1>t, NoneIsNew DEF StallCheck, StoreTypes
  <2>2. RunTypes'
    BY <1>2, <1>t, NoneIsNew DEF StallCheck, RunTypes, Fallible
  <2>3. Queue!QueueTypeOK'
    BY <1>2, <1>t, NoneIsNew, <1>a
       DEF StallCheck, Queue!QueueTypeOK, Queue!Stall, Queue!JobStates, Locked
  <2>4. Busy'
    BY <1>2, <1>t, NoneIsNew DEF StallCheck, Busy, RunTypes
  <2>5. Locked'
    BY <1>2, <1>t, NoneIsNew, <1>a
       DEF StallCheck, Locked, Queue!Stall, Queue!JobStates, Queue!QueueTypeOK
  <2>6. Loaded'
    BY <1>2, <1>t, NoneIsNew DEF StallCheck, Loaded, StoreTypes, RunTypes, Busy, User, Job
  <2> QED BY <2>1, <2>2, <2>3, <2>4, <2>5, <2>6 DEF Types
<1>3. ASSUME NEW w \in Workers, NEW j \in Jobs, TakeJob(w, j) PROVE TypeInv'
  <2>1. StoreTypes'
    BY <1>3, <1>t, NoneIsNew DEF TakeJob, StoreTypes, Goto
  <2>2. RunTypes'
    BY <1>3, <1>t, NoneIsNew DEF TakeJob, RunTypes, Fallible, Goto
  <2>3. Queue!QueueTypeOK'
    BY <1>3, <1>t, NoneIsNew, <1>a
       DEF TakeJob, Queue!QueueTypeOK, Queue!Take, Queue!JobStates, Goto, Locked
  <2>4. Busy'
    BY <1>3, <1>t, NoneIsNew DEF TakeJob, Busy, RunTypes, Goto
  <2>5. Locked'
    BY <1>3, <1>t, NoneIsNew, <1>a
       DEF TakeJob, Locked, Queue!Take, Queue!JobStates, Queue!QueueTypeOK, Goto
  <2>6. Loaded'
    BY <1>3, <1>t, NoneIsNew
       DEF TakeJob, Loaded, StoreTypes, RunTypes, Busy, User, Job, Goto
  <2> QED BY <2>1, <2>2, <2>3, <2>4, <2>5, <2>6 DEF Types
<1>4. ASSUME NEW w \in Workers, ReadNobody(w) PROVE TypeInv'
  <2>1. /\ at[w] \in Jobs /\ User(w) \in Users
        /\ Awarded(NewScore(Job(w).name), Job(w)) \in UserScore
    BY <1>4, <1>t, <1>j, NewScoreIsRow, AwardedIsRow DEF ReadNobody, Busy
  <2>2. StoreTypes'
    BY <1>4, <1>t, NoneIsNew, <2>1 DEF ReadNobody, StoreTypes, Goto
  <2>3. RunTypes'
    BY <1>4, <1>t, NoneIsNew, <2>1 DEF ReadNobody, RunTypes, Fallible, Goto
  <2>4. Queue!QueueTypeOK'
    BY <1>4, <1>t, NoneIsNew, <2>1 DEF ReadNobody, Queue!QueueTypeOK, Goto
  <2>5. Busy'
    BY <1>4, <1>t, NoneIsNew, <2>1 DEF ReadNobody, Busy, RunTypes, Goto
  <2>6. Locked'
    BY <1>4, <1>t, NoneIsNew, <2>1 DEF ReadNobody, Locked, Goto
  <2>7. Loaded'
    BY <1>4, <1>t, NoneIsNew, <2>1
       DEF ReadNobody, Loaded, StoreTypes, RunTypes, Busy, User, Job, Goto
  <2> QED BY <2>1, <2>2, <2>3, <2>4, <2>5, <2>6, <2>7 DEF Types
<1>5. ASSUME NEW w \in Workers, ReadKnown(w) PROVE TypeInv'
  <2>1. /\ at[w] \in Jobs /\ User(w) \in Users /\ db[User(w)] \in UserScore
        /\ Awarded(db[User(w)], Job(w)) \in UserScore
    BY <1>5, <1>t, <1>j, AwardedIsRow DEF ReadKnown, StoreTypes
  <2>2. StoreTypes'
    BY <1>5, <1>t, NoneIsNew, <2>1 DEF ReadKnown, StoreTypes, Goto, Score, NameChanged
  <2>3. RunTypes'
    BY <1>5, <1>t, NoneIsNew, <2>1
       DEF ReadKnown, RunTypes, Fallible, Goto, Score, NameChanged
  <2>4. Queue!QueueTypeOK'
    BY <1>5, <1>t, NoneIsNew, <2>1
       DEF ReadKnown, Queue!QueueTypeOK, Goto, Score, NameChanged
  <2>5. Busy'
    BY <1>5, <1>t, NoneIsNew, <2>1 DEF ReadKnown, Busy, RunTypes, Goto, Score, NameChanged
  <2>6. Locked'
    BY <1>5, <1>t, NoneIsNew, <2>1 DEF ReadKnown, Locked, Goto, Score, NameChanged
  <2>7. Loaded'
    BY <1>5, <1>t, NoneIsNew, <2>1
       DEF ReadKnown, Loaded, StoreTypes, RunTypes, Busy, User, Job, Goto, Score,
           NameChanged
  <2> QED BY <2>1, <2>2, <2>3, <2>4, <2>5, <2>6, <2>7 DEF Types
<1>6. ASSUME NEW w \in Workers, Rename(w) PROVE TypeInv'
  <2>1. /\ at[w] \in Jobs /\ User(w) \in Users /\ Job(w).name \in Names
        /\ [mem[w] EXCEPT !.username = Job(w).name] \in UserScore
        /\ Awarded([mem[w] EXCEPT !.username = Job(w).name], Job(w)) \in UserScore
    BY <1>6, <1>t, <1>j, AwardedIsRow DEF Rename, Busy, Loaded, UserScore
  <2>2. StoreTypes'
    BY <1>6, <1>t, NoneIsNew, <2>1, <1>a DEF Rename, StoreTypes, Goto, Score, CanFault
  <2>3. RunTypes'
    BY <1>6, <1>t, NoneIsNew, <2>1 DEF Rename, RunTypes, Fallible, Goto, Score, CanFault
  <2>4. Queue!QueueTypeOK'
    BY <1>6, <1>t, NoneIsNew, <2>1 DEF Rename, Queue!QueueTypeOK, Goto, Score, CanFault
  <2>5. Busy'
    BY <1>6, <1>t, NoneIsNew, <2>1 DEF Rename, Busy, RunTypes, Goto, Score, CanFault
  <2>6. Locked'
    BY <1>6, <1>t, NoneIsNew, <2>1 DEF Rename, Locked, Goto, Score, CanFault
  <2>7. Loaded'
    BY <1>6, <1>t, NoneIsNew, <2>1
       DEF Rename, Loaded, StoreTypes, RunTypes, Busy, User, Job, Goto, Score, CanFault
  <2> QED BY <2>1, <2>2, <2>3, <2>4, <2>5, <2>6, <2>7 DEF Types
<1>7. ASSUME NEW w \in Workers, Insert(w) PROVE TypeInv'
  <2>1. at[w] \in Jobs /\ User(w) \in Users /\ mem[w] \in UserScore
    BY <1>7, <1>t, <1>j DEF Insert, Loaded
  <2>2. /\ \A u \in Users : db[u] # None => db'[u] # None
        /\ pc'[w] \in {"rank", "throw"} /\ (pc'[w] = "rank" => db'[User(w)] # None)
        /\ \A v \in Workers : v # w => pc'[v] = pc[v]
    BY <1>7, <1>t, <2>1, NoneIsNew DEF Insert, StoreTypes, RunTypes, Goto, Proceed
  <2>3. StoreTypes'
    BY <1>7, <1>t, NoneIsNew, <2>1, <2>2, <1>a
       DEF Insert, StoreTypes, Goto, Proceed, CanFault
  <2>4. RunTypes'
    BY <1>7, <1>t, NoneIsNew, <2>1, <2>2
       DEF Insert, RunTypes, Fallible, Goto, Proceed, CanFault
  <2>5. Queue!QueueTypeOK'
    BY <1>7, <1>t, NoneIsNew, <2>1, <2>2
       DEF Insert, Queue!QueueTypeOK, Goto, Proceed, CanFault
  <2>6. Busy'
    BY <1>7, <1>t, NoneIsNew, <2>1, <2>2 DEF Insert, Busy, RunTypes, Goto, Proceed, CanFault
  <2>7. Locked'
    BY <1>7, <1>t, NoneIsNew, <2>1, <2>2 DEF Insert, Locked, Goto, Proceed, CanFault
  <2>8. Loaded'
    BY <1>7, <1>t, NoneIsNew, <2>1, <2>2, <1>j DEF Insert, Loaded, Busy, User, Job
  <2> QED BY <2>1, <2>2, <2>3, <2>4, <2>5, <2>6, <2>7, <2>8 DEF Types
<1>8. ASSUME NEW w \in Workers, Select(w) PROVE TypeInv'
  <2>1. at[w] \in Jobs /\ User(w) \in Users
    BY <1>8, <1>t, <1>j DEF Select, Fallible
  <2>2. StoreTypes'
    BY <1>8, <1>t, NoneIsNew, <2>1 DEF Select, StoreTypes, Goto
  <2>3. RunTypes'
    BY <1>8, <1>t, NoneIsNew, <2>1 DEF Select, RunTypes, Fallible, Goto
  <2>4. Queue!QueueTypeOK'
    BY <1>8, <1>t, NoneIsNew, <2>1 DEF Select, Queue!QueueTypeOK, Goto
  <2>5. Busy'
    BY <1>8, <1>t, NoneIsNew, <2>1 DEF Select, Busy, RunTypes, Goto
  <2>6. Locked'
    BY <1>8, <1>t, NoneIsNew, <2>1 DEF Select, Locked, Goto
  <2>7. Loaded'
    BY <1>8, <1>t, NoneIsNew, <2>1
       DEF Select, Loaded, StoreTypes, RunTypes, Busy, User, Job, Goto
  <2> QED BY <2>1, <2>2, <2>3, <2>4, <2>5, <2>6, <2>7 DEF Types
<1>9. ASSUME NEW w \in Workers, Update(w) PROVE TypeInv'
  <2>1. /\ at[w] \in Jobs /\ User(w) \in Users /\ cols[w] \in SUBSET Columns
        /\ db[User(w)] \in UserScore /\ mem[w] \in UserScore
    BY <1>9, <1>t, <1>j DEF Update, Loaded, StoreTypes, RunTypes
  <2>2. [c \in Columns |-> IF c \in cols[w] THEN mem[w][c] ELSE db[User(w)][c]] \in UserScore
    BY <1>9, <1>t, <2>1, WrittenRow
  <2>3. StoreTypes'
    BY <1>9, <1>t, NoneIsNew, <2>1, <2>2, <1>a
       DEF Update, StoreTypes, Goto, Proceed, CanFault
  <2>4. RunTypes'
    BY <1>9, <1>t, NoneIsNew, <2>1, <2>2
       DEF Update, RunTypes, Fallible, Goto, Proceed, CanFault
  <2>5. Queue!QueueTypeOK'
    BY <1>9, <1>t, NoneIsNew, <2>1, <2>2
       DEF Update, Queue!QueueTypeOK, Goto, Proceed, CanFault
  <2>6. Busy'
    BY <1>9, <1>t, NoneIsNew, <2>1, <2>2 DEF Update, Busy, RunTypes, Goto, Proceed, CanFault
  <2>7. Locked'
    BY <1>9, <1>t, NoneIsNew, <2>1, <2>2 DEF Update, Locked, Goto, Proceed, CanFault
  <2>8. Loaded'
    BY <1>9, <1>t, NoneIsNew, <2>1, <2>2
       DEF Update, Loaded, StoreTypes, RunTypes, Busy, User, Job, Goto, Proceed, CanFault
  <2> QED BY <2>1, <2>2, <2>3, <2>4, <2>5, <2>6, <2>7, <2>8 DEF Types
<1>10. ASSUME NEW w \in Workers, Rank(w) PROVE TypeInv'
  <2>1. at[w] \in Jobs /\ User(w) \in Users /\ mem[w].score \in Nat
    BY <1>10, <1>t, <1>j DEF Rank, Busy, Loaded, UserScore
  <2>2. StoreTypes'
    BY <1>10, <1>t, NoneIsNew, <2>1, <1>a
       DEF Rank, StoreTypes, Goto, Proceed, Publish, CanFault
  <2>3. RunTypes'
    BY <1>10, <1>t, NoneIsNew, <2>1
       DEF Rank, RunTypes, Fallible, Goto, Proceed, Publish, CanFault
  <2>4. Queue!QueueTypeOK'
    BY <1>10, <1>t, NoneIsNew, <2>1
       DEF Rank, Queue!QueueTypeOK, Goto, Proceed, Publish, CanFault
  <2>5. Busy'
    BY <1>10, <1>t, NoneIsNew, <2>1
       DEF Rank, Busy, RunTypes, Goto, Proceed, Publish, CanFault
  <2>6. Locked'
    BY <1>10, <1>t, NoneIsNew, <2>1 DEF Rank, Locked, Goto, Proceed, Publish, CanFault
  <2>7. Loaded'
    BY <1>10, <1>t, NoneIsNew, <2>1
       DEF Rank, Loaded, StoreTypes, RunTypes, Busy, User, Job, Goto, Proceed, Publish,
           CanFault
  <2> QED BY <2>1, <2>2, <2>3, <2>4, <2>5, <2>6, <2>7 DEF Types
<1>11. ASSUME NEW w \in Workers, Label(w) PROVE TypeInv'
  <2>1. at[w] \in Jobs /\ User(w) \in Users /\ mem[w].username \in Names \cup {None}
    BY <1>11, <1>t, <1>j DEF Label, Busy, Loaded, UserScore
  <2>2. StoreTypes'
    BY <1>11, <1>t, NoneIsNew, <2>1, <1>a
       DEF Label, StoreTypes, Goto, Proceed, Publish, CanFault
  <2>3. RunTypes'
    BY <1>11, <1>t, NoneIsNew, <2>1
       DEF Label, RunTypes, Fallible, Goto, Proceed, Publish, CanFault
  <2>4. Queue!QueueTypeOK'
    BY <1>11, <1>t, NoneIsNew, <2>1
       DEF Label, Queue!QueueTypeOK, Goto, Proceed, Publish, CanFault
  <2>5. Busy'
    BY <1>11, <1>t, NoneIsNew, <2>1
       DEF Label, Busy, RunTypes, Goto, Proceed, Publish, CanFault
  <2>6. Locked'
    BY <1>11, <1>t, NoneIsNew, <2>1 DEF Label, Locked, Goto, Proceed, Publish, CanFault
  <2>7. Loaded'
    BY <1>11, <1>t, NoneIsNew, <2>1
       DEF Label, Loaded, StoreTypes, RunTypes, Busy, User, Job, Goto, Proceed, Publish,
           CanFault
  <2> QED BY <2>1, <2>2, <2>3, <2>4, <2>5, <2>6, <2>7 DEF Types
<1>12. ASSUME NEW w \in Workers, Throws(w) PROVE TypeInv'
  <2>1. at[w] \in Jobs /\ User(w) \in Users
    BY <1>12, <1>t, <1>j DEF Throws, Fallible
  <2>2. StoreTypes'
    BY <1>12, <1>t, NoneIsNew, <2>1, <1>a DEF Throws, StoreTypes, Goto, Miss, CanFault
  <2>3. RunTypes'
    BY <1>12, <1>t, NoneIsNew, <2>1 DEF Throws, RunTypes, Fallible, Goto, Miss, CanFault
  <2>4. Queue!QueueTypeOK'
    BY <1>12, <1>t, NoneIsNew, <2>1 DEF Throws, Queue!QueueTypeOK, Goto, Miss, CanFault
  <2>5. Busy'
    BY <1>12, <1>t, NoneIsNew, <2>1 DEF Throws, Busy, RunTypes, Goto, Miss, CanFault
  <2>6. Locked'
    BY <1>12, <1>t, NoneIsNew, <2>1 DEF Throws, Locked, Goto, Miss, CanFault
  <2>7. Loaded'
    BY <1>12, <1>t, NoneIsNew, <2>1
       DEF Throws, Loaded, StoreTypes, RunTypes, Busy, User, Job, Goto, Miss, CanFault
  <2> QED BY <2>1, <2>2, <2>3, <2>4, <2>5, <2>6, <2>7 DEF Types
<1>13. ASSUME NEW w \in Workers, Finish(w) PROVE TypeInv'
  <2>1. at[w] \in Jobs /\ User(w) \in Users
    BY <1>13, <1>t, <1>j DEF Finish, Fallible
  <2>2. StoreTypes'
    BY <1>13, <1>t, NoneIsNew, <2>1 DEF Finish, StoreTypes, Goto, Leave
  <2>3. RunTypes'
    BY <1>13, <1>t, NoneIsNew, <2>1 DEF Finish, RunTypes, Fallible, Goto, Leave
  <2>4. Queue!QueueTypeOK' /\ Locked'
    BY <1>13, <1>t, NoneIsNew, <2>1, EndsKeepQueue DEF Finish
  <2>5. Busy'
    BY <1>13, <1>t, NoneIsNew, <2>1 DEF Finish, Busy, RunTypes, Goto, Leave
  <2>6. Loaded'
    BY <1>13, <1>t, NoneIsNew, <2>1
       DEF Finish, Loaded, StoreTypes, RunTypes, Busy, User, Job, Goto, Leave
  <2> QED BY <2>1, <2>2, <2>3, <2>4, <2>5, <2>6 DEF Types
<1>14. ASSUME NEW w \in Workers, Rethrow(w) PROVE TypeInv'
  <2>1. at[w] \in Jobs /\ User(w) \in Users
    BY <1>14, <1>t, <1>j DEF Rethrow, Fallible
  <2>2. StoreTypes'
    BY <1>14, <1>t, NoneIsNew, <2>1 DEF Rethrow, StoreTypes, Goto, Leave
  <2>3. RunTypes'
    BY <1>14, <1>t, NoneIsNew, <2>1 DEF Rethrow, RunTypes, Fallible, Goto, Leave
  <2>4. Queue!QueueTypeOK' /\ Locked'
    BY <1>14, <1>t, NoneIsNew, <2>1, EndsKeepQueue DEF Rethrow
  <2>5. Busy'
    BY <1>14, <1>t, NoneIsNew, <2>1 DEF Rethrow, Busy, RunTypes, Goto, Leave
  <2>6. Loaded'
    BY <1>14, <1>t, NoneIsNew, <2>1
       DEF Rethrow, Loaded, StoreTypes, RunTypes, Busy, User, Job, Goto, Leave
  <2> QED BY <2>1, <2>2, <2>3, <2>4, <2>5, <2>6 DEF Types
<1>15. ASSUME NEW w \in Workers, Crash(w) PROVE TypeInv'
  <2>1. at[w] \in Jobs /\ User(w) \in Users
    BY <1>15, <1>t, <1>j DEF Crash, Fallible
  <2>2. StoreTypes'
    BY <1>15, <1>t, NoneIsNew, <2>1, <1>a DEF Crash, StoreTypes, Goto, Leave, Miss, CanFault
  <2>3. RunTypes'
    BY <1>15, <1>t, NoneIsNew, <2>1
       DEF Crash, RunTypes, Fallible, Goto, Leave, Miss, CanFault
  <2>4. Queue!QueueTypeOK'
    BY <1>15, <1>t, NoneIsNew, <2>1, <1>a
       DEF Crash, Queue!QueueTypeOK, Queue!Abandon, Queue!JobStates, Goto, Leave, Miss,
           CanFault, Locked
  <2>5. Busy'
    BY <1>15, <1>t, NoneIsNew, <2>1 DEF Crash, Busy, RunTypes, Goto, Leave, Miss, CanFault
  <2>6. Locked'
    BY <1>15, <1>t, NoneIsNew, <2>1, <1>a
       DEF Crash, Locked, Queue!Abandon, Queue!JobStates, Queue!QueueTypeOK, Goto, Leave,
           Miss, CanFault
  <2>7. Loaded'
    BY <1>15, <1>t, NoneIsNew, <2>1
       DEF Crash, Loaded, StoreTypes, RunTypes, Busy, User, Job, Goto, Leave, Miss, CanFault
  <2> QED BY <2>1, <2>2, <2>3, <2>4, <2>5, <2>6, <2>7 DEF Types
<1>16. ASSUME Idle \/ UNCHANGED vars PROVE TypeInv'
  BY <1>t, <1>16
     DEF Idle, vars, Types, StoreTypes, RunTypes, Queue!QueueTypeOK, Busy, Locked, Loaded,
         User, Job
<1> QED
  BY <1>1, <1>2, <1>3, <1>4, <1>5, <1>6, <1>7, <1>8, <1>9, <1>10, <1>11, <1>12, <1>13,
     <1>14, <1>15, <1>16
     DEF Next, Work

LEMMA TypesHold == Spec => []TypeInv
<1>1. TypeInv /\ [Next]_vars => TypeInv'
  BY StepKeepsTypes
<1> QED BY InitIsTyped, <1>1, PTL DEF Spec

(***************************************************************************)
(* Every row, ranking, worker and job keeps its shape, for any number of   *)
(* processes and with locks that may be lost.                              *)
(***************************************************************************)
THEOREM TypeCorrect == Spec => []TypeOK
<1>1. TypeInv => TypeOK
  BY TypesAreTypeOK DEF TypeInv
<1> QED BY <1>1, TypesHold, PTL

-----------------------------------------------------------------------------
(* One process: rows, drafts and the ranking *)

\* What is known of a worker that runs a job.
LEMMA RunFacts ==
    ASSUME OneWorker, IInv, NEW w \in Workers, pc[w] # "idle"
    PROVE  /\ \A v \in Workers : v = w
           /\ at[w] \in Jobs /\ User(w) \in Users /\ Job(w).problem \in Problems
           /\ Job(w).difficulty \in Difficulties /\ Job(w).name \in Names \cup {None}
           /\ Draft(w) /\ ShownAs(User(w)) /\ RowOK(Row(User(w))) /\ Row(User(w)) \in UserScore
           /\ at[w] # None
<1>1. at[w] \in Jobs
  BY DEF IInv, TypeInv, Busy
<1>2. at[w] # None
  BY <1>1, NoneIsNew
<1>3. User(w) \in Users
  BY <1>1, JobShape
<1>4. Row(User(w)) \in UserScore
  BY <1>3, RowIsRow DEF IInv, TypeInv, Types
<1> QED BY <1>1, <1>2, <1>3, <1>4, JobShape DEF OneWorker, IInv, Drafts, Shown, RowsAddUp

\* Who is current, when one process runs.
LEMMA CurrentUsers ==
    ASSUME OneWorker, NEW w \in Workers
    PROVE  /\ Current = {u \in Users \ missed :
                  ~(at[w] # None /\ User(w) = u /\ pc[w] \in {"rank", "label"})}
           /\ Current' = {u \in Users \ missed' :
                  ~(at'[w] # None /\ User(w)' = u /\ pc'[w] \in {"rank", "label"})}
BY DEF OneWorker, Current

\* A save writes the object of the run, and that is an award.
LEMMA SaveIsAward ==
    ASSUME OneWorker, IInv, NEW w \in Workers,
           Update(w) \/ (Insert(w) /\ db[User(w)] = None)
    PROVE  /\ User(w) \in Users /\ Job(w).problem \in Problems /\ Job(w).difficulty \in Difficulties
           /\ mem[w] \in UserScore /\ AwardOf(mem[w], Row(User(w)), Job(w))
           /\ db' = [db EXCEPT ![User(w)] = mem[w]]
<1>1. pc[w] \in {"update", "insert"}
  BY DEF Update, Insert
<1>2. /\ User(w) \in Users /\ Job(w).problem \in Problems /\ Job(w).difficulty \in Difficulties
      /\ Draft(w)
  BY <1>1, RunFacts
<1>3. mem[w] \in UserScore /\ AwardOf(mem[w], Row(User(w)), Job(w))
  BY <1>1, <1>2 DEF Draft, IInv, TypeInv, Loaded
<1>4. CASE Insert(w) /\ db[User(w)] = None
  BY <1>2, <1>3, <1>4 DEF Insert
<1>5. CASE Update(w)
  <2>1. db[User(w)] \in UserScore /\ cols[w] \in SUBSET Columns
    BY <1>2, <1>5 DEF Update, IInv, TypeInv, Types, StoreTypes, RunTypes, Loaded
  <2>2. cols[w] = {c \in Columns : db[User(w)][c] # mem[w][c]}
    BY <1>2, <1>5 DEF Update, Draft
  <2>3. [c \in Columns |-> IF c \in cols[w] THEN mem[w][c] ELSE db[User(w)][c]] = mem[w]
    BY <1>3, <2>1, <2>2, WrittenRow
  <2>4. db \in [Users -> UserScore \cup {None}]
    BY DEF IInv, TypeInv, Types, StoreTypes
  <2> QED BY <1>2, <1>3, <1>5, <2>3, <2>4 DEF Update
<1> QED BY <1>2, <1>3, <1>4, <1>5

\* Nothing but a save writes a row.
LEMMA OnlySavesWrite ==
    ASSUME [Next]_vars
    PROVE  \/ UNCHANGED db
           \/ \E w \in Workers : Update(w) \/ (Insert(w) /\ db[User(w)] = None)
BY DEF Next, Work, Enqueue, StallCheck, TakeJob, ReadNobody, ReadKnown, Rename, Insert, Select,
       Update, Rank, Label, Throws, Finish, Rethrow, Crash, Idle, vars, storeVars

LEMMA StepKeepsRows ==
    ASSUME OneWorker, IInv, [Next]_vars
    PROVE  RowsAddUp'
<1> SUFFICES ASSUME NEW u \in Users PROVE RowOK(Row(u)')
  BY DEF RowsAddUp, RowOK
<1>1. RowOK(Row(u)) /\ Row(u) \in UserScore
  BY RowIsRow DEF IInv, RowsAddUp, TypeInv, Types
<1>2. CASE UNCHANGED db
  BY <1>1, <1>2 DEF Row
<1>3. ASSUME NEW w \in Workers, Update(w) \/ (Insert(w) /\ db[User(w)] = None)
      PROVE  RowOK(Row(u)')
  <2>1. /\ User(w) \in Users /\ Job(w).difficulty \in Difficulties
        /\ mem[w] \in UserScore /\ AwardOf(mem[w], Row(User(w)), Job(w))
        /\ db' = [db EXCEPT ![User(w)] = mem[w]]
    BY <1>3, SaveIsAward
  <2>2. db \in [Users -> UserScore \cup {None}]
    BY DEF IInv, TypeInv, Types, StoreTypes
  <2>3. CASE u = User(w)
    <3>1. Row(u)' = mem[w]
      BY <2>1, <2>2, <2>3, NoneIsNew DEF Row
    <3>2. RowOK(mem[w])
      BY <1>1, <2>1, <2>3, AwardAddsUp
    <3> QED BY <3>1, <3>2
  <2>4. CASE u # User(w)
    BY <1>1, <2>1, <2>2, <2>4 DEF Row
  <2> QED BY <2>3, <2>4
<1> QED BY <1>2, <1>3, OnlySavesWrite

LEMMA StepKeepsDraft ==
    ASSUME OneWorker, IInv, [Next]_vars, NEW v \in Workers
    PROVE  Draft(v)'
<1> USE DEF storeVars, workerVars, queueVars
<1>t. StoreTypes /\ RunTypes /\ Loaded /\ Draft(v)
  BY DEF IInv, TypeInv, Types, Drafts
<1>o. \A w \in Workers : w = v
  BY DEF OneWorker
<1>r. pc[v] # "idle" => /\ at[v] \in Jobs /\ User(v) \in Users
                        /\ Row(User(v)) \in UserScore /\ Job(v).name \in Names \cup {None}
  BY RunFacts
<1>1. ASSUME NEW j \in Jobs, Enqueue(j) \/ StallCheck(j) PROVE Draft(v)'
  BY <1>1, <1>t DEF Enqueue, StallCheck, Draft, Row, User, Job
<1>2. ASSUME NEW j \in Jobs, TakeJob(v, j) PROVE Draft(v)'
  BY <1>2, <1>t DEF TakeJob, Goto, Draft, RunTypes
<1>3. ASSUME ReadNobody(v) PROVE Draft(v)'
  <2>1. /\ pc'[v] = "insert" /\ mem'[v] = Awarded(NewScore(Job(v).name), Job(v))
        /\ Row(User(v))' = NewScore(None) /\ Job(v)' = Job(v)
    BY <1>3, <1>t DEF ReadNobody, Goto, RunTypes, Row, User, Job
  <2>2. AwardOf(Awarded(NewScore(Job(v).name), Job(v)), NewScore(None), Job(v))
    BY DEF AwardOf, Awarded, NewScore
  <2>3. AwardOf(mem[v], Row(User(v)), Job(v))'
    BY <2>1, <2>2 DEF AwardOf
  <2> QED BY <2>1, <2>3 DEF Draft
<1>4. ASSUME ReadKnown(v) PROVE Draft(v)'
  <2>1. /\ db[User(v)] \in UserScore /\ Row(User(v)) = db[User(v)]
        /\ UNCHANGED <<db, User(v), Job(v), Row(User(v))>>
    BY <1>4, <1>t, <1>r DEF ReadKnown, StoreTypes, Row, User, Job
  <2>2. CASE pc'[v] = "rename"
    BY <1>4, <1>t, <2>1, <2>2 DEF ReadKnown, Score, Goto, RunTypes, Draft
  <2>3. CASE pc'[v] = "finish"
    BY <2>3 DEF Draft
  <2>4. CASE pc'[v] = "select"
    <3>1. /\ ~AlreadySolved(db[User(v)], Job(v).problem)
          /\ mem'[v] = Awarded(db[User(v)], Job(v))
      BY <1>4, <1>t, <2>4 DEF ReadKnown, Score, Goto, RunTypes
    <3>2. AwardOf(mem'[v], Row(User(v)), Job(v))
      BY <2>1, <3>1, AwardedIsAward
    <3> QED BY <2>1, <2>4, <3>2 DEF Draft, AwardOf
  <2> QED BY <1>4, <1>t, <2>2, <2>3, <2>4 DEF ReadKnown, Score, Goto, RunTypes
<1>5. ASSUME Rename(v) PROVE Draft(v)'
  <2> DEFINE renamed == [mem[v] EXCEPT !.username = Job(v).name]
  <2>1. /\ renamed \in UserScore /\ mem[v] = db[User(v)] /\ Row(User(v)) = db[User(v)]
        /\ UNCHANGED <<db, User(v), Job(v), Row(User(v))>>
    BY <1>5, <1>t, <1>r DEF Rename, Loaded, Draft, Row, User, Job, UserScore
  <2>2. pc'[v] \in {"finish", "throw", "select"}
    BY <1>5, <1>t DEF Rename, Score, Goto, RunTypes
  <2>3. CASE pc'[v] \in {"finish", "throw"}
    BY <2>3 DEF Draft
  <2>4. CASE pc'[v] = "select"
    <3>1. ~AlreadySolved(renamed, Job(v).problem) /\ mem'[v] = Awarded(renamed, Job(v))
      BY <1>5, <1>t, <2>4 DEF Rename, Score, Goto, RunTypes
    <3>2. AwardOf(mem'[v], renamed, Job(v))
      BY <2>1, <3>1, AwardedIsAward
    <3>3. /\ renamed.score = mem[v].score /\ renamed.solvedCount = mem[v].solvedCount
          /\ renamed.solvedProblemIds = mem[v].solvedProblemIds
      BY <1>5, <1>t DEF Rename, Loaded, UserScore
    <3>4. AwardOf(mem'[v], Row(User(v)), Job(v))
      BY <2>1, <3>2, <3>3 DEF AwardOf
    <3> QED BY <2>1, <2>4, <3>4 DEF Draft, AwardOf
  <2> QED BY <2>2, <2>3, <2>4
<1>6. ASSUME Insert(v) \/ Update(v) PROVE Draft(v)'
  <2>1. pc'[v] \in {"rank", "throw"} /\ UNCHANGED <<mem, at>>
    BY <1>6, <1>t DEF Insert, Update, Proceed, Goto, RunTypes
  <2>2. CASE pc'[v] = "throw"
    BY <2>2 DEF Draft
  <2>3. CASE pc'[v] = "rank"
    <3>1. Update(v) \/ (Insert(v) /\ db[User(v)] = None)
      BY <1>6, <1>t, <2>3 DEF Insert, Goto, RunTypes
    <3>2. User(v) \in Users /\ db' = [db EXCEPT ![User(v)] = mem[v]]
      BY <3>1, SaveIsAward
    <3>3. mem'[v] = db'[User(v)'] /\ User(v)' = User(v)
      BY <1>t, <2>1, <3>2 DEF StoreTypes, User, Job
    <3> QED BY <2>3, <3>3 DEF Draft
  <2> QED BY <2>1, <2>2, <2>3
<1>7. ASSUME Select(v) PROVE Draft(v)'
  <2>1. /\ UNCHANGED <<db, mem, at, User(v), Job(v), Row(User(v))>> /\ pc'[v] = "update"
        /\ cols'[v] = {c \in Columns : db[User(v)][c] # mem[v][c]}
        /\ AwardOf(mem[v], Row(User(v)), Job(v))
    BY <1>7, <1>t DEF Select, Goto, RunTypes, Row, User, Job, Draft
  <2>2. AwardOf(mem[v], Row(User(v)), Job(v))'
    BY <2>1 DEF AwardOf
  <2>3. cols'[v] = {c \in Columns : db'[User(v)'][c] # mem'[v][c]}
    BY <2>1
  <2> QED BY <2>1, <2>2, <2>3 DEF Draft
<1>8. ASSUME Rank(v) PROVE Draft(v)'
  <2>1. /\ UNCHANGED <<db, mem, at, User(v)>> /\ mem[v] = db[User(v)]
        /\ pc'[v] \in {"finish", "throw", "label"} /\ zset'[User(v)] = mem[v].score
        /\ pc'[v] = "label" => mem[v].username # None
    BY <1>8, <1>t, <1>r
       DEF Rank, Publish, Proceed, Goto, RunTypes, StoreTypes, User, Job, Draft
  <2> QED BY <2>1 DEF Draft
<1>9. ASSUME Label(v) \/ Throws(v) PROVE Draft(v)'
  <2>1. pc'[v] \in {"finish", "throw"}
    BY <1>9, <1>t DEF Label, Throws, Publish, Goto, RunTypes
  <2> QED BY <2>1 DEF Draft
<1>10. ASSUME Finish(v) \/ Rethrow(v) \/ Crash(v) PROVE Draft(v)'
  <2>1. pc'[v] = "idle"
    BY <1>10, <1>t DEF Finish, Rethrow, Crash, Leave, Goto, RunTypes
  <2> QED BY <2>1 DEF Draft
<1>11. ASSUME Idle \/ UNCHANGED vars PROVE Draft(v)'
  BY <1>11, <1>t DEF Idle, vars, Draft, Row, User, Job
<1> QED
  BY <1>o, <1>1, <1>2, <1>3, <1>4, <1>5, <1>6, <1>7, <1>8, <1>9, <1>10, <1>11
     DEF Next, Work

LEMMA StepKeepsBacked ==
    ASSUME OneWorker, IInv, [Next]_vars, NEW u \in Users
    PROVE  zset'[u] # None => db'[u] # None
<1>t. StoreTypes /\ RunTypes /\ Loaded /\ Backed
  BY DEF IInv, TypeInv, Types
<1>1. db[u] # None => db'[u] # None
  <2>1. CASE UNCHANGED db
    BY <2>1
  <2>2. ASSUME NEW w \in Workers, Update(w) \/ (Insert(w) /\ db[User(w)] = None)
        PROVE  db[u] # None => db'[u] # None
    <3>1. mem[w] # None /\ User(w) \in Users /\ db' = [db EXCEPT ![User(w)] = mem[w]]
      BY <2>2, SaveIsAward, NoneIsNew
    <3> QED BY <1>t, <3>1 DEF StoreTypes
  <2> QED BY <2>1, <2>2, OnlySavesWrite
<1>2. CASE UNCHANGED zset
  BY <1>1, <1>2, <1>t DEF Backed
<1>3. ASSUME NEW w \in Workers, Rank(w) PROVE zset'[u] # None => db'[u] # None
  <2>1. pc[w] # "idle" /\ pc[w] = "rank" /\ zset' = [zset EXCEPT ![User(w)] = mem[w].score]
    BY <1>3 DEF Rank
  <2>2. User(w) \in Users /\ db[User(w)] # None
    BY <1>t, <2>1, RunFacts DEF Loaded
  <2> QED BY <1>1, <1>t, <2>1, <2>2 DEF Backed, StoreTypes
<1>4. UNCHANGED zset \/ \E w \in Workers : Rank(w)
  BY DEF Next, Work, Enqueue, StallCheck, TakeJob, ReadNobody, ReadKnown, Rename, Insert, Select,
         Update, Rank, Label, Throws, Finish, Rethrow, Crash, Idle, vars, storeVars
<1> QED BY <1>2, <1>3, <1>4

\* A user whose row and ranking a step leaves alone, and who is not taken out
\* of the stale ones by it, is shown as before.
LEMMA StepKeepsShown ==
    ASSUME OneWorker, IInv, [Next]_vars, NEW u \in Users
    PROVE  ShownAs(u)'
<1> USE DEF storeVars, workerVars, queueVars
<1>t. StoreTypes /\ RunTypes /\ Busy /\ Loaded /\ ShownAs(u)
  BY DEF IInv, TypeInv, Types, Shown
<1>1. ASSUME NEW j \in Jobs, Enqueue(j) \/ StallCheck(j) PROVE ShownAs(u)'
  BY <1>1, <1>t DEF Enqueue, StallCheck, ShownAs, Current, User, Job
<1>2. ASSUME Idle \/ UNCHANGED vars PROVE ShownAs(u)'
  BY <1>2, <1>t DEF Idle, vars, ShownAs, Current, User, Job
<1>3. ASSUME NEW w \in Workers,
             (\E j \in Jobs : TakeJob(w, j)) \/ Work(w) \/ Throws(w) \/ Crash(w)
      PROVE  ShownAs(u)'
  <2> SUFFICES ASSUME u \in Current', db'[u] # None
               PROVE  /\ zset'[u] = db'[u].score
                      /\ db'[u].username # None => names'[u] # None
    BY DEF ShownAs
  <2>c. /\ u \notin missed' /\ ~(at'[w] # None /\ User(w)' = u /\ pc'[w] \in {"rank", "label"})
        /\ u \in Current <=> /\ u \notin missed
                             /\ ~(at[w] # None /\ User(w) = u /\ pc[w] \in {"rank", "label"})
    BY CurrentUsers
  <2>r. pc[w] # "idle" => /\ at[w] # None /\ User(w) \in Users /\ Draft(w)
                          /\ Job(w).name \in Names \cup {None}
    BY RunFacts
  <2>1. ASSUME NEW j \in Jobs, TakeJob(w, j) PROVE u \in Current /\ UNCHANGED storeVars
    BY <1>t, <2>1, <2>c DEF TakeJob
  <2>2. ASSUME ReadNobody(w) \/ ReadKnown(w) \/ Select(w)
        PROVE  u \in Current /\ UNCHANGED storeVars
    BY <2>2, <2>c DEF ReadNobody, ReadKnown, Select
  <2>3. ASSUME Throws(w) \/ Crash(w)
        PROVE  u \in Current /\ UNCHANGED storeVars
    BY <2>3, <2>c, <2>r DEF Throws, Crash, Miss
  <2>4. ASSUME Finish(w) \/ Rethrow(w)
        PROVE  u \in Current /\ UNCHANGED storeVars
    BY <2>4, <2>c DEF Finish, Rethrow
  <2>5. CASE u \in Current /\ UNCHANGED storeVars
    BY <1>t, <2>5 DEF ShownAs
  <2>6. ASSUME Rename(w) PROVE u \in Current /\ UNCHANGED <<db, zset>> /\ (names[u] # None => names'[u] # None)
    <3>1. Job(w).name # None /\ User(w) \in Users
      BY <1>t, <2>6, <2>r DEF Rename, Loaded
    <3> QED BY <1>t, <2>6, <2>c, <3>1 DEF Rename, StoreTypes
  <2>7. ASSUME Insert(w) \/ Update(w)
        PROVE  u \in Current /\ UNCHANGED <<zset, names>> /\ db'[u] = db[u]
    <3>1. pc[w] \in {"insert", "update"} /\ UNCHANGED <<zset, names, at, User(w)>>
      BY <2>7 DEF Insert, Update, User, Job
    <3>2. CASE UNCHANGED db
      BY <2>7, <2>c, <3>1, <3>2 DEF Insert, Update, Proceed
    <3>3. CASE Update(w) \/ (Insert(w) /\ db[User(w)] = None)
      <4>1. User(w) \in Users /\ db' = [db EXCEPT ![User(w)] = mem[w]]
        BY <3>3, SaveIsAward
      <4>2. u # User(w) /\ u \notin missed
        BY <1>t, <2>7, <2>c, <2>r, <3>1, <3>3 DEF Insert, Update, Proceed, Goto, RunTypes
      <4> QED BY <1>t, <2>c, <3>1, <4>1, <4>2 DEF StoreTypes
    <3> QED BY <2>7, <3>2, <3>3 DEF Insert
  <2>8. ASSUME Rank(w) \/ Label(w)
        PROVE  /\ u # User(w) => u \in Current /\ zset'[u] = zset[u] /\ names'[u] = names[u]
               /\ u = User(w) => /\ zset'[u] = db[u].score
                                 /\ db[u].username # None => names'[u] # None
               /\ UNCHANGED db
    <3>1. /\ pc[w] \in {"rank", "label"} /\ mem[w] = db[User(w)] /\ User(w) \in Users /\ at[w] # None
          /\ UNCHANGED <<db, at, User(w)>>
      BY <2>8, <2>r DEF Rank, Label, Draft, User, Job
    <3>2. CASE u # User(w)
      BY <1>t, <2>8, <2>c, <3>1, <3>2 DEF Rank, Label, Publish, Proceed, StoreTypes
    <3>3. CASE u = User(w) /\ Rank(w)
      <4>1. mem[w].username = None
        BY <1>t, <2>c, <3>1, <3>3 DEF Rank, Proceed, Goto, RunTypes
      <4> QED BY <1>t, <3>1, <3>3, <4>1 DEF Rank, StoreTypes
    <3>4. CASE u = User(w) /\ Label(w)
      BY <1>t, <2>r, <3>1, <3>4 DEF Label, Draft, StoreTypes
    <3> QED BY <2>8, <3>1, <3>2, <3>3, <3>4
  <2> QED BY <1>3, <1>t, <2>1, <2>2, <2>3, <2>4, <2>5, <2>6, <2>7, <2>8 DEF Work, ShownAs
<1> QED BY <1>1, <1>2, <1>3 DEF Next

LEMMA InitIsGood == Init => IInv
<1> SUFFICES ASSUME Init PROVE IInv
  OBVIOUS
<1>1. RowsAddUp
  <2>1. IsFiniteSet({}) /\ Cardinality({}) = 0
    BY FS_EmptySet
  <2> QED BY <2>1 DEF Init, RowsAddUp, RowOK, Row, NewScore
<1>2. Drafts /\ Backed /\ Shown
  BY DEF Init, Drafts, Draft, Backed, Shown, ShownAs
<1> QED BY <1>1, <1>2, InitIsTyped DEF IInv

LEMMA StepKeepsIInv ==
    ASSUME OneWorker, IInv, [Next]_vars
    PROVE  IInv'
<1>1. TypeInv'
  BY StepKeepsTypes DEF IInv
<1>2. Drafts'
  BY StepKeepsDraft DEF Drafts
<1>3. Backed'
  BY StepKeepsBacked DEF Backed
<1>4. Shown'
  BY StepKeepsShown DEF Shown
<1> QED BY <1>1, <1>2, <1>3, <1>4, StepKeepsRows DEF IInv

LEMMA Invariance ==
    ASSUME OneWorker
    PROVE  Spec => []IInv
<1>1. IInv /\ [Next]_vars => IInv'
  BY StepKeepsIInv
<1> QED BY InitIsGood, <1>1, PTL DEF Spec

(***************************************************************************)
(* The count of a user is the number of distinct problems awarded and the  *)
(* points are what so many problems can bring, however often jobs are      *)
(* repeated, redelivered or cut short.                                     *)
(***************************************************************************)
THEOREM RowsStayTrue ==
    ASSUME OneWorker
    PROVE  Spec => []RowAddsUp
<1>1. IInv => RowAddsUp
  <2> SUFFICES ASSUME IInv, NEW u \in Users
               PROVE  /\ Count(u) = Cardinality(Solved(u))
                      /\ 5 * Count(u) <= Points(u) /\ Points(u) <= 50 * Count(u)
    BY DEF RowAddsUp
  <2>1. RowOK(Row(u))
    BY DEF IInv, RowsAddUp
  <2>2. /\ Count(u) = Row(u).solvedCount /\ Solved(u) = Row(u).solvedProblemIds
        /\ Points(u) = Row(u).score
    BY DEF Count, Solved, Points, Row, NewScore
  <2> QED BY <2>1, <2>2 DEF RowOK
<1> QED BY <1>1, Invariance, PTL

-----------------------------------------------------------------------------
(* Reading the ranking *)

\* A ranking lists every ranked user once.
LEMMA RankingListsAll ==
    ASSUME NEW ranking \in Rankings
    PROVE  /\ Cardinality(Ranked) \in Nat
           /\ ranking \in [1 .. Cardinality(Ranked) -> Ranked]
           /\ \A i, k \in 1 .. Cardinality(Ranked) : ranking[i] = ranking[k] => i = k
           /\ \A u \in Ranked : \E i \in 1 .. Cardinality(Ranked) : ranking[i] = u
<1> DEFINE n == Cardinality(Ranked)
<1>1. IsFiniteSet(Ranked) /\ n \in Nat
  <2>1. IsFiniteSet(Ranked)
    BY LeaderboardAssumption, FS_Subset DEF Ranked
  <2> QED BY <2>1, FS_CardinalityType
<1>2. /\ ranking \in [1 .. n -> Ranked]
      /\ \A i, k \in 1 .. n : ranking[i] = ranking[k] => i = k
  BY DEF Rankings, SetToSeqs
<1>3. IsFiniteSet(1 .. n) /\ Cardinality(1 .. n) = n
  BY <1>1, FS_Interval
<1>4. ranking \in Injection(1 .. n, Ranked)
  BY <1>2 DEF Injection, IsInjective
<1>5. ranking \in Surjection(1 .. n, Ranked)
  BY <1>1, <1>3, <1>4, FS_Injection
<1> QED BY <1>1, <1>2, <1>5 DEF Surjection

\* Both ways of reading the ranking give a ranked user the same rank.
LEMMA SameRankTwice ==
    ASSUME NEW ranking \in Rankings, NEW i \in DOMAIN ranking
    PROVE  /\ ranking[i] \in Ranked
           /\ GetUserRank(ranking, ranking[i]) = [score |-> zset[ranking[i]], rank |-> i]
<1>1. ranking[i] \in Ranked
  BY RankingListsAll
<1>2. \A k \in DOMAIN ranking : ranking[k] = ranking[i] => k = i
  BY RankingListsAll
<1>3. (CHOOSE k \in DOMAIN ranking : ranking[k] = ranking[i]) = i
  BY <1>2
<1> QED BY <1>1, <1>3 DEF GetUserRank

\* When every ranked user is shown with his points and nobody else has any,
\* a rank lies between the number of better users and that of those as good.
LEMMA RankIsFair ==
    ASSUME NEW ranking \in Rankings, NEW i \in DOMAIN ranking,
           \A u \in Users : zset[u] \in Nat \cup {None} /\ Points(u) \in Nat,
           \A u \in Ranked : Points(u) = zset[u],
           \A u \in Users \ Ranked : Points(u) = 0
    PROVE  /\ Cardinality({u \in Users : Points(u) > zset[ranking[i]]}) < i
           /\ i <= Cardinality({u \in Users : Points(u) >= zset[ranking[i]]})
<1> DEFINE n == Cardinality(Ranked)
           s == zset[ranking[i]]
           better == {u \in Users : Points(u) > s}
           good == {u \in Users : Points(u) >= s}
<1>1. /\ n \in Nat /\ ranking \in [1 .. n -> Ranked]
      /\ \A k, m \in 1 .. n : ranking[k] = ranking[m] => k = m
      /\ \A u \in Ranked : \E k \in 1 .. n : ranking[k] = u
  BY RankingListsAll
<1>2. i \in 1 .. n /\ ranking[i] \in Ranked
  BY <1>1
<1>3. \A u \in Ranked : u \in Users /\ zset[u] \in Nat
  BY NoneIsNew DEF Ranked
<1>4. \A k, m \in 1 .. n : k < m => zset[ranking[k]] >= zset[ranking[m]]
  BY <1>1 DEF Rankings
<1>5. s \in Nat
  BY <1>2, <1>3
<1> HIDE DEF n, s
<1>6. Cardinality(better) < i
  <2> DEFINE place == [u \in better |-> CHOOSE k \in 1 .. i - 1 : ranking[k] = u]
  <2>1. ASSUME NEW u \in better PROVE \E k \in 1 .. i - 1 : ranking[k] = u
    <3>1. u \in Ranked /\ zset[u] > s
      BY <1>5, <2>1
    <3>2. PICK k \in 1 .. n : ranking[k] = u
      BY <1>1, <3>1
    <3>3. k # i
      BY <1>3, <1>2, <3>1, <3>2, <1>5 DEF s
    <3>4. ~ (i < k)
      <4>1. i < k => s >= zset[u]
        BY <1>2, <1>4, <3>2 DEF s
      <4> QED BY <1>3, <1>5, <3>1, <4>1
    <3>5. k \in 1 .. i - 1
      BY <1>1, <1>2, <3>2, <3>3, <3>4
    <3> QED BY <3>2, <3>5
  <2>2. place \in [better -> 1 .. i - 1] /\ \A u \in better : ranking[place[u]] = u
    BY <2>1
  <2>3. place \in Injection(better, 1 .. i - 1)
    <3> HIDE DEF place, better
    <3> QED BY <2>2 DEF Injection, IsInjective
  <2>4. IsFiniteSet(1 .. i - 1) /\ Cardinality(1 .. i - 1) = i - 1 /\ i \in Nat \ {0}
    <3>1. i \in Nat \ {0} /\ 1 \in Int /\ i - 1 \in Int
      BY <1>1, <1>2
    <3>2. /\ IsFiniteSet(1 .. i - 1)
          /\ Cardinality(1 .. i - 1) = IF 1 > i - 1 THEN 0 ELSE (i - 1) - 1 + 1
      BY <3>1, FS_Interval
    <3> QED BY <3>1, <3>2
  <2>5. IsFiniteSet(better) /\ Cardinality(better) <= i - 1
    <3> HIDE DEF place, better
    <3> QED BY <2>3, <2>4, FS_Injection
  <2>6. Cardinality(better) \in Nat
    <3> HIDE DEF better
    <3> QED BY <2>5, FS_CardinalityType
  <2> HIDE DEF better
  <2> QED BY <2>4, <2>5, <2>6
<1>7. i <= Cardinality(good)
  <2> DEFINE first == [k \in 1 .. i |-> ranking[k]]
  <2>1. ASSUME NEW k \in 1 .. i PROVE ranking[k] \in good
    <3>1. k \in 1 .. n /\ (k = i \/ k < i)
      BY <1>1, <1>2
    <3>2. zset[ranking[k]] >= s
      BY <1>2, <1>4, <1>5, <3>1 DEF s
    <3> QED BY <1>1, <1>3, <3>1, <3>2
  <2>2. first \in Injection(1 .. i, good)
    <3>1. first \in [1 .. i -> good]
      BY <2>1
    <3>2. \A k, m \in 1 .. i : first[k] = first[m] => k = m
      BY <1>1, <1>2
    <3> HIDE DEF first, good
    <3> QED BY <3>1, <3>2 DEF Injection, IsInjective
  <2>3. IsFiniteSet(good)
    BY LeaderboardAssumption, FS_Subset
  <2>4. Cardinality(1 .. i) = i
    BY <1>1, <1>2, FS_Interval
  <2> HIDE DEF first, good
  <2> QED BY <2>2, <2>3, <2>4, FS_Injection
<1> QED BY <1>6, <1>7 DEF s

(***************************************************************************)
(* A user is shown with the points of the row, unless the ranking is being *)
(* written or a fault left it stale; both ways of reading it agree; and    *)
(* when nobody is stale every rank is the one the rows give.               *)
(***************************************************************************)
THEOREM RankingStaysCurrent ==
    ASSUME OneWorker
    PROVE  Spec => []RankingIsCurrent
<1>1. IInv => RankingIsCurrent
  <2> SUFFICES ASSUME IInv, NEW ranking \in Rankings
               PROVE  /\ \A u \in Current :
                             db[u] # None => GetUserRank(ranking, u).score = db[u].score
                      /\ \A i \in DOMAIN ranking :
                             LET entry == Entry(ranking, i) IN
                             /\ [score |-> entry.score, rank |-> entry.rank]
                                    = GetUserRank(ranking, entry.user)
                             /\ entry.user \in Current /\ db[entry.user].username # None
                                    => entry.username \in Names
                             /\ Current = Users =>
                                    /\ Cardinality({u \in Users : Points(u) > entry.score}) < entry.rank
                                    /\ entry.rank <= Cardinality({u \in Users : Points(u) >= entry.score})
    BY DEF RankingIsCurrent
  <2>t. /\ StoreTypes /\ Backed /\ Shown
        /\ \A u \in Current : u \in Users
        /\ \A u \in Users : db[u] # None => db[u].score \in Nat
    BY DEF IInv, TypeInv, Types, Current, StoreTypes, UserScore
  <2>1. ASSUME NEW u \in Current, db[u] # None
        PROVE  GetUserRank(ranking, u).score = db[u].score
    <3>1. u \in Users /\ zset[u] = db[u].score
      BY <2>t, <2>1 DEF Shown, ShownAs
    <3>2. u \in Ranked
      BY <2>t, <2>1, <3>1, NoneIsNew DEF Ranked
    <3> QED BY <3>1, <3>2 DEF GetUserRank
  <2>2. ASSUME NEW i \in DOMAIN ranking
        PROVE  LET entry == Entry(ranking, i) IN
               /\ [score |-> entry.score, rank |-> entry.rank] = GetUserRank(ranking, entry.user)
               /\ entry.user \in Current /\ db[entry.user].username # None
                      => entry.username \in Names
               /\ Current = Users =>
                      /\ Cardinality({u \in Users : Points(u) > entry.score}) < entry.rank
                      /\ entry.rank <= Cardinality({u \in Users : Points(u) >= entry.score})
    <3> DEFINE x == ranking[i]
    <3>1. /\ x \in Ranked /\ x \in Users /\ db[x] # None
          /\ GetUserRank(ranking, x) = [score |-> zset[x], rank |-> i]
      BY <2>t, <2>2, SameRankTwice DEF Ranked, Backed
    <3>2. ASSUME x \in Current, db[x].username # None PROVE names[x] \in Names
      BY <2>t, <3>1, <3>2 DEF Shown, ShownAs, StoreTypes
    <3>3. ASSUME Current = Users
          PROVE  /\ Cardinality({u \in Users : Points(u) > zset[x]}) < i
                 /\ i <= Cardinality({u \in Users : Points(u) >= zset[x]})
      <4>1. \A u \in Users : zset[u] \in Nat \cup {None} /\ Points(u) \in Nat
        BY <2>t DEF StoreTypes, Points
      <4>2. \A u \in Ranked : Points(u) = zset[u]
        BY <2>t, <3>3 DEF Ranked, Backed, Shown, ShownAs, Points
      <4>3. \A u \in Users \ Ranked : Points(u) = 0
        <5> SUFFICES ASSUME NEW u \in Users, zset[u] = None PROVE db[u] = None
          BY DEF Ranked, Points
        <5> QED BY <2>t, <3>3, NoneIsNew DEF Shown, ShownAs
      <4> QED BY <2>2, <4>1, <4>2, <4>3, RankIsFair
    <3> HIDE DEF x
    <3>4. /\ Entry(ranking, i).user = x /\ Entry(ranking, i).score = zset[x]
          /\ Entry(ranking, i).rank = i
          /\ Entry(ranking, i).username = IF names[x] = None THEN "Anonymous" ELSE names[x]
      BY DEF Entry, x
    <3>5. x \in Current /\ db[x].username # None => Entry(ranking, i).username \in Names
      BY <3>2, <3>4, NoneIsNew
    <3> QED BY <3>1, <3>3, <3>4, <3>5
  <2> QED BY <2>1, <2>2
<1> QED BY <1>1, Invariance, PTL

-----------------------------------------------------------------------------
(* The contract *)

LEMMA StepImplementsContract ==
    ASSUME OneWorker, IInv, [Next]_vars
    PROVE  [Board!Next]_(Board!boardVars)
<1>t. StoreTypes
  BY DEF IInv, TypeInv, Types
<1>1. CASE UNCHANGED <<db, zset>>
  BY <1>1 DEF Board!boardVars, Solved, Count, Points
<1>2. ASSUME NEW w \in Workers, Update(w) \/ (Insert(w) /\ db[User(w)] = None)
      PROVE  Board!Next
  <2> DEFINE u == User(w)
             worth == CalculatePoints(Job(w).difficulty)
  <2>1. /\ u \in Users /\ Job(w).problem \in Problems
        /\ Job(w).difficulty \in Difficulties
        /\ mem[w] \in UserScore /\ mem[w] # None /\ AwardOf(mem[w], Row(u), Job(w))
        /\ db' = [db EXCEPT ![u] = mem[w]]
    BY <1>2, SaveIsAward, NoneIsNew
  <2>2. UNCHANGED zset
    BY <1>2 DEF Insert, Update
  <2>3. worth \in {5, 10, 30, 50}
    BY <2>1, PointsAreWorth
  <2>4. /\ Solved(u) = Row(u).solvedProblemIds /\ Count(u) = Row(u).solvedCount
        /\ Points(u) = Row(u).score
    BY DEF Solved, Count, Points, Row, NewScore
  <2> HIDE DEF u, worth
  <2>5. \A v \in Users : db'[v] = IF v = u THEN mem[w] ELSE db[v]
    BY <1>t, <2>1 DEF StoreTypes
  <2>6. /\ Job(w).problem \notin Solved(u) /\ mem[w].solvedProblemIds = Solved(u) \cup {Job(w).problem}
        /\ mem[w].solvedCount = Count(u) + 1 /\ mem[w].score = Points(u) + worth
    BY <2>1, <2>4 DEF AwardOf, worth
  <2>7. \A v \in Users :
            /\ Solved(v)' = IF v = u THEN Solved(u) \cup {Job(w).problem} ELSE Solved(v)
            /\ Count(v)' = IF v = u THEN Count(u) + 1 ELSE Count(v)
            /\ Points(v)' = IF v = u THEN Points(u) + worth ELSE Points(v)
    <3> SUFFICES ASSUME NEW v \in Users
                 PROVE  /\ Solved(v)' = IF v = u THEN Solved(u) \cup {Job(w).problem} ELSE Solved(v)
                        /\ Count(v)' = IF v = u THEN Count(u) + 1 ELSE Count(v)
                        /\ Points(v)' = IF v = u THEN Points(u) + worth ELSE Points(v)
      OBVIOUS
    <3>1. CASE v = u
      <4>1. db'[v] = mem[w] /\ db'[v] # None
        BY <2>1, <2>5, <3>1
      <4>2. Solved(v)' = mem[w].solvedProblemIds /\ Count(v)' = mem[w].solvedCount
            /\ Points(v)' = mem[w].score
        BY <4>1 DEF Solved, Count, Points
      <4> QED BY <2>6, <3>1, <4>2
    <3>2. CASE v # u
      <4>1. db'[v] = db[v]
        BY <2>5, <3>2
      <4> QED BY <3>2, <4>1 DEF Solved, Count, Points
    <3> QED BY <3>1, <3>2
  <2>8. [v \in Users |-> Solved(v)]'
            = [[v \in Users |-> Solved(v)] EXCEPT ![u] = @ \cup {Job(w).problem}]
    BY <2>1, <2>7
  <2>9. /\ [v \in Users |-> Count(v)]' = [[v \in Users |-> Count(v)] EXCEPT ![u] = @ + 1]
        /\ [v \in Users |-> Points(v)]' = [[v \in Users |-> Points(v)] EXCEPT ![u] = @ + worth]
    BY <2>1, <2>7
  <2>10. Board!Award(u, Job(w).problem, worth)
    BY <2>1, <2>2, <2>6, <2>8, <2>9 DEF Board!Award
  <2> QED BY <2>1, <2>3, <2>10 DEF Board!Next
<1>3. ASSUME NEW w \in Workers, Rank(w) PROVE Board!Next
  <2> DEFINE u == User(w)
  <2>1. /\ u \in Users /\ mem[w] = db[u] /\ mem[w] \in UserScore
        /\ zset' = [zset EXCEPT ![u] = mem[w].score] /\ UNCHANGED db
    BY <1>3, RunFacts DEF Rank, Draft, IInv, TypeInv, Loaded
  <2> HIDE DEF u
  <2>2. Points(u) = mem[w].score /\ mem[w].score # None
    BY <2>1, NoneIsNew DEF Points, UserScore
  <2>3. \A v \in Users : zset'[v] = IF v = u THEN mem[w].score ELSE zset[v]
    BY <1>t, <2>1 DEF StoreTypes
  <2>4. [v \in Users |-> IF zset[v] = None THEN 0 ELSE zset[v]]'
            = [[v \in Users |-> IF zset[v] = None THEN 0 ELSE zset[v]]
                  EXCEPT ![u] = [v \in Users |-> Points(v)][u]]
    BY <2>1, <2>2, <2>3
  <2>5. Board!Publish(u)
    BY <2>1, <2>4 DEF Board!Publish, Solved, Count, Points
  <2> QED BY <2>1, <2>5 DEF Board!Next, Board!Publish
<1>4. \/ UNCHANGED <<db, zset>>
      \/ \E w \in Workers : Update(w) \/ (Insert(w) /\ db[User(w)] = None) \/ Rank(w)
  BY DEF Next, Work, Enqueue, StallCheck, TakeJob, ReadNobody, ReadKnown, Rename, Insert, Select,
         Update, Rank, Label, Throws, Finish, Rethrow, Crash, Idle, vars, storeVars
<1> QED BY <1>1, <1>2, <1>3, <1>4

(***************************************************************************)
(* One process implements the contract of the leaderboard: a problem is    *)
(* awarded to a user at most once, points and count move with it, and the  *)
(* ranking's figure of a user only changes to the points of that moment.   *)
(***************************************************************************)
THEOREM ImplementsScoreboard ==
    ASSUME OneWorker
    PROVE  Spec => RefinesScoreboard
<1>1. Init => Board!Init
  BY DEF Init, Board!Init, Solved, Count, Points
<1>2. IInv /\ [Next]_vars => [Board!Next]_(Board!boardVars)
  BY StepImplementsContract
<1> QED
  BY <1>1, <1>2, Invariance, PTL DEF Spec, RefinesScoreboard, Board!Spec
=============================================================================
