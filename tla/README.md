# CodeArena: a TLA+ verification of the backend

CodeArena is a competitive-programming platform built from small services
(`docker-compose.yml` runs one process of each, with `restart: always`, one
Postgres database per stateful service and one Redis for all). A submission is
stored by execution-service, judged by Judge0 and reported over Redis to
realtime-service (the user's browser), social-service (achievements) and
leaderboard-service (points). Problems, contests, accounts, search, mail and
discussions are services of their own.

This directory holds TLA+ modules that model the services whose behaviour is
more than one row at a time, the TLC configurations that check them on small
instances, and proofs checked by TLAPS for every value of the constants.

## 1. Inventory

For each component: the state it keeps, its operations, whom it talks to, what
is hard about it, and what makes it correct.

### Submission processing (execution-service)

* **State.** The `submissions` table (status, results, errors), the Bull queue
  `submission-queue`, messages on the Redis channel `submission-verdicts`, jobs
  added to `leaderboard-queue`.
* **Operations.** `SubmissionService.create`: save the row, publish its status,
  add the job (`attempts: 3`, the submission's id as job id).
  `SubmissionProcessor.handleProcess` calls `processSubmission`: read the row,
  skip it unless PENDING, write PROCESSING, publish, read again, fetch the
  problem over HTTP, judge, store the verdict, read again, publish, and for
  ACCEPTED add the leaderboard job. Any error is caught and stored as
  INTERNAL_ERROR.
* **Hard.** Every `await` is a point at which another worker runs, the process
  dies, or the call fails with or without having taken effect; Bull hands a job
  out again after a crash; the idempotency check and the write that should
  close it are separate calls; the catch block may overwrite a verdict.
* **Correct when.** One submission is processed by one worker at a time; what
  the user is told is what is stored; nothing the API acknowledged is lost
  silently; at most one leaderboard job per submission, and only for an
  accepted one; every acknowledged submission gets an outcome.

### Judging (execution-service)

* **State.** Local variables of `Judge0Service.batchExecute`: results, number
  passed, first compilation error, first runtime error.
* **Operations.** One Judge0 call per test through `executeCodeWithRetry`;
  classification of the answer; the verdict.
* **Hard.** The verdict is derived from variables set in different iterations;
  "runtime error" has two sources with and without a text; failures of the
  call are results too.
* **Correct when.** The verdict agrees with the recorded tests and follows from
  the answers of Judge0, wherever in the list they occur; a test that died is
  reported as a runtime error; a submission that does not compile has no results.

### Leaderboard (leaderboard-service)

* **State.** `user_scores` in Postgres; in Redis a sorted set
  `leaderboard:global` and a hash `leaderboard:usernames`; `leaderboard-queue`.
* **Operations.** `ScoreProcessor.handleSubmissionAccepted` calls
  `ScoreService.updateScore`; the ranking is read from Redis.
* **Hard.** Two stores that do not change together; a job cut short between
  them is not repaired by its retry, which returns at "already solved";
  `save()` is a read, a comparison and an update of the changed columns.
* **Correct when.** A problem counts once per user; points, count and problems
  move together; the ranking follows the rows; no job is lost silently.

### Contests and contest scoring (contest-service)

* **State.** `contests` (status, four dates, limit), `contest_problems`,
  `contest_participants` (status, scores, per-problem details in one JSON
  column).
* **Operations.** create, update, updateStatus, delete; registerParticipant in
  a transaction that locks the contest row; startParticipation,
  submitSolution; in `ContestScoringService` the ICPC score, the ranking,
  finalizeContestResults and autoTransitionContestStatus (the service is in no
  module's providers, and nothing calls it periodically yet).
* **Hard.** Checks on rows read earlier; a limit that concurrent registrations
  compete for; dates compared with a moving clock; a participant that is
  loaded, scored in memory and saved while the next submission may be sent; a status change that depends on a
  computation that requires the new status already.
* **Correct when.** Registration never exceeds the limit; dates stay ordered;
  a cancelled or ended contest stays so; a problem is scored once; ranks are a
  total order consistent with score, penalty and time; an active contest ends.

### Authentication (auth-service)

* **State.** `users` (password hash, refresh token hash, token version, profile,
  role); a Redis blacklist of tokens; the cookies of the browsers.
* **Operations.** signup, login, refreshAccessToken (rotation), logout; editing a
  profile; promotion to administrator.
* **Hard.** Hash and version are written by two calls from values read before;
  two refreshes with one token; the tokens just issued carry the version that
  is incremented after them; a promotion writes every column back.
* **Correct when.** A refresh token is spent once; a logout ends the session; a
  revoked token stays refused; a refreshed session can be refreshed again; a
  stored edit stays.

### Problems and search (problem-service, search-service)

* **State.** Problems and test cases in Postgres; the Meilisearch index; events
  on `problem-events` between them.
* **Operations.** create, update, delete in a transaction that publishes an
  event; adding and deleting a test case; the listener indexes or deletes a
  document; search by title and filters.
* **Hard.** The event leaves before the commit; publish errors are swallowed;
  pub/sub drops messages nobody hears; tags are rows of their own table, so an
  update of a title and one of the tags do not meet; the serializer decides
  what the listener reads as an id; the listener awaits inside a callback.
* **Correct when.** The tables stay consistent, the last event heard of a problem
  is what they say, and the index holds it.

### Realtime and social (realtime-service, social-service)

* **State.** Sockets and their rooms; follows, activities, notifications,
  achievements.
* **Operations.** connect, verify, join and leave a room, disconnect; relay of
  verdicts and notifications; follow, unfollow, award an achievement for an
  accepted verdict; read the feed, mark a notification as read.
* **Hard.** Messages reach only whoever is connected; a token is verified
  asynchronously; an achievement is awarded for every accepted message; a
  failed call fails a task whose earlier rows stay.
* **Correct when.** A message reaches only its user's sockets and is true; each
  award and follow is told once; whoever is in the room gets what is relayed.

### Email (email-service)

* **State.** A BullMQ queue, mail history, preferences.
* **Operations.** queue a mail; the processor sends it and records it; read and
  update the preferences of a user.
* **Hard.** Sent and then not recorded; a worker that dies between the two;
  preferences written after a read.
* **Correct when.** What is recorded was sent; an error sends nothing twice; a
  queued mail is settled; an update keeps what it does not name.

### Not modelled, by decision

discussion-service (single-row create, read, update, delete), ai-service
(stateless calls of a model), api-gateway (stateless proxy), shared
configuration and scripts, and read-only endpoints that do no more than list
rows.

## 2. Plan

Most important behaviour first. Each step is a module that EXTENDS only the
standard modules (and INSTANCEs `BullQueue` where it has a queue), an MC module
with its values, and proofs in a module of their own.

| # | Module | Models | State |
|---|--------|--------|-------|
| 1 | `BullQueue` | the job queue (external) shared by 2, 4 and 10 | done |
| 2 | `Submission`, contract `SubmissionLifecycle` | execution-service, submissions | done |
| 3 | `JudgeBatch` | execution-service, the verdict | done |
| 4 | `Leaderboard`, contract `Scoreboard` | leaderboard-service | done |
| 5 | `Contest` | contest-service, status, registration, participation | done |
| 6 | `ContestScoring` | scores of a participant, overlapping submissions, ranking and the ICPC formula | done |
| 7 | `Sessions` | auth-service | done |
| 8 | `ProblemIndex` | problem-service and search-service over pub/sub | done |
| 9 | `Notifications` | social-service and realtime-service, fed by the contract of 2 | done |
| 10 | `Email` | email-service | done |
| 11 | `Pipeline` | composition of 2 and 4: credits of submissions as leaderboard jobs | planned |

Composition so far: `Submission`, `Leaderboard` and `Email` each compose their
service with `BullQueue`; `Notifications` composes realtime-service and
social-service with `SubmissionLifecycle`, the contract that `Submission` is
shown to implement; `ProblemIndex` composes problem-service and search-service.

Theorems: `ExecutionProofs` (about `Submission` and `JudgeBatch`),
`LeaderboardProofs`, `ContestProofs`, `ContestScoringProofs`, `SessionsProofs`,
`EmailProofs`, `ProblemIndexProofs` and `NotificationsProofs` (section 6): every
safety property of a passing run is a theorem.

## 3. The modules and the code

### BullQueue (external)

Bull is a dependency, so the queue is modelled from its use: `Add` ignores a
known job id (`submission.service.ts:81`), `Take` gives a waiting job and its
lock to a worker, `Complete` and `Fail` end an attempt (`attempts`, line 82),
`Abandon` is the death of the worker and `Stall` the check that hands an active
job without a lock out again, at most `MaxStalls` times. `LockLoss` says whether
a worker that is alive can lose its lock (an event loop blocked for longer than
the lock lasts). Backoff delays are not modelled: a retried job is waiting.

### Submission and SubmissionLifecycle

`row`, `client`, `announced`, `credits` are the status column, the progress of
`create()`, the last status pushed to the user and the leaderboard jobs added;
`pc`, `at`, `seen`, `verdict` are a worker's local state. One action is one
awaited call:

| Action | `submission.service.ts` |
|--------|------|
| `CreateSave`, `CreatePublish`, `CreateEnqueue` | 74, 77, 80 |
| `CreateFails` | an error of 77 or 80, or the death of the process |
| `TakeJob`, `Lookup`, `Mark` | the processor; 134-140; 143 |
| `Fetch` | 146-153 (the message at 146 has no userId and reaches no room) |
| `NoTests`, `Judge`, `Store`, `Refetch`, `Announce`, `Credit` | 153, 162, 189, 192, 193, 201 |
| `Throws`, `Rescue`, `RescueFails` | any call that fails; 210-216; its own failure |
| `Finish`, `Rethrow`, `Crash`, `StallCheck` | the ends of a job |

A call that fails may have taken effect (its answer is lost): the second
disjunct of `Proceed`. `struck` is a history variable: submissions whose row a
fault left PROCESSING (later attempts skip it) or whose job the queue dropped
while PENDING. `SubmissionLifecycle` is the contract: PENDING, then PROCESSING
once, then one verdict, INTERNAL_ERROR at any time, one credit while ACCEPTED.

### JudgeBatch

One action per Judge0 call, one for the rest of the loop body, one for the
verdict (`judge0.service.ts:266-352`). An answer is a status id, the class of its
description and whether the outputs agree: exactly what the code branches on.
`answers` is a history of what each result came from; the reference definition
of the verdict (`VerdictIsFirstCause`) is stated on it and not on the variables
of the loop. Its order of causes is that of the chain of conditions in the code:
nothing in the repository documents one. Where the first test that died has no
text (any Judge0 id but 7 and 12) it says only that the submission is not
accepted, and `VerdictMatchesTests` says nothing of the results of a submission
that does not compile: what the comments and tests of the repository expect there
are `RuntimeErrorIsReported` and `CompilationErrorHasNoResults`, and the code
does neither (section 5). Names that `Submission` has too carry a prefix here (`BatchInit`,
`BatchTypeOK`, ...), so that `ExecutionProofs` can extend both.

### Leaderboard and Scoreboard

`db` is the table, `zset` and `names` are Redis. The ranking and the names of
`getGlobalRanking`, and the score and the rank of `getUserRank`, are awaited one
after the other; in the model they are read at one moment, so nothing is said of
a read that an award overtakes. `updateScore` is split at its
awaits: `ReadNobody`/`ReadKnown` (24), `Rename` (39), `Insert` or
`Select`/`Update` (53: TypeORM reads the row again and writes the columns that
differ), `Rank` (56), `Label` (58). `missed` is a history variable: users whose
last save was cut short before Redis. `Scoreboard` is the contract.

### Contest

`contest` is the row, `seats` the participants' statuses, `solved` who has a
problem with `solvedAt`, `lock` the row lock, `auto` the periodic transition,
`now` the clock. Requests have slots; each is a check on rows read now and a
write later, as in the code. A rejected request changes nothing and is not an
action. Two things are assumed of what is outside `src/`: that the query of
`registerParticipant` locks the contest row and reads the participants under
that lock, as its comment says (Postgres may refuse FOR UPDATE together with the
left join TypeORM generates for `relations`; the model is of what the code asks
for), and that `PartialType` keeps the initial values of `CreateContestDto`, so
that an update without `isPublic` writes TRUE. Nothing in the repository calls
`autoTransitionContestStatus`, and `app.module.ts` does not provide
`ContestScoringService`: in `Spec` the transition may happen at any moment and is
never owed, so no contest starts or ends by itself. `ScheduledSpec` is the
program with the call "periodically" that the comment of the method speaks of;
only `contest_autoend` uses it, to show that the call alone would not be enough.

What a contest's pages show are operators over the row, the seats and the clock:
`ContestResponse` and `ContestSummary` are the two response DTOs with their
computed fields (`isActive`, `timeUntilStart`, ...), `FindAll` the list with its
filters, `UserParticipation` and `ParticipationStats` the participation and the
counts of `getAnalytics`. `PageIsTrue` relates them to each other and to the life
of the contest.

### ContestScoring

`db` is the participant's row, `mem[r]` the object request `r` loaded and
scored, `cols[r]` the columns `save()` will write. `Submit` is the read and
`updateProblemScoreICPC`, `Select` and `Update` the two statements of
`save()` (`contest.service.ts:305`); the columns that differ from the row *as it
is at the select* are written, and `updated_at` with them (`updated`). Any number
of requests of one user overlap: nothing in `submitSolution` makes him wait.
Two histories: `judged`, the submissions saved for each user and problem, and
`raced`, the users who had two in flight at once. `DetailsMatchSubmissions` says
of everybody that the entry of a problem is made of saved submissions, whole
ones and in their order (`MadeOf`), and of all of them unless the user is in
`raced`; the counters, which are columns of their own, are compared with the
details for the users who are not. The status checks of `submitSolution` are
those of `Contest`.

What is computed from the rows are operators: final scores, penalties and the
comparator of `rankParticipants` (with the fractions of the ICPC formula scaled
to integers), `getContestLeaderboard` as the set of orders its sort may produce
(`Leaderboards`), and the statistics and acceptance rates of a result. Today
`finalizeContestResults` throws on a row with a solved problem (`solvedAt` comes
out of a JSON column as a string and has no `getTime()`: `Contest!Finalize`), so
what `RankingIsFair` and `FiguresAddUp` say of final results is a statement
about the computation, not about results anybody has seen. The column
`penaltyTime`, which the live leaderboard selects, is written by nobody.

### Sessions

`account[e]` is the user's row, `tokens` the pairs issued so far with what their
payload says, `revoked` the blacklist, `cookie[b]` the pair in a browser's
cookies, `req[h]` the request a handler is working on.

| Action | `auth.service.ts` unless said otherwise |
|--------|------|
| `SignupLookup`, `SignupRefused`, `SignupSave` | 23; 24; 30 and the unique index on `email` |
| `LoginRead`, `LoginSave` | 80; 90, then the answer |
| `RefreshCheck`, `RefreshRead` | 117; 132 and the checks of that row up to 145 |
| `RefreshRotate`, `RefreshBump` | 152 the hash; 157 the version, then the answer |
| `RefreshStale`, `RefreshRefused`, `RefreshAlert` | 141; 133-138; 143 |
| `Logout`, `LogoutRefresh`, `LogoutAccess`, `LogoutRemove` | 168; 173; 178; 184 |
| `ClearCookies` | `auth.controller.ts`: POST /auth/logout |
| `EditCheck`, `EditWrite`, `EditAnswer` | the guard of `profile.controller.ts`; `user.service.ts:48`; 49 and the answer |
| `PromoteRead`, `PromoteWrite` | `user.controller.ts:24`; 29-30 |

`POST /auth/logout` only clears the cookies (it sets the headers, and never sends
the response it has taken over with `@Res()`), and no route calls
`AuthService.logout`: it is modelled as the operation of the service that it is.
Every step may be the last (`RequestFails`): a call that fails after its write is
the failure of the step that follows, so an edit whose answer is lost is
`EditWrite` and then `RequestFails`. `edited` and `shown` are what the last edit
of an account wrote and what the last answer showed.
A blacklist call that fails is swallowed and ends a logout before the hash is
removed. bcrypt reads 72 bytes of a token, which end inside the user id: the
hash tells users apart, and not one token of a user from another; the model has
only what the comparison sees (`hash` is set or not). A browser may miss the
answer of a refresh, which keeps an old pair in use: that is how a second client
is represented. `overlapped`, `ended`, `settled` and `raced` are history
variables that name exactly the overlaps a property leaves out.

### ProblemIndex

`rows`, `tags` and `tests` are what is committed (the tags of a problem are the
table `problem_tags`, `Problem.java:58-61`), `tx[w]` an open transaction,
`requests` the HTTP requests to Meilisearch on their way, `index` its documents.
A transaction reads and decides (`CreateBegin`, `UpdateBegin`, `DeleteBegin`),
inserts a new row and its test cases (`CreateInsert`), rewrites the test cases
(`RewriteTests`), publishes while it is open (`IndexSent`, or `IndexLost`:
`SearchService` catches the error, or nobody is subscribed) and ends in `Commit`
or `Rollback`. Isolation is READ COMMITTED, the default of Postgres: what a
transaction has read may have changed when it writes, an UPDATE of a row another
transaction removed is an optimistic-lock error of Hibernate, a title that is
being inserted makes the second transaction wait. A row is written, all its
columns, when one of them differs from what was read (`Dirty`), and not at all
when only the tags change; tags are written when the request gives them and are
loaded when the event is made (`TagsLeft`).

An event carries the id as `RedisConfig.java:19` serializes it: a `Long` becomes
`["java.lang.Long", n]` (`Published`), which the listener hands to Meilisearch as
it parsed it (`problem-event.listener.ts:23-29`), and Meilisearch takes integers
and strings for ids only. `Apply` therefore changes nothing today, whatever the
order in which `Apply` and `ApplyFails` take the requests, and what is checked and
proved is about the event: `heard[i]` is what the last event that was received
says of problem `i` (`EventsFollowTable`). `SearchProblems` is the search by title
and filters; `EventsAreIndexed` says that it finds a document whose request was
answered, which would be true if ids were accepted; `ProblemSearch.cfg` shows that
it is not. `behind` is a history
variable: the problems of which the last event may be wrong, and until when;
`alone` says of a transaction that none of its problem overlapped with it.

### Notifications

Three services in one module. The statuses of submissions follow
`SubmissionLifecycle` (instantiated, so that each write of a row here is a step
of the contract that `Submission` implements), with the messages `create()` and
`processSubmission` publish. `heard` and `wire` are what the two subscribers
have yet to handle. A follow and an award are tasks of one shape: `SaveFollow` or
`SaveAchievement`, `CreateActivity`, `SaveNotification`,
`PublishNotification` (`social.service.ts:29-40`, `93-104`), each of which may
fail and end the task (`TaskFails`), keeping what is saved: a save that threw after
its commit is the failure of the step behind it, and a publish that threw may
have been heard. `Connect`, `Verified`, `JoinRoom`,
`LeaveRoom`, `Disconnect` and `Relay` are the handlers of
`realtime.gateway.ts`; `ExtractToken` is the order in which a handshake is
searched for a token. The feed, the notifications and the achievements of a user
are operators over the tables. The `TypeOrmModule.forFeature` of social-service
does not list the entity `Activity`, which `SocialService` injects; the module
models the service with it registered.

### Email

One action per call: `QueueMail` and `QueueFails` answer the caller, `Send`
(`email.service.ts`, the SMTP server may have taken a mail whose call failed),
`Record` (94; the row may be committed although the save throws, `RecordFails`,
and `unanswered` remembers the mails of such saves), the ends of a job, `Crash` and
`StallCheck`. The options of a job
give no attempts. The second half is `updateEmailPreferences`: `FindPreferences`
(116), then `InsertPreferences` and `InsertRefused` (the unique column
`userId` keeps the second insert out) or `ComparePreferences` and `WritePreferences`, the two
statements of `save()`. No route reaches it yet.

## 4. The runs

| Run | Bounds | Shows |
|-----|--------|-------|
| `submission` | 2 submissions, 2 workers, 2 attempts, 1 stall, 4 faults | `SingleProcessing`, `AnnouncedVerdictIsStored`, `NoneForgotten`, `StruckIsNeverJudged`, the contract `RefinesLifecycle`, and the liveness `Settles` |
| `judge` | 1 to 4 tests, 9 kinds of answer | `VerdictMatchesTests`, `VerdictIsFirstCause` |
| `leaderboard` | 2 users, 2 problems, 4 jobs, 1 process, 2 faults | `RowAddsUp`, `RankingIsCurrent`, the contract `RefinesScoreboard`, the liveness `EveryJobCounts` |
| `contest` | 2 users, 2 requests at a time, 4 requests, clock to 5 | `RegistrationIsLegal`, `ContestIsConsistent` (`SeatsFollowContest` and `PageIsTrue`) |
| `contest_autoend` | as above, 2 requests, `ScheduledSpec` | violated: an over-due contest stays ACTIVE, even if the transition were called for ever |
| `contest_scoring` | 2 users, 2 problems, 2 requests in flight (of one user or of two), 4 submissions | `RowsMatchSubmissions`, `FiguresAddUp`, `RankingIsFair` |
| `sessions` | 1 account, 1 browser, 2 requests in flight, 3 pairs of tokens, 1 edit, written and answered in separate steps | `SpentOnce`, `LogoutEndsSessions`, `RevokedStaysRevoked`, `ProfileIsLastEdit` |
| `sessions_refresh` | as above, 1 request at a time | violated: a refreshed pair cannot be refreshed |
| `problem_index` | 2 problems, 2 titles, 1 tag, 2 transactions at a time, 3 in all, 1 test case | `TablesAreConsistent`, `EventsFollowTable` |
| `problem_metadata` | as above, 1 transaction at a time | violated: an update commits without an event |
| `notifications` | 1 submission, 1 follow, 2 users, 1 socket that may reconnect | `InboxIsTrue`, `EachIsToldOnce`, the liveness `AcceptedIsNotified` and `PublishedIsReceived` |
| `email` | 2 mails, 2 workers, 3 deaths, 2 updates of preferences | `DeliveryIsTrue`, `PreferencesAreKept`, the liveness `QueuedIsSettled` |

Every passing run checks its module's type invariant as well.

**Further configurations** answer narrower questions. These show a counterexample:

| Configuration | Violated | Because |
|---|---|---|
| `SubmissionRethrow.cfg` | `FailedAttemptIsRethrown` | an error of an attempt is stored and never reaches Bull |
| `SubmissionLockLoss.cfg` | `SingleProcessing` | two workers process one submission when a live worker loses its lock |
| `JudgeRetry.cfg` | `FailedCallIsRetried` | a failed Judge0 call is a result and is not made again |
| `JudgeRuntime.cfg` | `RuntimeErrorIsReported` | a runtime error whose id is neither 7 nor 12 gives WRONG_ANSWER |
| `JudgeCompilation.cfg` | `CompilationErrorHasNoResults` | a submission that does not compile is stored with a test result |
| `ContestCancelled.cfg` | `CancelledIsFinal` | `update()` revives a cancelled contest |
| `ContestOverlap.cfg` | `CountersAlwaysMatch` | two overlapping submissions of one user leave counters that disagree with the problems |
| `ContestTiebreak.cfg` | `EarlierCompletionFirst` | `updated_at`, the tie-break, moves with every later submission |
| `ProblemSearch.cfg` | `EventsAreIndexed` | the typed id of an event is not one Meilisearch takes |

`ProblemColumns.cfg` is `problem_index` with two contents, so that a row also
changes without its title; it passes (3 582 482 states), and is apart from the
others for its length only.

**Why the bounds are enough.** In `submission` the attempts are shortened from 3
to 2, so that four faults can exhaust them and still hit another place; two
submissions show that jobs do not disturb each other, two workers every
overlap; the proofs cover every number. In `judge` the verdict depends on which
answers occur, on the first test and on the first runtime error: four positions
contain every order of these. In `leaderboard` the four jobs are a first solve,
the same problem again under another name, another problem under the old name,
and a user without a name; one process is what `docker-compose.yml` runs. In
`contest` creation takes one of the four requests; two racing registrations and
an update, or register, start and submit, fill the rest; dates are 1, 2 and 3
and the clock stops at 5, after the end.
In `contest_scoring` four submissions are enough for one user to have two in
flight that mix their columns and to submit once more, or for wrong, right and
right again on one problem while the other user solves the same; one problem is
worth so little that a wrong attempt brings its score to zero, where the formula
is cut off. The cap of 500 penalty minutes needs 100 wrong attempts and is not reached.

In `sessions` accounts share nothing but the blacklist, which is keyed by token,
so one account suffices; two requests give every overlap of two of login,
refresh, logout and promotion, and three pairs are a login, its refresh and one
more of either while the first is still in use. In `problem_index` one
transaction creates a problem and two more race for its title, change its title
and its tags, or update and delete it; a fourth would only repeat what two do.
The other columns of a problem go with its title (`ProblemColumns.cfg` tells them
apart). In `notifications` the socket closes and reconnects
as the other user while messages are on their way, and there is one task of each
kind; unfollowing lets a pair be inserted again. In `email` two mails and two
workers show that jobs are independent; three deaths are more than one job
survives; two updates overlap at every statement.

**Fairness.** A process that is up runs its code (`WF` on `Work`, `WorkerStep`,
`TaskStep`), idle workers poll the queue (`WF(TakeJob)`; in `Email` it is part of
`WorkerStep`), Bull's stalled-job check is a timer (`WF(StallCheck)`), the two
Redis subscribers handle what was delivered to them (`WF(Relay)`, `WF(Hear)`);
`restart: always` brings a dead process back. Faults, requests, connections and
enqueues are never owed: `TaskStep` includes the step in which a task's call fails, so a task ends, not necessarily
well. Weak fairness is enough everywhere: none of these steps is disabled by
another process once enabled, except by progress. `Contest`, `ContestScoring`,
`Sessions` and `ProblemIndex` state no liveness and no fairness: every request
may fail for good, an event may be lost for good, and nothing in the code makes
up for it. No process of the repository calls
`autoTransitionContestStatus`, so `Contest`'s specification does not assume that
anything does. Only the violated run `contest_autoend` uses `ScheduledSpec`, which
grants what the method is written for (the clock ticks, the transition is
called again and again, requests that were let in run to their end), to show that
the contest is not ended even then.

**Deadlock** is checked, with an explicit `Idle` step for the states in which
the service only waits, except in the configurations of `JudgeBatch` (a batch
ends) and in two narrow ones of `Contest` whose requests and clock run out
(`ContestAutoEnd.cfg`, `ContestCancelled.cfg`).

## 5. What was found

With a run of its own each:

* A contest is never ended automatically (`contest_autoend`): results are
  finalized before the status is written, and finalizing requires ENDED.
* A refreshed session cannot be refreshed again (`sessions_refresh`): the new
  pair carries the version that is raised right after it is issued, so the next
  refresh looks like a reuse of a replaced token. The rotation thus ends every
  session at its second refresh.
* An update of a problem without test cases is never announced to the index
  (`problem_metadata`), which the repository's own unit test expects.

Shown by the further configurations:

* Errors of an attempt never reach Bull (`SubmissionRethrow.cfg`): the catch block
  of `processSubmission` stores INTERNAL_ERROR and returns, so the retries
  configured for the job are used only when that update fails too, and the
  retried attempt then skips the row it finds PROCESSING.
* The idempotency check is only as good as the queue's lock
  (`SubmissionLockLoss.cfg`): check and mark are two calls.
* A failed Judge0 call is a result, never a retry (`JudgeRetry.cfg`).
* A non-zero exit is a wrong answer (`JudgeRuntime.cfg`): `judge0.service.ts:55`
  names 7 as the id of a runtime error and comments it "(NZEC)", and
  `submission.service.spec.ts:116-138` expects a runtime error to become the
  verdict. Judge0 has several ids for runtime errors, and 11 for NZEC (line 58 calls 11
  MEMORY and nothing uses it); the test is
  recorded as RUNTIME_ERROR (line 298), but for ids other than 7 and 12 the
  verdict is WRONG_ANSWER.
* A submission that does not compile has a test result (`JudgeCompilation.cfg`):
  `submission-verdict.spec.ts:147-161` and
  `submission-verdict-integration.spec.ts:217,252-253` say that `testResults` is
  null after a compilation error; the code records the first test and stores it.
  The tests build the row by hand and pass.
* `update()` revives a cancelled contest (`ContestCancelled.cfg`).
* Two submissions of one user that overlap leave counters that do not match the
  problems (`ContestOverlap.cfg`); the entry of each problem stays true to the
  submissions that got into it, and a user who waits for each answer is safe.
* The live leaderboard's tie-break is the time of the last submission, not of the
  last solve (`ContestTiebreak.cfg`).
* No event is ever indexed (`ProblemSearch.cfg`): `GenericJackson2JsonRedisSerializer`
  (`RedisConfig.java:19`) sends the id as `["java.lang.Long", n]`, and the listener
  (`problem-event.listener.ts:23-29`) passes what it parsed on as the id of the
  document, which has to be an integer or a string.

Seen while modelling, with no run that shows it:

* One refresh token can be exchanged twice: two refreshes with it that overlap
  both pass the comparison with the stored hash before either writes
  (`auth.service.ts:147-158`), and both answer with a pair. `SpentOnce` excepts
  exactly this (`overlapped`).
* social-service does not start as it is: `SocialService` injects the repository
  of `Activity` (`social.service.ts:22`), and `TypeOrmModule.forFeature`
  (`app.module.ts:31`) leaves that entity out. `Notifications` models the service with the entity registered.
* `autoTransitionContestStatus` and `finalizeContestRankings` are called by
  nobody: `ContestScoringService` is not a provider of contest-service's module.
  What the project says of them is about the method, not about the deployment.
* `POST /auth/logout` clears the cookies of a response it takes with `@Res()` and
  never sends; and it does not call `AuthService.logout`.
* A title update and a tags update of one problem that overlap both commit, and
  the last event has only one of the two changes (tags have a table of their own,
  `Problem.java:58-61`). `EventsFollowTable` excepts it (`alone`).

Holding, and worth knowing: a verdict shown to a user may later be replaced by
INTERNAL_ERROR (a publish or an add that fails after the verdict was stored), and
that replacement is announced to nobody; a leaderboard run cut short between
Postgres and Redis leaves the ranking behind until the user solves another
problem, because the retry returns at "already solved"; an event that fell behind
the tables stays the last one until the problem is published again; a mail whose
record could not be saved fails as a job and is not sent again; a promotion
undoes a profile edit made while it runs; two overlapping updates of preferences
may undo each other's columns; a user is awarded an achievement for every
accepted submission, the same problem included.

## 6. The proofs

Every theorem is proved for all values of the constants under the module's named
assumption, which TLC evaluates on every run. `NoneIsNew`-like lemmas restate of
an assumption what the steps need.

| Module | Theorems (the property of a run each states) | Beyond the assumption |
|--------|------|------|
| `ExecutionProofs`, of `Submission` | `TypeCorrect` (`TypeOK`), `OneWorkerAtATime` (`SingleProcessing`), `NoFalseAnnouncement` (`AnnouncedVerdictIsStored`), `NothingForgotten` (`NoneForgotten`), `StruckStaysUnjudged` (`StruckIsNeverJudged`), `ImplementsLifecycle` (`RefinesLifecycle`) | `~LockLoss` |
| `ExecutionProofs`, of `JudgeBatch` | `BatchTypeCorrect` (`BatchTypeOK`), `VerdictsMatchTests` (`VerdictMatchesTests`), `VerdictsHaveTheirCause` (`VerdictIsFirstCause`) | |
| `LeaderboardProofs` | `TypeCorrect`; `RowsStayTrue` (`RowAddsUp`), `RankingStaysCurrent` (`RankingIsCurrent`), `ImplementsScoreboard` (`RefinesScoreboard`) | `OneWorker`, except for `TypeCorrect` |
| `ContestProofs` | `TypeCorrect`, `ContestStaysConsistent` (`ContestIsConsistent`), `RegistrationsAreLegal` (`RegistrationIsLegal`); `SeatsFollow` is a part of the second | |
| `ContestScoringProofs` | `TypeCorrect`; `RowsHold` (`RowsMatchSubmissions`), `FiguresHold` (`FiguresAddUp`), `RankingHolds` (`RankingIsFair`) | |
| `SessionsProofs` | `TypeCorrect`, `TokensAreSpentOnce` (`SpentOnce`), `LogoutIsFinal` (`LogoutEndsSessions`), `EditsAreKept` (`ProfileIsLastEdit`), `RevocationLasts` (`RevokedStaysRevoked`) | |
| `EmailProofs` | `TypeCorrect`, `DeliveriesAreTrue` (`DeliveryIsTrue`), `PreferencesStay` (`PreferencesAreKept`) | |
| `ProblemIndexProofs` | `TypeCorrect`, `TablesStayConsistent` (`TablesAreConsistent`), `EventsStayCurrent` (`EventsFollowTable`) | |
| `NotificationsProofs` | `TypeCorrect`, `InboxStaysTrue` (`InboxIsTrue`), `EachToldOnce` (`EachIsToldOnce`) | |

The two extra hypotheses are what the repository deploys: a live worker keeps its
lock (`SubmissionLockLoss.cfg` shows what happens otherwise), and one
leaderboard process (`docker-compose.yml`; two of them may undo each other's
awards, because `save()` writes only the columns that differ from the row as it
is read again).

None of the invariants is inductive by itself. What each `IInv` adds:

* **Submission.** `Locks` (a busy worker holds the lock of an active job, and a
  lock has a busy worker) gives exclusion, which every statement about "the"
  worker of a submission needs; `Clients` (jobs exist only for rows whose
  `create()` got to the add); `Steps` (what the row holds at each call: PENDING
  at the mark, PROCESSING until the store, the verdict after it); `Rows` (a row
  left PROCESSING without being struck has a worker at one of the calls that
  will settle it; a PENDING row is struck exactly when its job was dropped);
  `Credits`. The refinement maps each write of the row and each credit to the
  contract's action and everything else to a stutter.
* **JudgeBatch.** The variables of the loop are functions of the answers so far:
  `Recorded` (every recorded status is the classification of its answer),
  `Counted` (`passed` counts the passing ones), `CompilationNoted`,
  `RuntimeNoted` and `TextNoted` (each error variable is set exactly by the
  answer the code takes for that error). `StatusTellsAnswer` is the lemma about the
  classification; appending one result changes each of them in one way.
* **Leaderboard.** `Draft` says what the object of a run is at each call: the row
  itself while it is renamed and ranked, the row with one award before the save,
  and `cols` the columns in which the two differ, so that the save writes an
  award (`SaveIsAward`, from `WrittenRow`). `RowsAddUp` follows because an award
  keeps the figures in agreement (`AwardAddsUp`, with the cardinality of the
  solved problems). `Shown` says that a user who is current has the points of
  the row in Redis; `RankIsFair` turns it into bounds for a rank by two
  injections, from the better users into the places before it and from those
  places into the users at least as good. The refinement maps a save to `Award`
  and the zadd to `Publish`.
* **Contest.** A request acts on what it read earlier, so `RequestsOK` says of
  every label what is still true of what the request remembers: a status that was
  read is in `past` (`PastOK`), and what `registerParticipant` has checked stays
  true because no write passes the lock it holds. `AutoOK` and `BeginningOK` say
  the same of the periodic transition and of the dates.
* **ContestScoring.** Submissions of one user may overlap, and the properties say
  of everybody what overlapping leaves true. `Based` says that the object a
  request scored is what some sequence of that user's saved submissions makes;
  every column that is written is such a one, whichever columns other requests
  write (`MadeByColumn`), and one more submission keeps it so (`MadeOfLonger`,
  `UpdateKeepsMade`). That is `RowsKept`, from which `RowsMatchSubmissions`
  follows. A history variable, `raced`, names the users who had two submissions
  in flight. For the others more is true: with one in flight (`OneAtATime`) the
  object is made of the row as it is *now* (`Current`), and the columns found at
  the select are still those in which the two differ (`Differing`), so that the
  write makes the row `UpdateProblemScore` of itself (`UpdateKeepsCounted`,
  `UpdateKeepsDetails`); `LastSolves` (the time of the last solve is the latest of
  the problems') and `InOrder` (nothing was solved after the submission under way
  was sent) are needed by the ranking, whose last key is that time.
  `RankingHolds` follows the arithmetic of the code: of one problem, more
  wrong attempts or a later time never score higher (`ScoreFalls`, through the
  integer division and the cap at 0), penalties grow (`PenaltyGrows`), sums keep
  both (`SumGrows`), and the tie goes to the time. For the live board, a
  superset of solved problems with no fewer points has a higher sum, or an equal
  one and more problems (`NoWorseScores`, `FinalFair`, `LiveFair`). `FiguresHold` counts the solved pairs of
  user and problem by rows and by columns (`SolvesAgree`, by `DoubleCounting`) and bounds the
  rounded average and percentage by `RoundedBetween`.
  The sums are the folds of the community modules: `FoldExists` shows that the
  recursive function `MapThenFoldSet` chooses exists, and `FoldIsUnique` that
  any choice of elements gives the same sum, so that a sum can be taken apart at
  any element (`SumByAny`). The induction this needs is stated as a fact about
  sets (`SubsetInduction`: a set of subsets that contains the empty one and
  every subset whose parts it contains, contains the whole; `NumberInduction`),
  because a theorem that takes an operator cannot be instantiated here.
* **Sessions.** As long as the refreshes of an account were not seen to overlap,
  one at a time is between its read and its writes (`OneWriter`), it has read the
  version that is still in the row (`Current`), its token is of that version and
  was not exchanged (`Unspent`), and an exchanged token is of an older version
  (`SpentIsOld`). `EndedIsOver` (after a logout no refresh that would store a hash
  is under way), `SettledIsRevoked` (none with a settled token has passed the
  blacklist) and `LastEdit` (a profile with no promotion since its last edit is that
  edit, and so is what an edit under way is going to answer) do the same for the other three properties.
* **Email.** `Locks`, `Handed`, `History` and `Unrecorded` follow a mail from the
  queue to the SMTP server and its record (a failed job has none unless its worker
  died or its save is in `unanswered`), `Orphans` names the jobs whose worker
  died. For the preferences `Told` and `Fresh` relate what a user was told to the
  row, and `Alone` says that an update nothing overlaps still has the row it read.
* **ProblemIndex.** The tables are consistent because of what an open transaction
  holds: `IdsAreFresh`, `CreatesAreAlone` (a problem that is being created is seen
  by nobody else), `TitlesAreHeld` (its title is in no row and in no other
  creation), `TestsHoldTheirProblem` (an update that adds test cases keeps the
  problem from being deleted). For the events, `AloneIsAlone`
  says that a transaction still called `alone` is the only one of its problem, so
  that what it read is the row and what it leaves is what it published; and
  `TableIsHeard` that the last event of a problem that is not `behind` and that no
  transaction has in hand says what the row and the tags say. A commit without
  its event, an event without its commit and two transactions that met all make
  the problem `behind` (`Unheard`, `EndKeepsEvents`), until a transaction that
  is alone publishes the problem again.
* **Notifications.** A message is followed from the publish to the socket: what is
  `heard`, on the `wire` or in an `inbox` is true (`MessagesAreTrue`), and the
  truth of a message lasts (`RowsForward`: a row only goes forward, and an
  announced verdict is at most replaced by INTERNAL_ERROR). `InOrder` says the
  same of two messages: no PENDING is behind a verdict of its submission, in an
  inbox, on the wire, or from one to the other. `SocketsOK` ties the room to the
  owner the token named. For the tables, `HeardOnce` (one ACCEPTED is heard of a
  submission, before anything was done about it) gives `RowsOfAwards` (one row of
  each kind), and `AwardsInOrder` which rows are there at each step of the task,
  so that a missing one means an award under way or one that failed.
  `FollowsCounted` counts notifications and unfinished tasks against the rows
  inserted: a follow has no identity in the tables, so it has to be a count.

The assumption of `Notifications` says that the statuses that are not verdicts
(PENDING, PROCESSING, INTERNAL_ERROR and no row) are none (`submission.entity.ts`
has one enumeration of distinct values; INTERNAL_ERROR is written where there is no
verdict and is never published; `Submission` assumes the same), that a follow request is not a submission (two
kinds of task), and that there are finitely many submissions.

What stays with TLC: the liveness properties (the prover does not reason about
ENABLED): `Settles`, `EveryJobCounts`, `AcceptedIsNotified`,
`PublishedIsReceived` and `QueuedIsSettled`; and the violations, which are
counterexamples. Every invariant and every refinement that a passing run checks
is proved.

## 7. What is not modelled, and why

* Texts, times and memory figures, authentication of requests (a request that is
  not allowed changes nothing), pagination (the limits of 20 and 50 rows) and
  endpoints that list rows.
* Two processes of a service that `docker-compose.yml` runs once, except the
  submission workers, where the queue is made for several. With two leaderboard
  processes the save at `score.service.ts:53` could overwrite an award.
* Redis or Postgres losing what they acknowledged.
* The expiry of tokens and of entries of the blacklist.
* Why Meilisearch refuses a document other than for the type of its id: any
  request to it may fail.
* The moments between the Redis reads of one `getUserRank` or `getGlobalRanking`:
  the answer is that of one moment (`Leaderboard.GetUserRank`). An award between
  two of the reads could make one answer mix two moments.
* Which of the test cases marked for removal Hibernate's cascade keeps when an
  update saves the problem: `RewriteTests` allows any of them.
* Saved problems, search history, filter presets, recommendations and trends of
  search-service: single-row writes that nothing else reads, and constants.
* discussion-service, ai-service, api-gateway, shared configuration, scripts:
  see section 1.
