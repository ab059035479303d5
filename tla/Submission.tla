----------------------------- MODULE Submission -----------------------------
(***************************************************************************)
(* execution-service: SubmissionService.create, the submission-queue and   *)
(* the workers that run SubmissionProcessor.handleProcess, which calls     *)
(* SubmissionService.processSubmission.                                    *)
(*                                                                         *)
(* One action is one awaited call (a row read or written, a message        *)
(* published, a job added) together with the code up to the next one, so   *)
(* that other workers, a crash or a failing call fall between any two.  A  *)
(* call may fail without effect (Throws), or take effect and fail all the  *)
(* same because its answer is lost (the second disjunct of Proceed).       *)
(***************************************************************************)
EXTENDS Naturals

CONSTANTS
    Ids,            \* ids the submissions table may hand out
    Workers,        \* execution-service processes consuming submission-queue
    None,           \* no worker, no submission, nothing read
    Verdicts,       \* the statuses batchExecute can return
    Attempts,       \* attempts of the 'process' job (3 in the code)
    MaxStalls,      \* maxStalledCount of the queue
    LockLoss,       \* can a live worker lose its job's lock?
    MaxFaults       \* bound: crashes and failing calls in one behaviour

ASSUME SubmissionAssumption ==
    /\ None \notin Workers /\ None \notin Ids
    /\ "ACCEPTED" \in Verdicts
    /\ Verdicts \cap {"ABSENT", "PENDING", "PROCESSING", "INTERNAL_ERROR"} = {}
    /\ None \notin Verdicts
    /\ Attempts \in Nat \ {0} /\ MaxStalls \in Nat /\ MaxFaults \in Nat
    /\ LockLoss \in BOOLEAN

VARIABLES
    row,            \* row[s]: the status column, "ABSENT" before the insert
    client,         \* client[s]: how far the create() that inserted s has come
    announced,      \* announced[s]: last status published to the user's room
    credits,        \* credits[s]: 'submission.accepted' jobs added for s
    pc,             \* pc[w]: the call worker w makes next
    at,             \* at[w]: the submission it is processing
    seen,           \* seen[w]: the status of the row it last read
    verdict,        \* verdict[w]: executionResult.submissionStatus
    faults,         \* faults so far (bounded by MaxFaults)
    struck,         \* history: submissions a fault left without a way forward
    jobState, made, stalls, owner   \* submission-queue

Queue == INSTANCE BullQueue WITH Jobs <- Ids, NoWorker <- None

rowVars == <<row, client, announced, credits>>
workerVars == <<pc, at, seen, verdict>>
faultVars == <<faults, struck>>
queueVars == <<jobState, made, stalls, owner>>
vars == <<rowVars, workerVars, faultVars, queueVars>>

Statuses == {"PENDING", "PROCESSING", "INTERNAL_ERROR"} \cup Verdicts
Final == {"INTERNAL_ERROR"} \cup Verdicts

\* The calls of processSubmission, in order, and the ends of a job.
Fallible == {"lookup", "mark", "fetch", "judge", "noTests", "store", "refetch",
             "announce", "credit"}
Labels == {"idle", "rescue", "finish", "throw"} \cup Fallible

TypeOK ==
    /\ row \in [Ids -> Statuses \cup {"ABSENT"}]
    /\ client \in [Ids -> {"idle", "saved", "published", "acked", "failed"}]
    /\ announced \in [Ids -> Statuses \cup {"ABSENT"}]
    /\ credits \in [Ids -> Nat]
    /\ pc \in [Workers -> Labels]
    /\ at \in [Workers -> Ids \cup {None}]
    /\ seen \in [Workers -> Statuses \cup {"ABSENT", None}]
    /\ verdict \in [Workers -> Verdicts \cup {None}]
    /\ faults \in 0 .. MaxFaults
    /\ struck \in SUBSET Ids
    /\ Queue!QueueTypeOK

Init ==
    /\ row = [s \in Ids |-> "ABSENT"]
    /\ client = [s \in Ids |-> "idle"]
    /\ announced = [s \in Ids |-> "ABSENT"]
    /\ credits = [s \in Ids |-> 0]
    /\ pc = [w \in Workers |-> "idle"]
    /\ at = [w \in Workers |-> None]
    /\ seen = [w \in Workers |-> None]
    /\ verdict = [w \in Workers |-> None]
    /\ faults = 0
    /\ struck = {}
    /\ Queue!QueueInit
-----------------------------------------------------------------------------
(* POST /submissions *)

CanFault == faults < MaxFaults

CreateSave(s) ==
    /\ client[s] = "idle"
    /\ row' = [row EXCEPT ![s] = "PENDING"]
    /\ client' = [client EXCEPT ![s] = "saved"]
    /\ UNCHANGED <<announced, credits, workerVars, faultVars, queueVars>>

CreatePublish(s) ==
    /\ client[s] = "saved"
    /\ announced' = [announced EXCEPT ![s] = "PENDING"]
    /\ client' = [client EXCEPT ![s] = "published"]
    /\ UNCHANGED <<row, credits, workerVars, faultVars, queueVars>>

\* The add may succeed and its answer be lost: the caller sees an error.
CreateEnqueue(s) ==
    /\ client[s] = "published"
    /\ Queue!Add(s)
    /\ \/ /\ client' = [client EXCEPT ![s] = "acked"]
          /\ UNCHANGED faults
       \/ /\ CanFault
          /\ client' = [client EXCEPT ![s] = "failed"]
          /\ faults' = faults + 1
    /\ UNCHANGED <<row, announced, credits, workerVars, struck>>

\* publish or add throws, or the process dies: the row stays, with no job.
CreateFails(s) ==
    /\ client[s] \in {"saved", "published"}
    /\ CanFault
    /\ client' = [client EXCEPT ![s] = "failed"]
    /\ faults' = faults + 1
    /\ UNCHANGED <<row, announced, credits, workerVars, struck, queueVars>>
-----------------------------------------------------------------------------
(* processSubmission *)

Goto(w, label) == pc' = [pc EXCEPT ![w] = label]

\* The call took effect: go on, or throw because its answer was lost.
Proceed(w, label) ==
    \/ /\ Goto(w, label)
       /\ UNCHANGED faultVars
    \/ /\ CanFault
       /\ Goto(w, "rescue")
       /\ faults' = faults + 1
       /\ UNCHANGED struck

SetRow(w, status) == row' = [row EXCEPT ![at[w]] = status]

(***************************************************************************)
(* History.  A submission is struck when an attempt dies with the row left *)
(* PROCESSING (every later attempt skips it), or when the queue drops the  *)
(* job with the row still PENDING.                                         *)
(***************************************************************************)
Strike(s) ==
    struck' = IF \/ row'[s] = "PROCESSING"
                 \/ row'[s] = "PENDING" /\ jobState'[s] = "failed"
              THEN struck \cup {s} ELSE struck

TakeJob(w, s) ==
    /\ pc[w] = "idle"
    /\ Queue!Take(s, w)
    /\ Goto(w, "lookup")
    /\ at' = [at EXCEPT ![w] = s]
    /\ UNCHANGED <<rowVars, seen, verdict, faultVars>>

\* Mutants: no check at all; a check for a verdict only.
RunnableAlways(status) == TRUE
RunnableUnlessFinal(status) == status \notin Final

\* "Don't process if already finished or currently processing"
Runnable(status) == status = "PENDING"

Lookup(w) ==
    /\ pc[w] = "lookup"
    /\ seen' = [seen EXCEPT ![w] = row[at[w]]]
    /\ Goto(w, IF Runnable(row[at[w]]) THEN "mark" ELSE "finish")
    /\ UNCHANGED <<rowVars, at, verdict, faultVars, queueVars>>

Mark(w) ==
    /\ pc[w] = "mark"
    /\ SetRow(w, "PROCESSING")
    /\ Proceed(w, "fetch")
    /\ UNCHANGED <<client, announced, credits, at, seen, verdict, queueVars>>

\* The PROCESSING message names no user, so it reaches no user's room; the
\* row is read again for its immutable columns; the problem is fetched.
Fetch(w) ==
    /\ pc[w] = "fetch"
    /\ seen' = [seen EXCEPT ![w] = row[at[w]]]
    /\ \E label \in {"judge", "noTests"} : Goto(w, label)
    /\ UNCHANGED <<rowVars, at, verdict, faultVars, queueVars>>

\* Mutant: return without giving the submission up.
NoTestsReturns(w) ==
    /\ pc[w] = "noTests"
    /\ Goto(w, "finish")
    /\ UNCHANGED <<rowVars, at, seen, verdict, faultVars, queueVars>>

NoTests(w) ==
    /\ pc[w] = "noTests"
    /\ SetRow(w, "INTERNAL_ERROR")
    /\ Proceed(w, "finish")
    /\ UNCHANGED <<client, announced, credits, at, seen, verdict, queueVars>>

\* Mutant: the result is not awaited.
JudgeUnawaited(w) ==
    /\ pc[w] = "judge"
    /\ Goto(w, "store")
    /\ UNCHANGED <<rowVars, at, seen, verdict, faultVars, queueVars>>

Judge(w) ==
    /\ pc[w] = "judge"
    /\ \E v \in Verdicts : verdict' = [verdict EXCEPT ![w] = v]
    /\ Goto(w, "store")
    /\ UNCHANGED <<rowVars, at, seen, faultVars, queueVars>>

Store(w) ==
    /\ pc[w] = "store"
    /\ SetRow(w, verdict[w])
    /\ Proceed(w, "refetch")
    /\ UNCHANGED <<client, announced, credits, at, seen, verdict, queueVars>>

Refetch(w) ==
    /\ pc[w] = "refetch"
    /\ seen' = [seen EXCEPT ![w] = row[at[w]]]
    /\ Goto(w, "announce")
    /\ UNCHANGED <<rowVars, at, verdict, faultVars, queueVars>>

\* Mutant: every judged submission is reported to the leaderboard.
AnnounceAnyVerdict(w) ==
    /\ pc[w] = "announce"
    /\ announced' = [announced EXCEPT ![at[w]] = seen[w]]
    /\ Proceed(w, "credit")
    /\ UNCHANGED <<row, client, credits, at, seen, verdict, queueVars>>

Announce(w) ==
    /\ pc[w] = "announce"
    /\ announced' = [announced EXCEPT ![at[w]] = seen[w]]
    /\ Proceed(w, IF verdict[w] = "ACCEPTED" THEN "credit" ELSE "finish")
    /\ UNCHANGED <<row, client, credits, at, seen, verdict, queueVars>>

Credit(w) ==
    /\ pc[w] = "credit"
    /\ credits' = [credits EXCEPT ![at[w]] = @ + 1]
    /\ Proceed(w, "finish")
    /\ UNCHANGED <<row, client, announced, at, seen, verdict, queueVars>>

\* A call fails without effect: the catch block runs.
Throws(w) ==
    /\ pc[w] \in Fallible
    /\ CanFault
    /\ faults' = faults + 1
    /\ Goto(w, "rescue")
    /\ UNCHANGED <<rowVars, at, seen, verdict, struck, queueVars>>

\* Mutant: the error is only logged.
RescueLogs(w) ==
    /\ pc[w] = "rescue"
    /\ Goto(w, "finish")
    /\ UNCHANGED <<rowVars, at, seen, verdict, faultVars, queueVars>>

\* The catch block gives the submission up and swallows the error.
Rescue(w) ==
    /\ pc[w] = "rescue"
    /\ SetRow(w, "INTERNAL_ERROR")
    /\ Goto(w, "finish")
    /\ UNCHANGED <<client, announced, credits, at, seen, verdict, faultVars,
                   queueVars>>

\* Its own update fails, with or without effect, and the handler rethrows.
RescueFails(w) ==
    /\ pc[w] = "rescue"
    /\ CanFault
    /\ faults' = faults + 1
    /\ SetRow(w, "INTERNAL_ERROR") \/ UNCHANGED row
    /\ Goto(w, "throw")
    /\ UNCHANGED <<client, announced, credits, at, seen, verdict, queueVars>>
    /\ Strike(at[w])
-----------------------------------------------------------------------------
(* The ends of a job *)

Leave(w) ==
    /\ Goto(w, "idle")
    /\ at' = [at EXCEPT ![w] = None]
    /\ seen' = [seen EXCEPT ![w] = None]
    /\ verdict' = [verdict EXCEPT ![w] = None]

Finish(w) ==
    /\ pc[w] = "finish"
    /\ Queue!Complete(at[w], w)
    /\ Leave(w)
    /\ UNCHANGED <<rowVars, faultVars>>

Rethrow(w) ==
    /\ pc[w] = "throw"
    /\ Queue!Fail(at[w], w)
    /\ Leave(w)
    /\ UNCHANGED <<rowVars, faults>>
    /\ Strike(at[w])

Crash(w) ==
    /\ pc[w] # "idle"
    /\ CanFault
    /\ faults' = faults + 1
    /\ Queue!Abandon(at[w], w)
    /\ Leave(w)
    /\ UNCHANGED rowVars
    /\ Strike(at[w])

StallCheck(s) ==
    /\ Queue!Stall(s)
    /\ UNCHANGED <<rowVars, workerVars, faults>>
    /\ Strike(s)
-----------------------------------------------------------------------------
Work(w) ==
    \/ Lookup(w) \/ Mark(w) \/ Fetch(w) \/ NoTests(w) \/ Judge(w) \/ Store(w)
    \/ Refetch(w) \/ Announce(w) \/ Credit(w) \/ Rescue(w) \/ Finish(w)
    \/ Rethrow(w)

Create(s) == CreateSave(s) \/ CreatePublish(s) \/ CreateEnqueue(s) \/ CreateFails(s)

Quiescent ==
    /\ \A s \in Ids : client[s] \in {"acked", "failed"} /\ Queue!Ended(s)
    /\ \A w \in Workers : pc[w] = "idle"

\* Every request answered, no job left: the service waits for requests.
Idle == Quiescent /\ UNCHANGED vars

Next ==
    \/ \E s \in Ids : Create(s) \/ StallCheck(s)
    \/ \E w \in Workers :
           \/ \E s \in Ids : TakeJob(w, s)
           \/ Work(w) \/ Throws(w) \/ RescueFails(w) \/ Crash(w)
    \/ Idle

Spec == Init /\ [][Next]_vars

(***************************************************************************)
(* A process that is up runs its code, idle processes poll the queue and   *)
(* the stalled-job check is periodic.  No fault is owed to anyone.         *)
(***************************************************************************)
Fairness ==
    /\ \A w \in Workers : WF_vars(Work(w))
    /\ \A s \in Ids : WF_vars(\E w \in Workers : TakeJob(w, s))
    /\ \A s \in Ids : WF_vars(StallCheck(s))

FairSpec == Spec /\ Fairness
-----------------------------------------------------------------------------
(* Properties *)

Processing == {"mark", "fetch", "judge", "noTests", "store", "refetch",
               "announce", "credit", "rescue"}

(***************************************************************************)
(* "Don't process if already finished or currently processing": no two     *)
(* workers are past the idempotency check for the same submission.  The    *)
(* check and the write of PROCESSING are separate calls, so this rests on  *)
(* the queue's lock alone.                                                 *)
(***************************************************************************)
SingleProcessing ==
    \A v, w \in Workers :
        v # w /\ pc[v] \in Processing /\ pc[w] \in Processing => at[v] # at[w]

(***************************************************************************)
(* A verdict published to the user is the stored one, or the submission    *)
(* was given up after it was published.                                    *)
(***************************************************************************)
AnnouncedVerdictIsStored ==
    \A s \in Ids : announced[s] \in Verdicts =>
                     row[s] \in {announced[s], "INTERNAL_ERROR"}

(***************************************************************************)
(* A submission the API acknowledged and that has no outcome yet is still  *)
(* with the queue, unless a fault struck it: redelivery, retries and the   *)
(* skip of submissions that are not PENDING lose no other one.             *)
(***************************************************************************)
NoneForgotten ==
    \A s \in Ids :
        client[s] = "acked" /\ row[s] \notin Final /\ s \notin struck
            => jobState[s] \in {"waiting", "active"}

(***************************************************************************)
(* A struck submission never gets a verdict: no later attempt, redelivery  *)
(* or request judges it.  All that can still happen to its row is          *)
(* INTERNAL_ERROR, when the first read of a later attempt fails.           *)
(***************************************************************************)
StruckIsNeverJudged ==
    [][\A s \in struck : /\ s \in struck'
                         /\ row'[s] \in {row[s], "INTERNAL_ERROR"}]_vars

\* The contract of a submission (SubmissionLifecycle) is implemented.
Lifecycle == INSTANCE SubmissionLifecycle WITH status <- row
RefinesLifecycle == Lifecycle!Spec

(***************************************************************************)
(* Every acknowledged submission gets an outcome unless it is struck, with *)
(* fetches, judge calls, publishes and leaderboard adds failing or not.    *)
(***************************************************************************)
Settles ==
    \A s \in Ids : client[s] = "acked" ~> (row[s] \in Final \/ s \in struck)

(***************************************************************************)
(* "Rethrow to allow Bull to retry based on configuration": the error that *)
(* ends an attempt reaches Bull, which retries while attempts are left.    *)
(***************************************************************************)
FailedAttemptIsRethrown ==
    [][\A w \in Workers : pc[w] = "rescue" /\ pc'[w] # "rescue"
            => pc'[w] \in {"throw", "idle"}]_vars
=============================================================================
