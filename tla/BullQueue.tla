------------------------------ MODULE BullQueue ------------------------------
(***************************************************************************)
(* The job queue the services share: Bull 4 on Redis, which is not in the  *)
(* repository.  It is modelled from how the services use it: a job is      *)
(* added under an id, is handed to one worker process at a time (each      *)
(* process handles one job at a time), is completed when the handler       *)
(* returns, is retried while attempts are left when the handler throws,    *)
(* and is handed out again when its lock is not renewed ("stalled").       *)
(* The delay of a backoff is not modelled: a retried job is waiting.       *)
(*                                                                         *)
(* The module is INSTANCEd by each service that owns or consumes a queue.  *)
(***************************************************************************)
EXTENDS Naturals

CONSTANTS
    Jobs,       \* job ids that may be added
    Workers,    \* processes that consume the queue
    NoWorker,   \* "nobody holds the lock"
    Attempts,   \* the job option `attempts` (1 when the producer sets none)
    MaxStalls,  \* the queue setting maxStalledCount (Bull's default is 1)
    LockLoss    \* can a live worker lose the lock of the job it is running?

VARIABLES
    jobState,   \* jobState[j]: where the job is
    made,       \* made[j]: failed attempts so far (attemptsMade)
    stalls,     \* stalls[j]: times the job was found stalled (stalledCounter)
    owner       \* owner[j]: the worker whose lock is on the job

queueVars == <<jobState, made, stalls, owner>>

JobStates == {"none", "waiting", "active", "done", "failed"}

QueueTypeOK ==
    /\ jobState \in [Jobs -> JobStates]
    /\ made \in [Jobs -> 0 .. Attempts]
    /\ stalls \in [Jobs -> 0 .. MaxStalls]
    /\ owner \in [Jobs -> Workers \cup {NoWorker}]

QueueInit ==
    /\ jobState = [j \in Jobs |-> "none"]
    /\ made = [j \in Jobs |-> 0]
    /\ stalls = [j \in Jobs |-> 0]
    /\ owner = [j \in Jobs |-> NoWorker]

\* queue.add: a job whose id is already known is not added again.
Add(j) ==
    /\ jobState' = IF jobState[j] = "none"
                   THEN [jobState EXCEPT ![j] = "waiting"]
                   ELSE jobState
    /\ UNCHANGED <<made, stalls, owner>>

\* A worker fetches the job and takes its lock.
Take(j, w) ==
    /\ jobState[j] = "waiting"
    /\ jobState' = [jobState EXCEPT ![j] = "active"]
    /\ owner' = [owner EXCEPT ![j] = w]
    /\ UNCHANGED <<made, stalls>>

\* The handler returned.  Without the lock, completing changes nothing.
Complete(j, w) ==
    \/ /\ owner[j] = w
       /\ jobState' = [jobState EXCEPT ![j] = "done"]
       /\ owner' = [owner EXCEPT ![j] = NoWorker]
       /\ UNCHANGED <<made, stalls>>
    \/ /\ owner[j] # w
       /\ UNCHANGED queueVars

\* The handler threw: retry while attempts are left.
Fail(j, w) ==
    \/ /\ owner[j] = w
       /\ made' = [made EXCEPT ![j] = @ + 1]
       /\ jobState' = [jobState EXCEPT ![j] =
                          IF made[j] + 1 < Attempts THEN "waiting" ELSE "failed"]
       /\ owner' = [owner EXCEPT ![j] = NoWorker]
       /\ UNCHANGED stalls
    \/ /\ owner[j] # w
       /\ UNCHANGED queueVars

\* The worker died: its lock is no longer renewed, the job stays active.
Abandon(j, w) ==
    /\ owner' = [owner EXCEPT ![j] = IF @ = w THEN NoWorker ELSE @]
    /\ UNCHANGED <<jobState, made, stalls>>

\* Mutant: the check takes every active job for stalled.
StallAnyActive(j) ==
    /\ jobState[j] = "active"
    /\ \/ /\ stalls[j] < MaxStalls
          /\ stalls' = [stalls EXCEPT ![j] = @ + 1]
          /\ jobState' = [jobState EXCEPT ![j] = "waiting"]
       \/ /\ stalls[j] = MaxStalls
          /\ jobState' = [jobState EXCEPT ![j] = "failed"]
          /\ UNCHANGED stalls
    /\ owner' = [owner EXCEPT ![j] = NoWorker]
    /\ UNCHANGED made

\* Mutant: a stalled job is handed out again without limit.
StallForEver(j) ==
    /\ jobState[j] = "active"
    /\ owner[j] = NoWorker
    /\ stalls' = [stalls EXCEPT ![j] = @ + 1]
    /\ jobState' = [jobState EXCEPT ![j] = "waiting"]
    /\ owner' = [owner EXCEPT ![j] = NoWorker]
    /\ UNCHANGED made

\* The stalled-job check finds an active job without a live lock.
Stall(j) ==
    /\ jobState[j] = "active"
    /\ owner[j] = NoWorker \/ LockLoss
    /\ \/ /\ stalls[j] < MaxStalls
          /\ stalls' = [stalls EXCEPT ![j] = @ + 1]
          /\ jobState' = [jobState EXCEPT ![j] = "waiting"]
       \/ /\ stalls[j] = MaxStalls
          /\ jobState' = [jobState EXCEPT ![j] = "failed"]
          /\ UNCHANGED stalls
    /\ owner' = [owner EXCEPT ![j] = NoWorker]
    /\ UNCHANGED made

Ended(j) == jobState[j] \in {"none", "done", "failed"}
=============================================================================
