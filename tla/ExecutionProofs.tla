-------------------------- MODULE ExecutionProofs --------------------------
(***************************************************************************)
(* Proofs about the execution-service.                                     *)
(*                                                                         *)
(* Submission: for any sets of submissions and workers and any number of   *)
(* attempts, stalls and faults, provided a live worker never loses the     *)
(* lock of its job (~LockLoss).                                            *)
(*                                                                         *)
(* JudgeBatch: for any number of tests, any bound on retries and any       *)
(* answers Judge0 may give.  The loop keeps its errors in three variables  *)
(* and forgets the answers; the inductive invariant says what each         *)
(* variable remembers of the answers met so far, and the verdict is then   *)
(* read off it.                                                            *)
(***************************************************************************)
EXTENDS Submission, JudgeBatch, FiniteSetTheorems, TLAPS

-----------------------------------------------------------------------------
(* Submission: the inductive invariant *)

\* A busy worker holds the lock of an active job; a lock has a busy worker.
Locks ==
    /\ \A w \in Workers :
           pc[w] # "idle" => /\ at[w] \in Ids
                             /\ owner[at[w]] = w
                             /\ jobState[at[w]] = "active"
    /\ \A s \in Ids :
           owner[s] # None => pc[owner[s]] # "idle" /\ at[owner[s]] = s
    /\ \A s \in Ids : jobState[s] \in {"none", "waiting", "active"}
                          => made[s] < Attempts

\* A job exists only for an inserted row whose create() got to the add.
Clients ==
    \A s \in Ids :
        /\ client[s] = "idle" => row[s] = "ABSENT" /\ announced[s] = "ABSENT"
        /\ row[s] = "ABSENT" => client[s] = "idle" /\ s \notin struck
        /\ client[s] \in {"idle", "saved", "published"} => jobState[s] = "none"
        /\ client[s] = "acked" => jobState[s] # "none"

\* What the row holds while a worker is at each call.
Steps ==
    \A w \in Workers :
        /\ pc[w] = "mark" => row[at[w]] = "PENDING"
        /\ pc[w] \in {"fetch", "judge", "noTests", "store"}
               => row[at[w]] = "PROCESSING" /\ at[w] \notin struck
        /\ pc[w] \in {"store", "refetch", "announce", "credit"}
               => verdict[w] \in Verdicts
        /\ pc[w] \in {"refetch", "announce", "credit"} => row[at[w]] = verdict[w]
        /\ pc[w] = "announce" => seen[w] = row[at[w]]
        /\ pc[w] = "credit" => verdict[w] = "ACCEPTED"
        /\ pc[w] \in {"refetch", "announce", "credit"} => credits[at[w]] = 0
        /\ pc[w] = "finish" => row[at[w]] # "PENDING"

\* A row left PROCESSING without a struck mark is being worked on, and a
\* PENDING row is struck exactly when the queue dropped its job.
Rows ==
    \A s \in Ids :
        /\ row[s] = "PROCESSING" /\ s \notin struck
               => /\ owner[s] # None
                  /\ pc[owner[s]] \in {"fetch", "judge", "noTests", "store", "rescue"}
        /\ row[s] = "PENDING" => (s \in struck <=> jobState[s] = "failed")
        /\ jobState[s] = "done" => row[s] # "PENDING"

Credits ==
    \A s \in Ids : credits[s] # 0 => credits[s] = 1 /\ row[s] \in Final

IInv == /\ TypeOK /\ Locks /\ Clients /\ Steps /\ Rows /\ Credits
        /\ AnnouncedVerdictIsStored
-----------------------------------------------------------------------------
\* The initial states satisfy the inductive invariant.
LEMMA InitEstablishesIInv == Init => IInv
BY SubmissionAssumption
   DEF Init, IInv, TypeOK, Locks, Clients, Steps, Rows, Credits, Statuses,
       Labels, Fallible, AnnouncedVerdictIsStored, Queue!QueueInit,
       Queue!QueueTypeOK, Queue!JobStates

(***************************************************************************)
(* Every step keeps it.  One step per action; under it, one per conjunct   *)
(* the action disturbs, and one for those it has no part in.               *)
(***************************************************************************)
LEMMA StepKeepsIInv ==
    ASSUME ~LockLoss, IInv, [Next]_vars
    PROVE  IInv'
<1> USE DEF IInv
<1>1. ASSUME NEW s \in Ids, CreateSave(s) PROVE IInv'
  <2>1. TypeOK'
    BY <1>1 DEF CreateSave, workerVars, faultVars, queueVars, TypeOK,
        Queue!QueueTypeOK, Statuses
  <2>2. Clients'
    BY <1>1 DEF CreateSave, workerVars, faultVars, queueVars, Clients, TypeOK
  <2>3. Steps'
    BY <1>1 DEF CreateSave, workerVars, faultVars, queueVars, Steps, Clients,
        Locks
  <2>4. Rows'
    BY <1>1 DEF CreateSave, workerVars, faultVars, queueVars, Rows, Clients
  <2>5. Credits'
    BY <1>1, SubmissionAssumption DEF CreateSave, workerVars, faultVars,
        queueVars, Credits, Final, Clients
  <2>6. AnnouncedVerdictIsStored'
    BY <1>1, SubmissionAssumption DEF CreateSave, workerVars, faultVars,
        queueVars, AnnouncedVerdictIsStored, Clients
  <2>7. Locks'
    BY <1>1 DEF CreateSave, workerVars, faultVars, queueVars, Locks
  <2> QED BY <2>1, <2>2, <2>3, <2>4, <2>5, <2>6, <2>7
<1>2. ASSUME NEW s \in Ids, CreatePublish(s) PROVE IInv'
  <2>1. TypeOK'
    BY <1>2 DEF CreatePublish, workerVars, faultVars, queueVars, TypeOK,
        Queue!QueueTypeOK, Statuses
  <2>2. Locks' /\ Clients' /\ Steps' /\ Rows' /\ Credits' /\ AnnouncedVerdictIsStored'
    BY <1>2, SubmissionAssumption DEF CreatePublish, workerVars, faultVars,
        queueVars, Locks, Clients, Steps, Rows, Credits,
        AnnouncedVerdictIsStored
  <2> QED BY <2>1, <2>2
<1>3. ASSUME NEW s \in Ids, CreateEnqueue(s) PROVE IInv'
  <2>1. TypeOK'
    BY <1>3, SubmissionAssumption DEF CreateEnqueue, workerVars, CanFault,
        Queue!Add, TypeOK, Queue!JobStates, Queue!QueueTypeOK
  <2>2. Clients'
    BY <1>3 DEF CreateEnqueue, workerVars, CanFault, Queue!Add, Clients,
        Queue!QueueTypeOK, TypeOK
  <2>3. Locks' /\ Steps' /\ Rows' /\ Credits' /\ AnnouncedVerdictIsStored'
    BY <1>3 DEF CreateEnqueue, workerVars, CanFault, Queue!Add, Locks, Steps,
        Rows, Credits, AnnouncedVerdictIsStored
  <2> QED BY <2>1, <2>2, <2>3
<1>4. ASSUME NEW s \in Ids, CreateFails(s) PROVE IInv'
  <2>1. TypeOK'
    BY <1>4, SubmissionAssumption DEF CreateFails, workerVars, queueVars,
        CanFault, TypeOK, Queue!QueueTypeOK
  <2>2. Locks' /\ Clients' /\ Steps' /\ Rows' /\ Credits' /\ AnnouncedVerdictIsStored'
    BY <1>4 DEF CreateFails, workerVars, queueVars, CanFault, Locks, Clients,
        Steps, Rows, Credits, AnnouncedVerdictIsStored
  <2> QED BY <2>1, <2>2
<1>5. ASSUME NEW s \in Ids, StallCheck(s) PROVE IInv'
  <2>1. TypeOK'
    BY <1>5, SubmissionAssumption DEF StallCheck, rowVars, workerVars, Strike,
        Queue!Stall, TypeOK, Queue!JobStates, Queue!QueueTypeOK
  <2>2. Locks'
    BY <1>5, SubmissionAssumption DEF StallCheck, rowVars, workerVars, Strike,
        Queue!Stall, Locks, Queue!QueueTypeOK, TypeOK
  <2>3. Clients'
    BY <1>5 DEF StallCheck, rowVars, workerVars, Strike, Queue!Stall, Clients,
        Queue!QueueTypeOK, TypeOK
  <2>4. Steps'
    BY <1>5 DEF StallCheck, rowVars, workerVars, Strike, Queue!Stall, Steps,
        Rows
  <2>5. Rows'
    BY <1>5 DEF StallCheck, rowVars, workerVars, Strike, Queue!Stall, Rows,
        Queue!QueueTypeOK, TypeOK
  <2>6. Credits' /\ AnnouncedVerdictIsStored'
    BY <1>5 DEF StallCheck, rowVars, workerVars, Strike, Queue!Stall, Credits,
        AnnouncedVerdictIsStored
  <2> QED BY <2>1, <2>2, <2>3, <2>4, <2>5, <2>6
<1>6. ASSUME NEW w \in Workers, NEW s \in Ids, TakeJob(w, s) PROVE IInv'
  <2>1. TypeOK'
    BY <1>6 DEF TakeJob, rowVars, faultVars, Goto, Queue!Take, TypeOK,
        Queue!JobStates, Queue!QueueTypeOK, Labels, Fallible
  <2>2. Locks'
    BY <1>6 DEF TakeJob, rowVars, faultVars, Goto, Queue!Take, Locks,
        Queue!QueueTypeOK, TypeOK
  <2>3. Rows'
    BY <1>6 DEF TakeJob, rowVars, faultVars, Goto, Queue!Take, Rows,
        Queue!QueueTypeOK, Locks, TypeOK
  <2>4. Clients' /\ Steps' /\ Credits' /\ AnnouncedVerdictIsStored'
    BY <1>6 DEF TakeJob, rowVars, faultVars, Goto, Queue!Take, Clients, Steps,
        Credits, AnnouncedVerdictIsStored
  <2> QED BY <2>1, <2>2, <2>3, <2>4
<1>7. ASSUME NEW w \in Workers, Lookup(w) PROVE IInv'
  <2>1. TypeOK'
    BY <1>7 DEF Lookup, rowVars, faultVars, queueVars, Goto, Runnable, TypeOK,
        Queue!QueueTypeOK, Labels, Fallible, Locks
  <2>2. Locks' /\ Clients' /\ Steps' /\ Rows' /\ Credits' /\ AnnouncedVerdictIsStored'
    BY <1>7 DEF Lookup, rowVars, faultVars, queueVars, Goto, Runnable, Locks,
        Clients, Steps, Rows, Credits, AnnouncedVerdictIsStored
  <2> QED BY <2>1, <2>2
<1>8. ASSUME NEW w \in Workers, Mark(w) PROVE IInv'
  <2>1. TypeOK'
    BY <1>8, SubmissionAssumption DEF Mark, faultVars, queueVars, SetRow,
        Proceed, Goto, CanFault, TypeOK, Queue!QueueTypeOK, Labels, Fallible,
        Statuses, Locks
  <2>2. Locks'
    BY <1>8 DEF Mark, faultVars, queueVars, SetRow, Proceed, Goto, CanFault,
        Locks, Queue!QueueTypeOK, TypeOK
  <2>3. Clients'
    BY <1>8 DEF Mark, faultVars, queueVars, SetRow, Proceed, Goto, CanFault,
        Clients, Locks
  <2>4. Steps'
    BY <1>8 DEF Mark, faultVars, queueVars, SetRow, Proceed, Goto, CanFault,
        Steps, Rows, Locks, TypeOK
  <2>5. Rows'
    BY <1>8, SubmissionAssumption DEF Mark, faultVars, queueVars, SetRow,
        Proceed, Goto, CanFault, Rows, Queue!QueueTypeOK, Locks, TypeOK
  <2>6. Credits'
    BY <1>8, SubmissionAssumption DEF Mark, faultVars, queueVars, SetRow,
        Proceed, Goto, CanFault, Credits, Final, Steps
  <2>7. AnnouncedVerdictIsStored'
    BY <1>8, SubmissionAssumption DEF Mark, faultVars, queueVars, SetRow,
        Proceed, Goto, CanFault, AnnouncedVerdictIsStored, Steps
  <2> QED BY <2>1, <2>2, <2>3, <2>4, <2>5, <2>6, <2>7
<1>9. ASSUME NEW w \in Workers, Fetch(w) PROVE IInv'
  <2>1. TypeOK'
    BY <1>9 DEF Fetch, rowVars, faultVars, queueVars, Goto, TypeOK,
        Queue!QueueTypeOK, Labels, Fallible, Locks
  <2>2. Locks' /\ Clients' /\ Steps' /\ Rows' /\ Credits' /\ AnnouncedVerdictIsStored'
    BY <1>9 DEF Fetch, rowVars, faultVars, queueVars, Goto, Locks, Clients,
        Steps, Rows, Credits, AnnouncedVerdictIsStored
  <2> QED BY <2>1, <2>2
<1>10. ASSUME NEW w \in Workers, NoTests(w) PROVE IInv'
  <2>1. TypeOK'
    BY <1>10, SubmissionAssumption DEF NoTests, faultVars, queueVars, SetRow,
        Proceed, Goto, CanFault, TypeOK, Queue!QueueTypeOK, Labels, Statuses,
        Locks
  <2>2. Locks'
    BY <1>10 DEF NoTests, faultVars, queueVars, SetRow, Proceed, Goto,
        CanFault, Locks, Queue!QueueTypeOK, TypeOK
  <2>3. Clients'
    BY <1>10 DEF NoTests, faultVars, queueVars, SetRow, Proceed, Goto,
        CanFault, Clients, Locks
  <2>4. Steps'
    BY <1>10 DEF NoTests, faultVars, queueVars, SetRow, Proceed, Goto,
        CanFault, Steps, Locks, TypeOK
  <2>5. Rows'
    BY <1>10 DEF NoTests, faultVars, queueVars, SetRow, Proceed, Goto,
        CanFault, Rows, Queue!QueueTypeOK, Locks, TypeOK
  <2>6. Credits' /\ AnnouncedVerdictIsStored'
    BY <1>10 DEF NoTests, faultVars, queueVars, SetRow, Proceed, Goto,
        CanFault, Credits, Final, AnnouncedVerdictIsStored
  <2> QED BY <2>1, <2>2, <2>3, <2>4, <2>5, <2>6
<1>11. ASSUME NEW w \in Workers, Judge(w) PROVE IInv'
  <2>1. TypeOK'
    BY <1>11 DEF Judge, rowVars, faultVars, queueVars, Goto, TypeOK,
        Queue!QueueTypeOK, Labels, Fallible
  <2>2. Steps'
    BY <1>11 DEF Judge, rowVars, faultVars, queueVars, Goto, Steps, TypeOK
  <2>3. Locks' /\ Clients' /\ Rows' /\ Credits' /\ AnnouncedVerdictIsStored'
    BY <1>11 DEF Judge, rowVars, faultVars, queueVars, Goto, Locks, Clients,
        Rows, Credits, AnnouncedVerdictIsStored
  <2> QED BY <2>1, <2>2, <2>3
<1>12. ASSUME NEW w \in Workers, Store(w) PROVE IInv'
  <2>1. TypeOK'
    BY <1>12, SubmissionAssumption DEF Store, faultVars, queueVars, SetRow,
        Proceed, Goto, CanFault, TypeOK, Queue!QueueTypeOK, Labels, Fallible,
        Statuses, Steps, Locks
  <2>2. Locks'
    BY <1>12 DEF Store, faultVars, queueVars, SetRow, Proceed, Goto, CanFault,
        Locks, Queue!QueueTypeOK, TypeOK
  <2>3. Clients'
    BY <1>12, SubmissionAssumption DEF Store, faultVars, queueVars, SetRow,
        Proceed, Goto, CanFault, Clients, Steps
  <2>4. Steps'
    BY <1>12, SubmissionAssumption DEF Store, faultVars, queueVars, SetRow,
        Proceed, Goto, CanFault, Steps, Final, Credits, Locks, TypeOK
  <2>5. Rows'
    BY <1>12, SubmissionAssumption DEF Store, faultVars, queueVars, SetRow,
        Proceed, Goto, CanFault, Rows, Queue!QueueTypeOK, Steps, Locks, TypeOK
  <2>6. Credits'
    BY <1>12 DEF Store, faultVars, queueVars, SetRow, Proceed, Goto, CanFault,
        Credits, Final, Steps
  <2>7. AnnouncedVerdictIsStored'
    BY <1>12, SubmissionAssumption DEF Store, faultVars, queueVars, SetRow,
        Proceed, Goto, CanFault, AnnouncedVerdictIsStored, Steps
  <2> QED BY <2>1, <2>2, <2>3, <2>4, <2>5, <2>6, <2>7
<1>13. ASSUME NEW w \in Workers, Refetch(w) PROVE IInv'
  <2>1. TypeOK'
    BY <1>13 DEF Refetch, rowVars, faultVars, queueVars, Goto, TypeOK,
        Queue!QueueTypeOK, Labels, Fallible, Locks
  <2>2. Steps'
    BY <1>13 DEF Refetch, rowVars, faultVars, queueVars, Goto, Steps, TypeOK
  <2>3. Locks' /\ Clients' /\ Rows' /\ Credits' /\ AnnouncedVerdictIsStored'
    BY <1>13 DEF Refetch, rowVars, faultVars, queueVars, Goto, Locks, Clients,
        Rows, Credits, AnnouncedVerdictIsStored
  <2> QED BY <2>1, <2>2, <2>3
<1>14. ASSUME NEW w \in Workers, Announce(w) PROVE IInv'
  <2>1. TypeOK'
    BY <1>14, SubmissionAssumption DEF Announce, faultVars, queueVars, Proceed,
        Goto, CanFault, TypeOK, Queue!QueueTypeOK, Labels, Fallible, Steps,
        Locks
  <2>2. Locks'
    BY <1>14 DEF Announce, faultVars, queueVars, Proceed, Goto, CanFault,
        Locks, Queue!QueueTypeOK, TypeOK
  <2>3. Clients'
    BY <1>14 DEF Announce, faultVars, queueVars, Proceed, Goto, CanFault,
        Clients, Locks
  <2>4. Steps'
    BY <1>14, SubmissionAssumption DEF Announce, faultVars, queueVars, Proceed,
        Goto, CanFault, Steps, TypeOK
  <2>5. Rows'
    BY <1>14 DEF Announce, faultVars, queueVars, Proceed, Goto, CanFault, Rows,
        Queue!QueueTypeOK, TypeOK
  <2>6. AnnouncedVerdictIsStored'
    BY <1>14 DEF Announce, faultVars, queueVars, Proceed, Goto, CanFault,
        AnnouncedVerdictIsStored, Steps
  <2>7. Credits'
    BY <1>14 DEF Announce, faultVars, queueVars, Proceed, Goto, CanFault,
        Credits
  <2> QED BY <2>1, <2>2, <2>3, <2>4, <2>5, <2>6, <2>7
<1>15. ASSUME NEW w \in Workers, Credit(w) PROVE IInv'
  <2>1. TypeOK'
    BY <1>15, SubmissionAssumption DEF Credit, faultVars, queueVars, Proceed,
        Goto, CanFault, TypeOK, Queue!QueueTypeOK, Labels, Locks
  <2>2. Locks'
    BY <1>15 DEF Credit, faultVars, queueVars, Proceed, Goto, CanFault, Locks,
        Queue!QueueTypeOK, TypeOK
  <2>3. Steps'
    BY <1>15 DEF Credit, faultVars, queueVars, Proceed, Goto, CanFault, Steps,
        Locks, TypeOK
  <2>4. Rows'
    BY <1>15 DEF Credit, faultVars, queueVars, Proceed, Goto, CanFault, Rows,
        Queue!QueueTypeOK, TypeOK
  <2>5. Credits'
    BY <1>15 DEF Credit, faultVars, queueVars, Proceed, Goto, CanFault,
        Credits, Final, Steps
  <2>6. Clients' /\ AnnouncedVerdictIsStored'
    BY <1>15 DEF Credit, faultVars, queueVars, Proceed, Goto, CanFault,
        Clients, AnnouncedVerdictIsStored
  <2> QED BY <2>1, <2>2, <2>3, <2>4, <2>5, <2>6
<1>16. ASSUME NEW w \in Workers, Throws(w) PROVE IInv'
  <2>1. TypeOK'
    BY <1>16, SubmissionAssumption DEF Throws, rowVars, queueVars, Goto,
        CanFault, Fallible, TypeOK, Queue!QueueTypeOK, Labels
  <2>2. Locks' /\ Clients' /\ Steps' /\ Rows' /\ Credits' /\ AnnouncedVerdictIsStored'
    BY <1>16 DEF Throws, rowVars, queueVars, Goto, CanFault, Fallible, Locks,
        Clients, Steps, Rows, Credits, AnnouncedVerdictIsStored
  <2> QED BY <2>1, <2>2
<1>17. ASSUME NEW w \in Workers, Rescue(w) PROVE IInv'
  <2>1. TypeOK'
    BY <1>17 DEF Rescue, faultVars, queueVars, SetRow, Goto, TypeOK,
        Queue!QueueTypeOK, Labels, Statuses
  <2>2. Clients'
    BY <1>17 DEF Rescue, faultVars, queueVars, SetRow, Goto, Clients, Locks
  <2>3. Steps'
    BY <1>17 DEF Rescue, faultVars, queueVars, SetRow, Goto, Steps, Locks,
        TypeOK
  <2>4. Rows'
    BY <1>17 DEF Rescue, faultVars, queueVars, SetRow, Goto, Rows, Locks,
        TypeOK
  <2>5. Locks' /\ Credits' /\ AnnouncedVerdictIsStored'
    BY <1>17 DEF Rescue, faultVars, queueVars, SetRow, Goto, Locks, Credits,
        Final, AnnouncedVerdictIsStored
  <2> QED BY <2>1, <2>2, <2>3, <2>4, <2>5
<1>18. ASSUME NEW w \in Workers, RescueFails(w) PROVE IInv'
  <2>1. TypeOK'
    BY <1>18, SubmissionAssumption DEF RescueFails, queueVars, SetRow, Goto,
        CanFault, Strike, TypeOK, Queue!QueueTypeOK, Labels, Statuses, Locks
  <2>2. Clients'
    BY <1>18 DEF RescueFails, queueVars, SetRow, Goto, CanFault, Strike,
        Clients, Locks, TypeOK
  <2>3. Steps'
    BY <1>18 DEF RescueFails, queueVars, SetRow, Goto, CanFault, Strike, Steps,
        Locks, TypeOK
  <2>4. Rows'
    BY <1>18 DEF RescueFails, queueVars, SetRow, Goto, CanFault, Strike, Rows,
        Locks, TypeOK
  <2>5. Credits'
    BY <1>18 DEF RescueFails, queueVars, SetRow, Goto, CanFault, Strike,
        Credits, Final, TypeOK
  <2>6. AnnouncedVerdictIsStored'
    BY <1>18 DEF RescueFails, queueVars, SetRow, Goto, CanFault, Strike,
        AnnouncedVerdictIsStored, TypeOK
  <2>7. Locks'
    BY <1>18 DEF RescueFails, queueVars, SetRow, Goto, CanFault, Strike, Locks
  <2> QED BY <2>1, <2>2, <2>3, <2>4, <2>5, <2>6, <2>7
<1>19. ASSUME NEW w \in Workers, Finish(w) PROVE IInv'
  <2>1. TypeOK'
    BY <1>19 DEF Finish, rowVars, faultVars, Leave, Goto, Queue!Complete,
        Queue!queueVars, TypeOK, Queue!JobStates, Queue!QueueTypeOK, Labels
  <2>2. Locks'
    BY <1>19 DEF Finish, rowVars, faultVars, Leave, Goto, Queue!Complete,
        Queue!queueVars, Locks, Queue!QueueTypeOK, TypeOK
  <2>3. Clients'
    BY <1>19 DEF Finish, rowVars, faultVars, Leave, Goto, Queue!Complete,
        Queue!queueVars, Clients, Queue!QueueTypeOK, Locks, TypeOK
  <2>4. Steps'
    BY <1>19 DEF Finish, rowVars, faultVars, Leave, Goto, Queue!Complete,
        Queue!queueVars, Steps, TypeOK
  <2>5. Rows'
    BY <1>19 DEF Finish, rowVars, faultVars, Leave, Goto, Queue!Complete,
        Queue!queueVars, Rows, Queue!QueueTypeOK, Steps, TypeOK
  <2>6. Credits' /\ AnnouncedVerdictIsStored'
    BY <1>19 DEF Finish, rowVars, faultVars, Leave, Goto, Queue!Complete,
        Queue!queueVars, Credits, AnnouncedVerdictIsStored
  <2> QED BY <2>1, <2>2, <2>3, <2>4, <2>5, <2>6
<1>20. ASSUME NEW w \in Workers, Rethrow(w) PROVE IInv'
  <2>1. TypeOK'
    BY <1>20, SubmissionAssumption DEF Rethrow, rowVars, Leave, Goto, Strike,
        Queue!Fail, Queue!queueVars, TypeOK, Queue!JobStates,
        Queue!QueueTypeOK, Labels, Locks
  <2>2. Locks'
    BY <1>20 DEF Rethrow, rowVars, Leave, Goto, Strike, Queue!Fail,
        Queue!queueVars, Locks, Queue!QueueTypeOK, TypeOK
  <2>3. Clients'
    BY <1>20 DEF Rethrow, rowVars, Leave, Goto, Strike, Queue!Fail,
        Queue!queueVars, Clients, Queue!QueueTypeOK, Locks, TypeOK
  <2>4. Steps'
    BY <1>20 DEF Rethrow, rowVars, Leave, Goto, Strike, Queue!Fail,
        Queue!queueVars, Steps, Locks
  <2>5. Rows'
    BY <1>20 DEF Rethrow, rowVars, Leave, Goto, Strike, Queue!Fail,
        Queue!queueVars, Rows, Queue!QueueTypeOK, Locks, TypeOK
  <2>6. Credits' /\ AnnouncedVerdictIsStored'
    BY <1>20 DEF Rethrow, rowVars, Leave, Goto, Strike, Queue!Fail,
        Queue!queueVars, Credits, AnnouncedVerdictIsStored
  <2> QED BY <2>1, <2>2, <2>3, <2>4, <2>5, <2>6
<1>21. ASSUME NEW w \in Workers, Crash(w) PROVE IInv'
  <2>1. TypeOK'
    BY <1>21, SubmissionAssumption DEF Crash, rowVars, Leave, Goto, CanFault,
        Strike, Queue!Abandon, TypeOK, Queue!QueueTypeOK, Labels, Locks
  <2>2. Locks'
    BY <1>21 DEF Crash, rowVars, Leave, Goto, CanFault, Strike, Queue!Abandon,
        Locks, Queue!QueueTypeOK, TypeOK
  <2>3. Steps'
    BY <1>21 DEF Crash, rowVars, Leave, Goto, CanFault, Strike, Queue!Abandon,
        Steps, Locks, TypeOK
  <2>4. Rows'
    BY <1>21 DEF Crash, rowVars, Leave, Goto, CanFault, Strike, Queue!Abandon,
        Rows, Locks
  <2>5. Clients' /\ Credits' /\ AnnouncedVerdictIsStored'
    BY <1>21 DEF Crash, rowVars, Leave, Goto, CanFault, Strike, Queue!Abandon,
        Clients, Credits, AnnouncedVerdictIsStored
  <2> QED BY <2>1, <2>2, <2>3, <2>4, <2>5
<1>22. CASE UNCHANGED vars
  BY <1>22 DEF vars, rowVars, workerVars, faultVars, queueVars, TypeOK, Locks,
       Clients, Steps, Rows, Credits, AnnouncedVerdictIsStored,
       Queue!QueueTypeOK
<1> QED
  BY <1>1, <1>2, <1>3, <1>4, <1>5, <1>6, <1>7, <1>8, <1>9, <1>10, <1>11, <1>12,
     <1>13, <1>14, <1>15, <1>16, <1>17, <1>18, <1>19, <1>20, <1>21, <1>22 DEF Next, Create, Work,
     Idle
-----------------------------------------------------------------------------
(***************************************************************************)
(* The inductive invariant holds in every reachable state.                 *)
(***************************************************************************)
THEOREM Invariance ==
    ASSUME ~LockLoss
    PROVE  Spec => []IInv
<1>1. Init => IInv
  BY InitEstablishesIInv
<1>2. IInv /\ [Next]_vars => IInv'
  BY StepKeepsIInv
<1> QED
  BY <1>1, <1>2, PTL DEF Spec

(***************************************************************************)
(* Type correctness: in particular no row ever holds anything but a status *)
(* of SubmissionStatus, and no job is attempted more often than configured.*)
(***************************************************************************)
THEOREM TypeCorrect ==
    ASSUME ~LockLoss
    PROVE  Spec => []TypeOK
<1>1. IInv => TypeOK
  BY DEF IInv
<1> QED
  BY <1>1, Invariance, PTL

(***************************************************************************)
(* No two workers are past the idempotency check of processSubmission for  *)
(* the same submission: both would hold its job's only lock.               *)
(***************************************************************************)
THEOREM OneWorkerAtATime ==
    ASSUME ~LockLoss
    PROVE  Spec => []SingleProcessing
<1>1. IInv => SingleProcessing
  BY DEF IInv, Locks, SingleProcessing, Processing
<1> QED
  BY <1>1, Invariance, PTL

(***************************************************************************)
(* The verdict pushed to the user's browser is the one in the database, or *)
(* the submission was given up afterwards.                                 *)
(***************************************************************************)
THEOREM NoFalseAnnouncement ==
    ASSUME ~LockLoss
    PROVE  Spec => []AnnouncedVerdictIsStored
<1>1. IInv => AnnouncedVerdictIsStored
  BY DEF IInv
<1> QED
  BY <1>1, Invariance, PTL

(***************************************************************************)
(* A submission that was acknowledged, is unsettled and was not struck by  *)
(* a fault still has a job that will reach a worker.                       *)
(***************************************************************************)
THEOREM NothingForgotten ==
    ASSUME ~LockLoss
    PROVE  Spec => []NoneForgotten
<1>1. IInv => NoneForgotten
  <2> SUFFICES ASSUME IInv, NEW s \in Ids, client[s] = "acked",
                      row[s] \notin Final, s \notin struck
               PROVE  jobState[s] \in {"waiting", "active"}
    BY DEF NoneForgotten
  <2>1. row[s] \in {"ABSENT", "PENDING", "PROCESSING"}
    BY DEF IInv, TypeOK, Statuses, Final
  <2>2. jobState[s] \in {"waiting", "active", "done", "failed"}
    BY DEF IInv, TypeOK, Clients, Queue!QueueTypeOK, Queue!JobStates
  <2>3. CASE row[s] = "PENDING"
    BY <2>2, <2>3 DEF IInv, Rows
  <2>4. CASE row[s] = "PROCESSING"
    BY <2>4, SubmissionAssumption
       DEF IInv, Rows, Locks, TypeOK, Queue!QueueTypeOK
  <2> QED
    BY <2>1, <2>3, <2>4 DEF IInv, Clients
<1> QED
  BY <1>1, Invariance, PTL

(***************************************************************************)
(* Once struck, a submission is never judged again: retries, redeliveries  *)
(* and other workers can at most write INTERNAL_ERROR.                     *)
(***************************************************************************)
THEOREM StruckStaysUnjudged ==
    ASSUME ~LockLoss
    PROVE  Spec => StruckIsNeverJudged
<1>1. ASSUME IInv, [Next]_vars, NEW s \in struck
      PROVE  s \in struck' /\ row'[s] \in {row[s], "INTERNAL_ERROR"}
  <2> s \in Ids
    BY <1>1 DEF IInv, TypeOK
  <2> USE <1>1 DEF IInv
  <2>1. ASSUME NEW r \in Ids, Create(r) PROVE row'[s] = row[s] /\ struck' = struck
    BY <2>1 DEF Create, CreateSave, CreatePublish, CreateEnqueue, CreateFails,
                Clients, TypeOK, faultVars
  <2>2. ASSUME NEW r \in Ids, StallCheck(r) PROVE row' = row /\ struck \subseteq struck'
    BY <2>2 DEF StallCheck, rowVars, Strike
  <2>3. ASSUME NEW w \in Workers, NEW r \in Ids, TakeJob(w, r)
        PROVE  row' = row /\ struck' = struck
    BY <2>3 DEF TakeJob, rowVars, faultVars
  <2>4. ASSUME NEW w \in Workers, Mark(w) PROVE row'[s] = row[s] /\ struck' = struck
    BY <2>4 DEF Mark, Proceed, SetRow, faultVars, Steps, Locks, Rows, TypeOK
  <2>5. ASSUME NEW w \in Workers, Store(w) PROVE row'[s] = row[s] /\ struck' = struck
    BY <2>5 DEF Store, Proceed, SetRow, faultVars, Steps, Locks, TypeOK
  <2>6. ASSUME NEW w \in Workers, NoTests(w) \/ Rescue(w) \/ RescueFails(w)
        PROVE  row'[s] \in {row[s], "INTERNAL_ERROR"} /\ struck \subseteq struck'
    BY <2>6 DEF NoTests, Rescue, RescueFails, Proceed, SetRow, Strike, faultVars,
                TypeOK
  <2>7. ASSUME NEW w \in Workers,
               \/ Lookup(w) \/ Fetch(w) \/ Judge(w) \/ Refetch(w)
               \/ Announce(w) \/ Credit(w) \/ Throws(w) \/ Finish(w)
        PROVE  row' = row /\ struck' = struck
    BY <2>7 DEF Lookup, Fetch, Judge, Refetch, Announce, Credit, Throws, Finish,
                Proceed, rowVars, faultVars
  <2>8. ASSUME NEW w \in Workers, Rethrow(w) \/ Crash(w)
        PROVE  row' = row /\ struck \subseteq struck'
    BY <2>8 DEF Rethrow, Crash, Strike, rowVars
  <2>9. CASE UNCHANGED vars
    BY <2>9 DEF vars, rowVars, faultVars
  <2> QED
    BY <2>1, <2>2, <2>3, <2>4, <2>5, <2>6, <2>7, <2>8, <2>9 DEF Next, Work, Idle
<1>2. IInv /\ [Next]_vars
        => [\A s \in struck : /\ s \in struck'
                              /\ row'[s] \in {row[s], "INTERNAL_ERROR"}]_vars
  BY <1>1
<1> QED
  BY <1>2, Invariance, PTL DEF Spec, StruckIsNeverJudged
-----------------------------------------------------------------------------
(***************************************************************************)
(* A step of the service is a step of the contract or leaves the status    *)
(* and the credits of every submission alone.                              *)
(***************************************************************************)
LEMMA StepImplementsContract ==
    ASSUME ~LockLoss, IInv, [Next]_vars
    PROVE  [Lifecycle!Next]_(Lifecycle!lifecycleVars)
<1> USE DEF IInv
<1>1. ASSUME NEW s \in Ids, CreateSave(s) PROVE Lifecycle!Submit(s)
  BY <1>1 DEF CreateSave, Clients, Lifecycle!Submit
<1>2. ASSUME NEW w \in Workers, Mark(w) PROVE at[w] \in Ids /\ Lifecycle!Start(at[w])
  BY <1>2 DEF Mark, SetRow, Steps, Locks, Lifecycle!Start
<1>3. ASSUME NEW w \in Workers, Store(w)
      PROVE  at[w] \in Ids /\ verdict[w] \in Verdicts
             /\ Lifecycle!Decide(at[w], verdict[w])
  BY <1>3 DEF Store, SetRow, Steps, Locks, Lifecycle!Decide
<1>4. ASSUME NEW w \in Workers, Credit(w)
      PROVE  at[w] \in Ids /\ Lifecycle!Credit(at[w])
  <2>1. at[w] \in Ids /\ row[at[w]] = "ACCEPTED" /\ credits[at[w]] = 0
    BY <1>4 DEF Credit, Steps, Locks
  <2>2. credits' = [credits EXCEPT ![at[w]] = 1]
    <3>1. credits' = [credits EXCEPT ![at[w]] = credits[at[w]] + 1]
      BY <1>4 DEF Credit
    <3>2. credits[at[w]] + 1 = 1
      BY <2>1
    <3> QED
      BY <3>1, <3>2
  <2> QED
    BY <1>4, <2>1, <2>2 DEF Credit, Lifecycle!Credit
<1>5. ASSUME NEW w \in Workers, NoTests(w) \/ Rescue(w) \/ RescueFails(w)
      PROVE  \/ at[w] \in Ids /\ Lifecycle!GiveUp(at[w])
             \/ UNCHANGED <<row, credits>>
  <2>1. at[w] \in Ids /\ jobState[at[w]] = "active"
    BY <1>5 DEF NoTests, Rescue, RescueFails, Locks
  <2>2. row[at[w]] # "ABSENT"
    BY <2>1 DEF Clients
  <2> QED
    BY <1>5, <2>1, <2>2 DEF NoTests, Rescue, RescueFails, SetRow, Lifecycle!GiveUp
<1>6. ASSUME NEW s \in Ids,
             \/ CreatePublish(s) \/ CreateEnqueue(s) \/ CreateFails(s)
             \/ StallCheck(s) \/ \E w \in Workers : TakeJob(w, s)
      PROVE  UNCHANGED <<row, credits>>
  BY <1>6 DEF CreatePublish, CreateEnqueue, CreateFails, StallCheck, TakeJob, rowVars
<1>7. ASSUME NEW w \in Workers,
             \/ Lookup(w) \/ Fetch(w) \/ Judge(w) \/ Refetch(w) \/ Announce(w)
             \/ Throws(w) \/ Finish(w) \/ Rethrow(w) \/ Crash(w)
      PROVE  UNCHANGED <<row, credits>>
  BY <1>7 DEF Lookup, Fetch, Judge, Refetch, Announce, Throws, Finish, Rethrow,
              Crash, rowVars
<1>8. CASE UNCHANGED vars
  BY <1>8 DEF vars, rowVars, Lifecycle!lifecycleVars
<1>9. CASE \E s \in Ids : Create(s) \/ StallCheck(s)
  BY <1>1, <1>6, <1>9 DEF Create, Lifecycle!Next, Lifecycle!lifecycleVars
<1>10. CASE \E w \in Workers :
              \/ \E s \in Ids : TakeJob(w, s)
              \/ Work(w) \/ Throws(w) \/ RescueFails(w) \/ Crash(w)
  BY <1>2, <1>3, <1>4, <1>5, <1>6, <1>7, <1>10
     DEF Work, Lifecycle!Next, Lifecycle!lifecycleVars
<1> QED
  BY <1>8, <1>9, <1>10 DEF Next, Idle

(***************************************************************************)
(* The service implements the contract: a submission is started at most    *)
(* once, judged at most once, reported to the leaderboard at most once and *)
(* only while ACCEPTED, and never revived once given up.                   *)
(***************************************************************************)
THEOREM ImplementsLifecycle ==
    ASSUME ~LockLoss
    PROVE  Spec => RefinesLifecycle
<1>1. Init => Lifecycle!Init
  BY DEF Init, Lifecycle!Init
<1>2. IInv /\ [Next]_vars => [Lifecycle!Next]_(Lifecycle!lifecycleVars)
  BY StepImplementsContract
<1> QED
  BY <1>1, <1>2, Invariance, PTL DEF Spec, RefinesLifecycle, Lifecycle!Spec

-----------------------------------------------------------------------------
(* JudgeBatch: the inductive invariant *)

Answer == [id : Nat, description : Descriptions, match : BOOLEAN]

BatchShapes ==
    /\ testCases \in 1 .. MaxTests
    /\ stage \in {"call", "record", "decide", "done"}
    /\ testResults \in Seq(TestStatuses)
    /\ passedCount \in Nat
    /\ compilationError \in BOOLEAN /\ runtimeError \in BOOLEAN /\ firstRuntimeError \in BOOLEAN
    /\ answers \in Seq(Answers \cup {Failure})

\* One call for the test at hand; one status, and one answer, for each test
\* before it, and for every test once the loop is over.
InStep ==
    /\ stage = "call" => calls = 0 /\ result = NoResult
    /\ stage = "record" => calls = 1 /\ result = parseJudge0Response(answers[Len(answers)])
    /\ stage \in {"decide", "done"} => calls = 0 /\ result = NoResult
    /\ Len(answers) = IF stage = "record" THEN Len(testResults) + 1 ELSE Len(testResults)
    /\ IF stage \in {"call", "record"} THEN Len(testResults) < testCases
       ELSE Len(testResults) = testCases

\* Each status is the one of its answer.
Recorded ==
    \A k \in 1 .. Len(testResults) :
        testResults[k] = TestStatus(parseJudge0Response(answers[k]))

PassedTests == {k \in 1 .. Len(testResults) : testResults[k] = "PASSED"}

Counted == passedCount = Cardinality(PassedTests)

CompilationNoted ==
    compilationError <=> Len(testResults) > 0 /\ answers[1].id = STATUS_CODES.COMPILATION_ERROR

RuntimeNoted == firstRuntimeError <=> SomeTest("RUNTIME_ERROR")

\* The first runtime error, if it carries a text.
FirstDiedWithText ==
    \E k \in 1 .. Len(testResults) :
        /\ testResults[k] = "RUNTIME_ERROR"
        /\ answers[k].id \in {STATUS_CODES.RUNTIME_ERROR, STATUS_CODES.SEGMENTATION_FAULT}
        /\ \A h \in 1 .. k - 1 : testResults[h] # "RUNTIME_ERROR"

TextNoted == runtimeError <=> FirstDiedWithText

Decided == submissionStatus = IF stage = "done" THEN SubmissionStatus ELSE NoResult

\* The inductive invariant.
BatchIInv ==
    /\ BatchShapes /\ InStep /\ Recorded /\ Counted
    /\ CompilationNoted /\ RuntimeNoted /\ TextNoted /\ Decided

-----------------------------------------------------------------------------
(* Lemmas about statuses and verdicts *)

\* What a status tells of the answer it was made from.
LEMMA StatusTellsAnswer ==
    ASSUME NEW a \in Answer
    PROVE  LET status == TestStatus(parseJudge0Response(a))
           IN  /\ status \in TestStatuses
               /\ status = "COMPILATION_ERROR" <=> a.id = 6
               /\ status = "TIME_LIMIT_EXCEEDED" <=>
                      a.id # 6 /\ a.description = "Time Limit Exceeded"
               /\ status = "MEMORY_LIMIT_EXCEEDED" <=>
                      a.id # 6 /\ a.description = "Memory Limit Exceeded"
               /\ status = "RUNTIME_ERROR" <=>
                      /\ a.id # 6
                      /\ a.description \notin {"Time Limit Exceeded", "Memory Limit Exceeded"}
                      /\ a.description = "Runtime" \/ a.id \in {7, 12}
               /\ status = "PASSED" <=>
                      a \in [id : {3}, description : {"Other"}, match : {TRUE}]
<1> DEFINE r == parseJudge0Response(a)
           status == TestStatus(r)
<1>1. /\ r.compilationError <=> a.id = 6
      /\ r.runtimeError <=> a.id \in {7, 12}
      /\ r.success <=> a.id = 3
      /\ r.match <=> a.match
      /\ r.status = a.description
  BY DEF parseJudge0Response, STATUS_CODES
<1>2. /\ a.id \in Nat /\ a.description \in Descriptions /\ a.match \in BOOLEAN
      /\ a = [id |-> a.id, description |-> a.description, match |-> a.match]
  BY DEF Answer
<1>3. a \in [id : {3}, description : {"Other"}, match : {TRUE}]
          <=> a.id = 3 /\ a.description = "Other" /\ a.match = TRUE
  BY <1>2
<1> HIDE DEF r
<1>4. /\ status \in TestStatuses
      /\ status = "COMPILATION_ERROR" <=> a.id = 6
      /\ status = "TIME_LIMIT_EXCEEDED" <=> a.id # 6 /\ a.description = "Time Limit Exceeded"
      /\ status = "MEMORY_LIMIT_EXCEEDED" <=> a.id # 6 /\ a.description = "Memory Limit Exceeded"
  BY <1>1, <1>2 DEF TestStatus, TestStatuses
<1>5. status = "RUNTIME_ERROR" <=>
          /\ a.id # 6
          /\ a.description \notin {"Time Limit Exceeded", "Memory Limit Exceeded"}
          /\ a.description = "Runtime" \/ a.id \in {7, 12}
  BY <1>1, <1>2 DEF TestStatus, IsRuntime
<1>6. status = "PASSED" <=> a.id = 3 /\ a.description = "Other" /\ a.match = TRUE
  <2>1. status = "PASSED" <=>
            /\ ~r.compilationError /\ r.success /\ r.match
            /\ r.status \notin {"Time Limit Exceeded", "Memory Limit Exceeded"} /\ ~IsRuntime(r)
    BY DEF TestStatus
  <2>2. a.match <=> a.match = TRUE
    BY <1>2
  <2>3. IsRuntime(r) <=> a.id \in {7, 12} \/ a.description = "Runtime"
    BY <1>1 DEF IsRuntime
  <2>4. status = "PASSED" <=>
            /\ a.id # 6 /\ a.id = 3 /\ a.match
            /\ a.description \notin {"Time Limit Exceeded", "Memory Limit Exceeded", "Runtime"}
            /\ a.id \notin {7, 12}
    BY <1>1, <2>1, <2>3
  <2>5. a.description \notin {"Time Limit Exceeded", "Memory Limit Exceeded", "Runtime"}
            <=> a.description = "Other"
    BY <1>2 DEF Descriptions
  <2>6. a.id = 3 => a.id # 6 /\ a.id \notin {7, 12}
    OBVIOUS
  <2> HIDE DEF status
  <2> QED BY <2>2, <2>4, <2>5, <2>6
<1> QED BY <1>3, <1>4, <1>5, <1>6 DEF r

LEMMA AnswersAreTyped ==
    ASSUME BatchShapes
    PROVE  \A k \in 1 .. Len(answers) : answers[k] \in Answer
<1>1. Failure \in Answer
  BY DEF Answer, Failure, Descriptions
<1>2. Answers \subseteq Answer
  BY JudgeBatchAssumption DEF Answer
<1>3. \A k \in 1 .. Len(answers) : answers[k] \in Answers \cup {Failure}
  BY DEF BatchShapes
<1> QED BY <1>1, <1>2, <1>3

LEMMA NoResultIsNoVerdict == NoResult \notin BatchVerdicts /\ NoResult \notin ExecutionResult
BY JudgeBatchAssumption

LEMMA PassedIsFinite ==
    ASSUME BatchShapes
    PROVE  /\ IsFiniteSet(PassedTests) /\ Cardinality(PassedTests) \in Nat
           /\ Cardinality(PassedTests) <= Len(testResults)
           /\ Cardinality(PassedTests) = Len(testResults)
                  <=> \A k \in 1 .. Len(testResults) : testResults[k] = "PASSED"
<1>1. Len(testResults) \in Nat
  BY DEF BatchShapes
<1>2. IsFiniteSet(1 .. Len(testResults)) /\ Cardinality(1 .. Len(testResults)) = Len(testResults)
  <2>1. 1 \in Int /\ Len(testResults) \in Int
    BY <1>1
  <2>2. /\ IsFiniteSet(1 .. Len(testResults))
        /\ Cardinality(1 .. Len(testResults))
               = IF 1 > Len(testResults) THEN 0 ELSE Len(testResults) - 1 + 1
    BY ONLY <2>1, FS_Interval
  <2> QED BY <1>1, <2>2
<1>3. PassedTests \subseteq 1 .. Len(testResults)
  BY DEF PassedTests
<1>4. IsFiniteSet(PassedTests) /\ Cardinality(PassedTests) \in Nat
  BY <1>2, <1>3, FS_Subset, FS_CardinalityType
<1>5. /\ Cardinality(PassedTests) <= Cardinality(1 .. Len(testResults))
      /\ Cardinality(PassedTests) = Cardinality(1 .. Len(testResults))
             => PassedTests = 1 .. Len(testResults)
  BY <1>2, <1>3, FS_Subset
<1> QED BY <1>2, <1>4, <1>5 DEF PassedTests

-----------------------------------------------------------------------------
(* JudgeBatch: the inductive invariant holds *)

\* The initial states satisfy it.
LEMMA BatchInitEstablishesIInv == BatchInit => BatchIInv
<1> SUFFICES ASSUME BatchInit PROVE BatchIInv
  OBVIOUS
<1>1. BatchShapes
  <2>1. answers \in Seq(Answers \cup {Failure}) /\ testResults \in Seq(TestStatuses)
    BY DEF BatchInit
  <2> QED BY <2>1 DEF BatchInit, BatchShapes
<1>2. InStep
  BY JudgeBatchAssumption DEF BatchInit, InStep
<1>3. PassedTests = {}
  BY DEF BatchInit, PassedTests
<1>4. Counted
  BY <1>3, FS_EmptySet DEF BatchInit, Counted
<1>5. Recorded /\ CompilationNoted /\ RuntimeNoted /\ TextNoted
  BY DEF BatchInit, Recorded, CompilationNoted, RuntimeNoted, TextNoted, SomeTest, FirstDiedWithText
<1>6. Decided
  BY DEF BatchInit, Decided
<1> QED BY <1>1, <1>2, <1>4, <1>5, <1>6 DEF BatchIInv

\* A call adds an answer and leaves the ones before it alone.
LEMMA CallKeepsIInv ==
    ASSUME BatchIInv, NEW a \in Answers \cup {Failure}, executeCode(a)
    PROVE  BatchIInv'
<1> USE DEF BatchIInv
<1>1. Len(answers) = Len(testResults) /\ Len(testResults) \in Nat /\ Len(testResults) < testCases
  BY DEF InStep, executeCode, BatchShapes
<1>2. /\ answers' = Append(answers, a) /\ answers \in Seq(Answers \cup {Failure})
      /\ UNCHANGED <<testCases, testResults, passedCount, errorVars, submissionStatus>>
      /\ stage = "call" /\ stage' = "record" /\ calls = 0
  BY DEF executeCode, BatchShapes, InStep
<1>3. /\ answers' \in Seq(Answers \cup {Failure}) /\ Len(answers') = Len(answers) + 1
      /\ \A k \in 1 .. Len(answers) : answers'[k] = answers[k]
      /\ answers'[Len(answers')] = a
  BY <1>2
<1>4. BatchShapes'
  BY <1>2, <1>3 DEF BatchShapes, errorVars
<1>5. InStep'
  BY <1>1, <1>2, <1>3 DEF InStep, executeCode
<1>6. Recorded'
  BY <1>1, <1>2, <1>3 DEF Recorded
<1>7. Counted' /\ RuntimeNoted' /\ Decided'
  BY <1>2 DEF Counted, PassedTests, RuntimeNoted, SomeTest, Decided, errorVars
<1>8. CompilationNoted'
  BY <1>1, <1>2, <1>3 DEF CompilationNoted, errorVars
<1>9. TextNoted'
  BY <1>1, <1>2, <1>3 DEF TextNoted, FirstDiedWithText, errorVars
<1> QED BY <1>4, <1>5, <1>6, <1>7, <1>8, <1>9

\* The rest of the loop body adds a status and what is to be remembered of it.
LEMMA RecordKeepsIInv ==
    ASSUME BatchIInv, Record
    PROVE  BatchIInv'
<1> USE DEF BatchIInv
<1> DEFINE n == Len(testResults)
           status == TestStatus(result)
<1>1. n \in Nat /\ n < testCases /\ Len(answers) = n + 1 /\ testCases \in Nat
  BY DEF InStep, Record, BatchShapes
<1>2. answers[n + 1] \in Answer /\ result = parseJudge0Response(answers[n + 1])
  BY <1>1, AnswersAreTyped DEF InStep, Record
<1>3. /\ status \in TestStatuses
      /\ status = "COMPILATION_ERROR" <=> answers[n + 1].id = 6
  BY <1>2, StatusTellsAnswer
<1>0. /\ result.compilationError = (answers[n + 1].id = 6)
      /\ result.runtimeError = (answers[n + 1].id \in {7, 12})
  BY <1>2 DEF parseJudge0Response, STATUS_CODES
<1>4. /\ testResults' \in Seq(TestStatuses) /\ Len(testResults') = n + 1
      /\ \A k \in 1 .. n : testResults'[k] = testResults[k]
      /\ testResults'[n + 1] = status
  BY <1>3 DEF Record, BatchShapes
<1>5. UNCHANGED <<testCases, answers>> /\ stage = "record" /\ stage' \in {"call", "decide"}
  BY DEF Record
<1>6. Counted'
  <2>1. PassedTests' = IF status = "PASSED" THEN PassedTests \cup {n + 1} ELSE PassedTests
    BY <1>1, <1>4 DEF PassedTests
  <2>2. n + 1 \notin PassedTests /\ IsFiniteSet(PassedTests) /\ Cardinality(PassedTests) \in Nat
    BY <1>1, PassedIsFinite DEF PassedTests
  <2>3. Cardinality(PassedTests \cup {n + 1}) = Cardinality(PassedTests) + 1
    BY <2>2, FS_AddElement
  <2>4. passedCount' = passedCount + (IF status = "PASSED" THEN 1 ELSE 0)
    BY DEF Record
  <2> QED BY <2>1, <2>2, <2>3, <2>4 DEF Counted
<1>7. CompilationNoted'
  <2>1. compilationError' <=> compilationError \/ (n = 0 /\ answers[n + 1].id = 6)
    <3>1. testResults = <<>> <=> n = 0
      BY DEF BatchShapes
    <3>2. compilationError' = (compilationError \/ (testResults = <<>> /\ result.compilationError))
      BY DEF Record
    <3>3. result.compilationError <=> answers[n + 1].id = 6
      BY <1>0
    <3> QED BY <3>1, <3>2, <3>3
  <2>2. compilationError <=> n > 0 /\ answers[1].id = 6
    BY DEF CompilationNoted, STATUS_CODES
  <2>3. compilationError' <=> answers[1].id = 6
    BY <1>1, <2>1, <2>2
  <2> QED BY <1>1, <1>4, <1>5, <2>3 DEF CompilationNoted, STATUS_CODES
<1>8. /\ RuntimeNoted' /\ TextNoted' /\ runtimeError' \in BOOLEAN /\ firstRuntimeError' \in BOOLEAN
  <2>1. CASE status = "RUNTIME_ERROR" /\ ~firstRuntimeError
    <3>1. runtimeError' = result.runtimeError /\ firstRuntimeError' = TRUE
      BY <2>1 DEF Record
    <3>2. \A k \in 1 .. n : testResults[k] # "RUNTIME_ERROR"
      BY <2>1 DEF RuntimeNoted, SomeTest
    <3>3. FirstDiedWithText' <=> answers[n + 1].id \in {7, 12}
      BY <1>1, <1>4, <1>5, <2>1, <3>2 DEF FirstDiedWithText, STATUS_CODES
    <3>4. SomeTest("RUNTIME_ERROR")'
      BY <1>1, <1>4, <2>1 DEF SomeTest
    <3>5. runtimeError' = (answers[n + 1].id \in {7, 12})
      BY <1>0, <3>1
    <3>6. RuntimeNoted' /\ firstRuntimeError' \in BOOLEAN
      BY <3>1, <3>4 DEF RuntimeNoted
    <3>7. runtimeError' \in BOOLEAN
      BY <3>5
    <3>8. runtimeError' <=> answers[n + 1].id \in {7, 12}
      BY <3>5
    <3>9. TextNoted'
      BY <3>3, <3>8 DEF TextNoted
    <3> QED BY <3>6, <3>7, <3>9
  <2>2. CASE ~(status = "RUNTIME_ERROR" /\ ~firstRuntimeError)
    <3>1. UNCHANGED <<runtimeError, firstRuntimeError>>
      BY <2>2 DEF Record
    <3>2. SomeTest("RUNTIME_ERROR")' <=> SomeTest("RUNTIME_ERROR")
      BY <1>1, <1>4, <2>2 DEF SomeTest, RuntimeNoted
    <3>3. FirstDiedWithText' <=> FirstDiedWithText
      BY <1>1, <1>4, <1>5, <2>2 DEF FirstDiedWithText, RuntimeNoted, SomeTest
    <3> QED BY <3>1, <3>2, <3>3 DEF RuntimeNoted, TextNoted, BatchShapes
  <2> QED BY <2>1, <2>2
<1>9. BatchShapes'
  <2>1. passedCount' \in Nat /\ compilationError' \in BOOLEAN
    BY <1>0 DEF Record, BatchShapes
  <2> QED BY <1>4, <1>5, <1>8, <2>1 DEF BatchShapes
<1>10. InStep'
  BY <1>1, <1>4, <1>5 DEF InStep, Record
<1>11. Recorded'
  BY <1>1, <1>2, <1>4, <1>5 DEF Recorded
<1>12. Decided'
  BY <1>5 DEF Decided, Record
<1> QED BY <1>6, <1>7, <1>8, <1>9, <1>10, <1>11, <1>12

\* Every step keeps it.
LEMMA BatchStepKeepsIInv ==
    ASSUME BatchIInv, [BatchNext]_batchVars
    PROVE  BatchIInv'
<1>1. ASSUME NEW a \in Answers \cup {Failure}, executeCode(a) PROVE BatchIInv'
  BY <1>1, CallKeepsIInv
<1>2. ASSUME Record PROVE BatchIInv'
  BY <1>2, RecordKeepsIInv
<1>3. ASSUME Decide PROVE BatchIInv'
  <2>1. /\ UNCHANGED <<testCases, calls, result, testResults, passedCount, errorVars, answers>>
        /\ stage = "decide" /\ stage' = "done" /\ submissionStatus' = SubmissionStatus
    BY <1>3 DEF Decide
  <2>2. SubmissionStatus' = SubmissionStatus
    BY <2>1 DEF SubmissionStatus, SomeTest, errorVars
  <2>3. Decided'
    BY <2>1, <2>2 DEF Decided
  <2>4. BatchShapes' /\ InStep' /\ Recorded' /\ Counted'
    BY <2>1 DEF BatchIInv, BatchShapes, InStep, Recorded, Counted, PassedTests, errorVars
  <2>5. CompilationNoted' /\ RuntimeNoted' /\ TextNoted'
    BY <2>1 DEF BatchIInv, CompilationNoted, RuntimeNoted, TextNoted, SomeTest, FirstDiedWithText,
       errorVars
  <2> QED BY <2>3, <2>4, <2>5 DEF BatchIInv
<1>4. ASSUME UNCHANGED batchVars PROVE BatchIInv'
  BY <1>4 DEF batchVars, errorVars, BatchIInv, BatchShapes, InStep, Recorded, Counted, PassedTests,
     CompilationNoted, RuntimeNoted, TextNoted, SomeTest, FirstDiedWithText, Decided,
     SubmissionStatus
<1> QED BY <1>1, <1>2, <1>3, <1>4 DEF BatchNext

LEMMA BatchInvariance == BatchSpec => []BatchIInv
<1>1. BatchIInv /\ [BatchNext]_batchVars => BatchIInv'
  BY BatchStepKeepsIInv
<1> QED BY BatchInitEstablishesIInv, <1>1, PTL DEF BatchSpec

\* What Submission assumes of the verdicts is so for those of a batch.
LEMMA VerdictsFit ==
    /\ "ACCEPTED" \in BatchVerdicts
    /\ BatchVerdicts \cap {"ABSENT", "PENDING", "PROCESSING", "INTERNAL_ERROR"} = {}
BY DEF BatchVerdicts

LEMMA VerdictIsTyped == SubmissionStatus \in BatchVerdicts
BY DEF SubmissionStatus, BatchVerdicts

LEMMA ResultIsTyped ==
    ASSUME NEW a \in Answer
    PROVE  parseJudge0Response(a) \in ExecutionResult
<1>1. /\ a.description \in Descriptions /\ a.match \in BOOLEAN
      /\ (a.id = 3) \in BOOLEAN /\ (a.id = 6) \in BOOLEAN /\ (a.id \in {7, 12}) \in BOOLEAN
  BY DEF Answer
<1> QED BY <1>1 DEF parseJudge0Response, STATUS_CODES, ExecutionResult

-----------------------------------------------------------------------------
(* JudgeBatch: the theorems *)

\* The loop's variables have their types, and no test takes more calls than
\* the retries allow.
THEOREM BatchTypeCorrect == BatchSpec => []BatchTypeOK
<1>1. ASSUME BatchIInv PROVE BatchTypeOK
  <2> USE <1>1 DEF BatchIInv
  <2>1. Len(testResults) \in Nat /\ Len(testResults) <= testCases /\ testCases \in Nat
    BY DEF InStep, BatchShapes
  <2>2. calls \in 0 .. MAX_RETRIES
    BY JudgeBatchAssumption DEF InStep, BatchShapes
  <2>3. result \in ExecutionResult \cup {NoResult}
    <3>1. CASE stage = "record"
      <4>1. answers[Len(answers)] \in Answer
        BY <2>1, <3>1, AnswersAreTyped DEF InStep
      <4> QED BY <3>1, <4>1, ResultIsTyped DEF InStep
    <3>2. CASE stage # "record"
      BY <3>2 DEF InStep, BatchShapes
    <3> QED BY <3>1, <3>2
  <2>4. passedCount \in 0 .. testCases
    BY <2>1, PassedIsFinite DEF Counted
  <2>5. submissionStatus \in BatchVerdicts \cup {NoResult}
    BY VerdictIsTyped DEF Decided
  <2> QED BY <2>1, <2>2, <2>3, <2>4, <2>5 DEF BatchTypeOK, BatchShapes
<1> QED BY BatchInvariance, <1>1, PTL

\* The verdict, the count and the stored statuses agree with each other.
LEMMA VerdictAgrees ==
    ASSUME BatchIInv, submissionStatus # NoResult
    PROVE  VerdictMatchesTests
<1> USE DEF BatchIInv
<1>1. stage = "done" /\ submissionStatus = SubmissionStatus /\ Len(testResults) = testCases
  BY DEF Decided, InStep
<1>2. testCases \in Nat /\ testCases > 0 /\ Len(answers) = testCases
  BY <1>1 DEF BatchShapes, InStep
<1>3. \A k \in 1 .. testCases : answers[k] \in Answer
  BY <1>2, AnswersAreTyped
<1>4. passedCount = testCases <=> \A k \in 1 .. testCases : testResults[k] = "PASSED"
  BY <1>1, PassedIsFinite DEF Counted
<1>5. passedCount \in Nat /\ passedCount <= testCases
  BY <1>1, PassedIsFinite DEF Counted
<1>6. compilationError => testResults[1] = "COMPILATION_ERROR"
  <2>1. testResults[1] = TestStatus(parseJudge0Response(answers[1])) /\ answers[1] \in Answer
    BY <1>1, <1>2, <1>3 DEF Recorded
  <2>2. compilationError => answers[1].id = 6
    BY DEF CompilationNoted, STATUS_CODES
  <2> QED BY <2>1, <2>2, StatusTellsAnswer
<1>7. compilationError => SomeTest("COMPILATION_ERROR")
  BY <1>1, <1>2, <1>6 DEF SomeTest
<1>8. runtimeError => SomeTest("RUNTIME_ERROR")
  BY DEF TextNoted, FirstDiedWithText, SomeTest
<1>9. \A status \in {"COMPILATION_ERROR", "TIME_LIMIT_EXCEEDED", "MEMORY_LIMIT_EXCEEDED"} :
          SomeTest(status) => passedCount # testCases
  BY <1>1, <1>4 DEF SomeTest
<1>10. submissionStatus = "ACCEPTED" <=> passedCount = testCases
  <2>1. SubmissionStatus = "ACCEPTED" => passedCount = testCases
    BY DEF SubmissionStatus
  <2>2. ASSUME passedCount = testCases PROVE SubmissionStatus = "ACCEPTED"
    <3>1. ~compilationError /\ ~SomeTest("TIME_LIMIT_EXCEEDED") /\ ~SomeTest("MEMORY_LIMIT_EXCEEDED")
      BY <1>7, <1>9, <2>2
    <3>2. ~(passedCount < testCases)
      BY <1>2, <2>2
    <3> QED BY <2>2, <3>1, <3>2 DEF SubmissionStatus
  <2> QED BY <1>1, <2>1, <2>2
<1>11. submissionStatus \notin {"ACCEPTED", "WRONG_ANSWER"} => SomeTest(submissionStatus)
  BY <1>1, <1>7, <1>8 DEF SubmissionStatus
<1>12. submissionStatus = "ACCEPTED" <=>
           \A k \in 1 .. testCases : k <= Len(testResults) /\ testResults[k] = "PASSED"
  BY <1>1, <1>2, <1>4, <1>10
<1> QED BY <1>1, <1>11, <1>12 DEF VerdictMatchesTests, Counted, PassedTests

\* What is stored of a submission agrees with itself, for every number of
\* tests and every sequence of answers.
THEOREM VerdictsMatchTests == BatchSpec => []VerdictMatchesTests
<1>1. BatchIInv => VerdictMatchesTests
  BY VerdictAgrees DEF VerdictMatchesTests
<1> QED BY BatchInvariance, <1>1, PTL

\* The verdict is a function of the answers, not of the order of the tests'
\* errors in the loop.
LEMMA VerdictFollowsAnswers ==
    ASSUME BatchIInv, submissionStatus # NoResult
    PROVE  VerdictIsFirstCause
<1> USE DEF BatchIInv
<1> DEFINE tests == 1 .. testCases
           died == \E k \in tests : Died(k)
           diedWithText == \E k \in tests :
               /\ Died(k) /\ answers[k].id \in {7, 12}
               /\ \A h \in 1 .. k - 1 : ~Died(h)
           over(text) == \E k \in tests : Limit(k, text)
<1>1. stage = "done" /\ submissionStatus = SubmissionStatus /\ Len(testResults) = testCases
  BY DEF Decided, InStep
<1>2. testCases \in Nat /\ testCases > 0 /\ Len(answers) = testCases
  BY <1>1 DEF BatchShapes, InStep
<1>3. \A k \in tests : /\ answers[k] \in Answer
                       /\ testResults[k] = TestStatus(parseJudge0Response(answers[k]))
  BY <1>1, <1>2, AnswersAreTyped DEF Recorded
<1>4. \A k \in tests :
          /\ testResults[k] = "COMPILATION_ERROR" <=> ~Ran(k)
          /\ testResults[k] = "TIME_LIMIT_EXCEEDED" <=> Limit(k, "Time Limit Exceeded")
          /\ testResults[k] = "MEMORY_LIMIT_EXCEEDED" <=> Limit(k, "Memory Limit Exceeded")
          /\ testResults[k] = "RUNTIME_ERROR" <=> Died(k)
          /\ testResults[k] = "PASSED" <=> Passed(k)
  BY <1>3, StatusTellsAnswer DEF Ran, Limit, Died, Passed, STATUS_CODES
<1>5. compilationError <=> ~Ran(1)
  BY <1>1, <1>2 DEF CompilationNoted, Ran
<1>6. /\ SomeTest("TIME_LIMIT_EXCEEDED") <=> over("Time Limit Exceeded")
      /\ SomeTest("MEMORY_LIMIT_EXCEEDED") <=> over("Memory Limit Exceeded")
  BY <1>1, <1>4 DEF SomeTest
<1>7. runtimeError <=> diedWithText
  <2>1. \A k \in tests : \A h \in 1 .. k - 1 : h \in tests
    BY <1>2
  <2>2. FirstDiedWithText <=> diedWithText
    BY <1>1, <1>4, <2>1 DEF FirstDiedWithText, STATUS_CODES
  <2> QED BY <2>2 DEF TextNoted
<1>8. /\ passedCount \in Nat /\ passedCount <= testCases
      /\ passedCount = testCases <=> \A k \in tests : Passed(k)
  BY <1>1, <1>4, PassedIsFinite DEF Counted
<1>9. diedWithText => passedCount < testCases
  <2>1. \A k \in tests : Died(k) => ~Passed(k)
    BY <1>4
  <2> QED BY <1>2, <1>8, <2>1
<1> HIDE DEF died, diedWithText, over, tests
<1>10. submissionStatus =
          IF ~Ran(1) THEN "COMPILATION_ERROR"
          ELSE IF diedWithText THEN "RUNTIME_ERROR"
          ELSE IF over("Time Limit Exceeded") THEN "TIME_LIMIT_EXCEEDED"
          ELSE IF over("Memory Limit Exceeded") THEN "MEMORY_LIMIT_EXCEEDED"
          ELSE IF \A k \in tests : Passed(k) THEN "ACCEPTED" ELSE "WRONG_ANSWER"
  BY <1>1, <1>5, <1>6, <1>7, <1>8, <1>9 DEF SubmissionStatus
<1>11. diedWithText => died
  BY DEF diedWithText, died
<1>12. died => ~\A k \in tests : Passed(k)
  BY <1>4 DEF died, tests
<1> QED BY <1>10, <1>11, <1>12 DEF VerdictIsFirstCause, died, diedWithText, over, tests

\* The verdict is the first cause there is, in the order of batchExecute's chain;
\* nothing but "not ACCEPTED" is said where the first death carries no text.
THEOREM VerdictsHaveTheirCause == BatchSpec => []VerdictIsFirstCause
<1>1. BatchIInv => VerdictIsFirstCause
  BY VerdictFollowsAnswers DEF VerdictIsFirstCause
<1> QED BY BatchInvariance, <1>1, PTL
=============================================================================
