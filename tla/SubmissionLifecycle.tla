------------------------ MODULE SubmissionLifecycle ------------------------
(***************************************************************************)
(* What a submission promises to the rest of the system, whatever the      *)
(* queue and the workers do: it is started at most once, gets at most one  *)
(* verdict, and is reported to the leaderboard at most once, only while it *)
(* is accepted.  It may be given up (INTERNAL_ERROR) at any moment, even   *)
(* after a verdict, and a submission that was given up stays so.           *)
(***************************************************************************)
EXTENDS Naturals

CONSTANTS
    Ids,        \* submission ids
    Verdicts    \* the statuses batchExecute can return, "ACCEPTED" among them

VARIABLES
    status,     \* status[s]: "ABSENT" or the stored SubmissionStatus
    credits     \* credits[s]: leaderboard jobs added for s

lifecycleVars == <<status, credits>>

Init ==
    /\ status = [s \in Ids |-> "ABSENT"]
    /\ credits = [s \in Ids |-> 0]

Submit(s) ==
    /\ status[s] = "ABSENT"
    /\ status' = [status EXCEPT ![s] = "PENDING"]
    /\ UNCHANGED credits

Start(s) ==
    /\ status[s] = "PENDING"
    /\ status' = [status EXCEPT ![s] = "PROCESSING"]
    /\ UNCHANGED credits

Decide(s, v) ==
    /\ status[s] = "PROCESSING"
    /\ status' = [status EXCEPT ![s] = v]
    /\ UNCHANGED credits

GiveUp(s) ==
    /\ status[s] # "ABSENT"
    /\ status' = [status EXCEPT ![s] = "INTERNAL_ERROR"]
    /\ UNCHANGED credits

Credit(s) ==
    /\ status[s] = "ACCEPTED"
    /\ credits[s] = 0
    /\ credits' = [credits EXCEPT ![s] = 1]
    /\ UNCHANGED status

Next ==
    \E s \in Ids :
        \/ Submit(s)
        \/ Start(s)
        \/ \E v \in Verdicts : Decide(s, v)
        \/ GiveUp(s)
        \/ Credit(s)

Spec == Init /\ [][Next]_lifecycleVars
=============================================================================
