----------------------------- MODULE Scoreboard -----------------------------
(***************************************************************************)
(* What the leaderboard promises: a user is awarded a problem at most      *)
(* once, points and the number of solved problems move together with it    *)
(* and never go down, and the public ranking of a user only ever changes   *)
(* to the points the user has at that moment.                              *)
(***************************************************************************)
EXTENDS Naturals

CONSTANTS Users, Problems, Worths   \* Worths: the points a problem can bring

VARIABLES
    solved,     \* solved[u]: problems the user was awarded
    count,      \* count[u]: how many
    points,     \* points[u]: what they brought
    board       \* board[u]: the ranking's figure for the user

boardVars == <<solved, count, points, board>>

Init ==
    /\ solved = [u \in Users |-> {}]
    /\ count = [u \in Users |-> 0]
    /\ points = [u \in Users |-> 0]
    /\ board = [u \in Users |-> 0]

Award(u, p, worth) ==
    /\ p \notin solved[u]
    /\ solved' = [solved EXCEPT ![u] = @ \cup {p}]
    /\ count' = [count EXCEPT ![u] = @ + 1]
    /\ points' = [points EXCEPT ![u] = @ + worth]
    /\ UNCHANGED board

Publish(u) ==
    /\ board' = [board EXCEPT ![u] = points[u]]
    /\ UNCHANGED <<solved, count, points>>

Next ==
    \E u \in Users :
        \/ \E p \in Problems, worth \in Worths : Award(u, p, worth)
        \/ Publish(u)

Spec == Init /\ [][Next]_boardVars
=============================================================================
