--------------------------- MODULE MCLeaderboard ---------------------------
(* Leaderboard for TLC: two users; one is renamed, and solves a problem    *)
(* twice; the other has no name.                                           *)
EXTENDS Leaderboard

CONSTANTS u1, u2, p1, p2, n1, n2, j1, j2, j3, j4

MCPayload ==
    [j \in Jobs |->
        CASE j = j1 -> [user |-> u1, problem |-> p1, difficulty |-> "EASY", name |-> n1]
          [] j = j2 -> [user |-> u1, problem |-> p1, difficulty |-> "EASY", name |-> n2]
          [] j = j3 -> [user |-> u1, problem |-> p2, difficulty |-> "HARD", name |-> n1]
          [] j = j4 -> [user |-> u2, problem |-> p1, difficulty |-> "OTHER", name |-> None]]
=============================================================================
