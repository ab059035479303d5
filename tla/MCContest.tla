----------------------------- MODULE MCContest -----------------------------
(* Contest for TLC: one place for two users, registration at times 1 to 2, *)
(* the contest from 3 to 4.                                                *)
EXTENDS Contest

Nothing == [status |-> None, regStart |-> None, regEnd |-> None, start |-> None,
            duration |-> None, limit |-> None, isPublic |-> None]

MCCreations ==
    {[regStart |-> 1, regEnd |-> 2, start |-> 3, duration |-> 1, limit |-> 1,
      isPublic |-> public] : public \in BOOLEAN}

MCUpdates ==
    {[Nothing EXCEPT !.limit = 2],
     [Nothing EXCEPT !.status = "REGISTRATION_OPEN"],
     [Nothing EXCEPT !.regEnd = 4],
     [Nothing EXCEPT !.start = 4, !.isPublic = FALSE]}

MCStatusUpdates ==
    {[status |-> s, start |-> None, end |-> None] : s \in {"ACTIVE", "ENDED", "CANCELLED"}}
        \cup {[status |-> "ACTIVE", start |-> 2, end |-> None],
              [status |-> "ACTIVE", start |-> None, end |-> 5]}
=============================================================================
