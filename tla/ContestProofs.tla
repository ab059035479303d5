--------------------------- MODULE ContestProofs ---------------------------
(***************************************************************************)
(* Proofs about Contest, for any users, requests, dates and clock.         *)
(*                                                                         *)
(* The argument: a request acts on what it read earlier, so the invariant  *)
(* says of every label what is still true of what the request remembers.   *)
(* A status that was read stays in `past`; what registerParticipant has    *)
(* checked stays true because no write passes the lock it holds.           *)
(***************************************************************************)
EXTENDS Contest, FiniteSetTheorems, TLAPS

Fields == {"status", "regStart", "regEnd", "start", "end", "duration", "limit", "isPublic"}

\* The columns of an UPDATE: some fields of a row, each with a value of its type.
ColumnsOK(m) ==
    /\ DOMAIN m \subseteq Fields
    /\ "status" \in DOMAIN m => m["status"] \in ContestStatus
    /\ "regStart" \in DOMAIN m => m["regStart"] \in Nat
    /\ "regEnd" \in DOMAIN m => m["regEnd"] \in Nat
    /\ "start" \in DOMAIN m => m["start"] \in Nat
    /\ "end" \in DOMAIN m => m["end"] \in Nat
    /\ "duration" \in DOMAIN m => m["duration"] \in MinDuration .. MaxDuration
    /\ "limit" \in DOMAIN m => m["limit"] \in Nat
    /\ "isPublic" \in DOMAIN m => m["isPublic"] \in BOOLEAN

\* What a request remembers, by the call it makes next.
WriterOK(r) == pc[r] = "write" => ColumnsOK(mem[r])

ReaderOK(r) ==
    pc[r] \in {"startCheck", "submitCheck"} =>
        who[r] \in Users /\ mem[r] \in Row /\ mem[r].status \in past

ParticipantOK(r) ==
    pc[r] \in {"start", "submit"} => who[r] \in Users /\ "ACTIVE" \in past

\* The checks of registerParticipant hold to the end of its transaction.
RegistrantOK(r) ==
    pc[r] = "commit" =>
        /\ who[r] \in Users /\ lock = r
        /\ contest \in Row /\ HasRoom(contest)
        /\ contest.isPublic /\ contest.status # "CANCELLED" /\ contest.regStart <= now

RequestsOK ==
    /\ DOMAIN mem = Requests
    /\ \A r \in Requests : WriterOK(r) /\ ReaderOK(r) /\ ParticipantOK(r) /\ RegistrantOK(r)

\* `past` has the status of the row, and of what the transition acts on.
PastOK == contest # None => contest.status \in past

AutoOK ==
    /\ auto.pc # "idle" => auto.row \in Row
    /\ auto.pc = "finish" => "ENDED" \in past

\* Nothing has happened before the first request, which creates the contest.
BeginningOK ==
    served = 0 =>
        /\ contest = None /\ auto = Resting
        /\ \A u \in Users : seats[u] = None
        /\ \A r \in Requests : pc[r] = "idle"

\* The inductive invariant.
IInv == TypeOK /\ RequestsOK /\ PastOK /\ AutoOK /\ BeginningOK /\ SeatsFollowContest
-----------------------------------------------------------------------------
(* Lemmas about the operators *)

\* What most steps need of the constants: None is no value, bounds are numbers.
LEMMA NoneIsNew ==
    /\ Horizon \in Nat /\ MaxRequests \in Nat
    /\ None \notin Users /\ None \notin Requests /\ None \notin Row
    /\ None \notin ContestStatus /\ None \notin ParticipantStatus
BY ContestAssumption

\* An UPDATE of well-typed columns leaves a row a row, and a deleted row deleted;
\* the history gains the status it leaves.
LEMMA WriteRowKeepsRow ==
    ASSUME NEW columns, ColumnsOK(columns), WriteRow(columns),
           contest \in Row \cup {None}, past \subseteq ContestStatus
    PROVE  /\ contest' \in Row \cup {None}
           /\ contest' = None <=> contest = None
           /\ contest' # None => contest'.status \in past'
           /\ past \subseteq past' /\ past' \subseteq ContestStatus
<1>1. CASE contest = None
  BY <1>1 DEF WriteRow
<1>2. CASE contest # None
  <2>1. contest \in Row
    BY <1>2
  <2>2. contest' \in Row
    BY <1>2, <2>1 DEF WriteRow, ColumnsOK, Row, Fields
  <2>3. contest'.status \in ContestStatus
    BY <2>2 DEF Row
  <2> QED BY <1>2, <2>2, <2>3, ContestAssumption DEF WriteRow
<1> QED BY <1>1, <1>2

\* What update() writes is well typed, whichever fields are given.
LEMMA UpdateColumnsOK ==
    ASSUME NEW dto \in UpdateContestDto, NEW row \in Row,
           LET of(c) == IF c \in Given(dto) THEN dto[c] ELSE row[c] IN
               Given(dto) \cap {"regStart", "start", "duration"} # {}
                   => ValidDates(of("regStart"), of("regEnd"), of("start"), of("duration"))
    PROVE  ColumnsOK(UpdateColumns(dto, row))
<1> DEFINE m == UpdateColumns(dto, row)
<1>1. DOMAIN m \subseteq Given(dto) \cup {"isPublic", "end"}
  BY DEF UpdateColumns
<1>2. Given(dto) \subseteq Fields \ {"end"}
  BY DEF Given, UpdateContestDto, Fields
<1>3. \A c \in Given(dto) : c \in DOMAIN m /\ m[c] = dto[c]
  BY <1>2 DEF UpdateColumns, Fields
<1>4. "isPublic" \notin Given(dto) => m["isPublic"] = TRUE
  BY DEF UpdateColumns
<1>5. "end" \in DOMAIN m => m["end"] \in Nat
  BY <1>2, ContestAssumption DEF UpdateColumns, Given, UpdateContestDto, Optional, Row, Fields
<1>6. \A c \in Given(dto) : dto[c] # None
  BY DEF Given
<1> HIDE DEF m
<1>7. ColumnsOK(m)
  BY <1>1, <1>2, <1>3, <1>4, <1>5, <1>6 DEF ColumnsOK, UpdateContestDto, Optional, Fields
<1> QED BY <1>7 DEF m

\* What updateStatus() writes is well typed.
LEMMA StatusColumnsOK ==
    ASSUME NEW dto \in UpdateContestStatusDto, NEW row \in Row
    PROVE  ColumnsOK(StatusColumns(dto, row))
BY ContestAssumption
   DEF StatusColumns, ColumnsOK, UpdateContestStatusDto, Optional, Row, Fields, ContestStatus

\* The transition changes nothing of a row but its status.
LEMMA NewStatusOK ==
    ASSUME NEW row \in Row
    PROVE  NewStatus(row) \in ContestStatus /\ [row EXCEPT !.status = NewStatus(row)] \in Row
<1>1. NewStatus(row) \in ContestStatus
  BY DEF NewStatus, Row, ContestStatus
<1> QED BY <1>1 DEF Row
-----------------------------------------------------------------------------
(* The inductive invariant *)

\* The initial states satisfy it.
LEMMA InitEstablishesIInv == Init => IInv
<1> SUFFICES ASSUME Init PROVE IInv
  OBVIOUS
<1>1. TypeOK
  BY ContestAssumption DEF Init, TypeOK, Resting, Labels
<1>2. RequestsOK
  BY DEF Init, RequestsOK, WriterOK, ReaderOK, ParticipantOK, RegistrantOK
<1>3. PastOK /\ AutoOK /\ BeginningOK /\ SeatsFollowContest
  BY NoneIsNew DEF Init, PastOK, AutoOK, BeginningOK, SeatsFollowContest, Resting,
     ParticipantStatus
<1> QED BY <1>1, <1>2, <1>3 DEF IInv

(***************************************************************************)
(* Every step keeps it: one step per action; under it, one per conjunct    *)
(* the action disturbs, and one for those it has no part in.               *)
(***************************************************************************)
LEMMA StepKeepsIInv ==
    ASSUME IInv, [Next]_vars
    PROVE  IInv'
<1> USE DEF IInv, rowVars, requestVars, Step, Reply, Arrive
<1>1. ASSUME NEW r \in Requests, NEW dto \in Creations, CreateContest(r, dto) PROVE IInv'
  <2>1. contest' \in Row
    BY <1>1, ContestAssumption DEF CreateContest, ValidDates, CreateContestDto, Row, ContestStatus
  <2>2. TypeOK'
    BY <1>1, NoneIsNew, <2>1
       DEF CreateContest, TypeOK, Labels, ContestStatus
  <2>3. RequestsOK'
    BY <1>1, NoneIsNew, <2>1
       DEF CreateContest, RequestsOK, WriterOK, ReaderOK, ParticipantOK, RegistrantOK, HasRoom, BeginningOK
  <2>4. PastOK' /\ AutoOK' /\ BeginningOK' /\ SeatsFollowContest'
    BY <1>1, NoneIsNew, <2>1
       DEF CreateContest, PastOK, AutoOK, BeginningOK, Resting, SeatsFollowContest, TypeOK, ParticipantStatus
  <2> QED BY <2>1, <2>2, <2>3, <2>4
<1>2. ASSUME NEW r \in Requests, CreateProblems(r) PROVE IInv'
  <2>1. TypeOK'
    BY <1>2, NoneIsNew
       DEF CreateProblems, TypeOK, Labels
  <2>2. RequestsOK'
    BY <1>2, NoneIsNew
       DEF CreateProblems, RequestsOK, WriterOK, ReaderOK, ParticipantOK, RegistrantOK, HasRoom, TypeOK
  <2>3. PastOK' /\ AutoOK' /\ BeginningOK' /\ SeatsFollowContest'
    BY <1>2, NoneIsNew
       DEF CreateProblems, PastOK, AutoOK, BeginningOK, Resting, SeatsFollowContest, TypeOK
  <2> QED BY <2>1, <2>2, <2>3
<1>3. ASSUME NEW r \in Requests, NEW dto \in Updates, UpdateCheck(r, dto) PROVE IInv'
  <2>1. ColumnsOK(UpdateColumns(dto, contest))
    BY <1>3, ContestAssumption, UpdateColumnsOK DEF UpdateCheck, TypeOK
  <2>2. TypeOK'
    BY <1>3, NoneIsNew
       DEF UpdateCheck, TypeOK, Labels
  <2>3. RequestsOK'
    BY <1>3, NoneIsNew, <2>1
       DEF UpdateCheck, RequestsOK, WriterOK, ReaderOK, ParticipantOK, RegistrantOK, HasRoom, TypeOK
  <2>4. PastOK' /\ AutoOK' /\ BeginningOK' /\ SeatsFollowContest'
    BY <1>3, NoneIsNew
       DEF UpdateCheck, PastOK, AutoOK, BeginningOK, Resting, SeatsFollowContest, TypeOK
  <2> QED BY <2>1, <2>2, <2>3, <2>4
<1>4. ASSUME NEW r \in Requests, NEW dto \in StatusUpdates, StatusCheck(r, dto) PROVE IInv'
  <2>1. ColumnsOK(StatusColumns(dto, contest))
    BY <1>4, ContestAssumption, StatusColumnsOK DEF StatusCheck, TypeOK
  <2>2. TypeOK'
    BY <1>4, NoneIsNew
       DEF StatusCheck, TypeOK, Labels
  <2>3. RequestsOK'
    BY <1>4, NoneIsNew, <2>1
       DEF StatusCheck, RequestsOK, WriterOK, ReaderOK, ParticipantOK, RegistrantOK, HasRoom, TypeOK
  <2>4. PastOK' /\ AutoOK' /\ BeginningOK' /\ SeatsFollowContest'
    BY <1>4, NoneIsNew
       DEF StatusCheck, PastOK, AutoOK, BeginningOK, Resting, SeatsFollowContest, TypeOK
  <2> QED BY <2>1, <2>2, <2>3, <2>4
<1>5. ASSUME NEW r \in Requests, Write(r) PROVE IInv'
  <2>1. /\ contest' \in Row \cup {None}
        /\ contest' = None <=> contest = None
        /\ contest' # None => contest'.status \in past'
        /\ past \subseteq past' /\ past' \subseteq ContestStatus
    BY <1>5, WriteRowKeepsRow DEF Write, RequestsOK, WriterOK, TypeOK
  <2>2. TypeOK'
    BY <1>5, NoneIsNew, <2>1
       DEF Write, TypeOK, Labels
  <2>3. RequestsOK'
    BY <1>5, NoneIsNew, <2>1
       DEF Write, RequestsOK, WriterOK, ReaderOK, ParticipantOK, RegistrantOK, HasRoom, TypeOK
  <2>4. PastOK' /\ AutoOK' /\ BeginningOK' /\ SeatsFollowContest'
    BY <1>5, NoneIsNew, <2>1
       DEF Write, PastOK, AutoOK, BeginningOK, Resting, SeatsFollowContest, TypeOK
  <2> QED BY <2>1, <2>2, <2>3, <2>4
<1>6. ASSUME NEW r \in Requests, DeleteCheck(r) PROVE IInv'
  <2>1. TypeOK'
    BY <1>6, NoneIsNew
       DEF DeleteCheck, TypeOK, Labels
  <2>2. RequestsOK'
    BY <1>6, NoneIsNew
       DEF DeleteCheck, RequestsOK, WriterOK, ReaderOK, ParticipantOK, RegistrantOK, HasRoom, TypeOK
  <2>3. PastOK' /\ AutoOK' /\ BeginningOK' /\ SeatsFollowContest'
    BY <1>6, NoneIsNew
       DEF DeleteCheck, PastOK, AutoOK, BeginningOK, Resting, SeatsFollowContest, TypeOK
  <2> QED BY <2>1, <2>2, <2>3
<1>7. ASSUME NEW r \in Requests, Delete(r) PROVE IInv'
  <2>1. TypeOK'
    BY <1>7, NoneIsNew
       DEF Delete, TypeOK, Labels
  <2>2. /\ DOMAIN mem' = Requests
        /\ \A q \in Requests : WriterOK(q)' /\ ReaderOK(q)' /\ ParticipantOK(q)'
    BY <1>7, NoneIsNew DEF Delete, RequestsOK, WriterOK, ReaderOK, ParticipantOK, TypeOK
  <2>3. \A q \in Requests : RegistrantOK(q)'
    BY <1>7, NoneIsNew DEF Delete, RequestsOK, RegistrantOK, HasRoom, TypeOK
  <2>4. RequestsOK'
    BY <1>7, <2>2, <2>3 DEF RequestsOK
  <2>5. PastOK' /\ AutoOK' /\ BeginningOK' /\ SeatsFollowContest'
    BY <1>7, NoneIsNew
       DEF Delete, PastOK, AutoOK, BeginningOK, Resting, SeatsFollowContest, TypeOK, ParticipantStatus
  <2> QED BY <2>1, <2>2, <2>3, <2>4, <2>5
<1>8. ASSUME NEW r \in Requests, NEW u \in Users, RegisterCheck(r, u) PROVE IInv'
  <2>1. TypeOK'
    BY <1>8, NoneIsNew
       DEF RegisterCheck, TypeOK, Labels
  <2>2. /\ DOMAIN mem' = Requests
        /\ \A q \in Requests : WriterOK(q)' /\ ReaderOK(q)' /\ ParticipantOK(q)'
    BY <1>8, NoneIsNew DEF RegisterCheck, RequestsOK, WriterOK, ReaderOK, ParticipantOK, TypeOK
  <2>3. \A q \in Requests : RegistrantOK(q)'
    BY <1>8, NoneIsNew DEF RegisterCheck, RequestsOK, RegistrantOK, HasRoom, TypeOK, Eligible, IsRegistrationOpen, Row
  <2>4. RequestsOK'
    BY <1>8, <2>2, <2>3 DEF RequestsOK
  <2>5. PastOK' /\ AutoOK' /\ BeginningOK' /\ SeatsFollowContest'
    BY <1>8, NoneIsNew
       DEF RegisterCheck, PastOK, AutoOK, BeginningOK, Resting, SeatsFollowContest, TypeOK
  <2> QED BY <2>1, <2>2, <2>3, <2>4, <2>5
<1>9. ASSUME NEW r \in Requests, RegisterCommit(r) PROVE IInv'
  <2>1. TypeOK'
    BY <1>9, NoneIsNew
       DEF RegisterCommit, TypeOK, Labels, RequestsOK, RegistrantOK, ParticipantStatus
  <2>2. RequestsOK'
    BY <1>9, NoneIsNew
       DEF RegisterCommit, RequestsOK, WriterOK, ReaderOK, ParticipantOK, RegistrantOK, HasRoom, TypeOK
  <2>3. PastOK' /\ AutoOK' /\ BeginningOK' /\ SeatsFollowContest'
    BY <1>9, NoneIsNew
       DEF RegisterCommit, PastOK, AutoOK, BeginningOK, Resting, SeatsFollowContest, TypeOK, RequestsOK, RegistrantOK
  <2> QED BY <2>1, <2>2, <2>3
<1>10. ASSUME NEW r \in Requests, RegisterRollback(r) PROVE IInv'
  <2>1. TypeOK'
    BY <1>10, NoneIsNew
       DEF RegisterRollback, TypeOK, Labels
  <2>2. RequestsOK'
    BY <1>10, NoneIsNew
       DEF RegisterRollback, RequestsOK, WriterOK, ReaderOK, ParticipantOK, RegistrantOK, HasRoom, TypeOK
  <2>3. PastOK' /\ AutoOK' /\ BeginningOK' /\ SeatsFollowContest'
    BY <1>10, NoneIsNew
       DEF RegisterRollback, PastOK, AutoOK, BeginningOK, Resting, SeatsFollowContest, TypeOK
  <2> QED BY <2>1, <2>2, <2>3
<1>11. ASSUME NEW r \in Requests, NEW u \in Users, FindContest(r, u) PROVE IInv'
  <2>1. TypeOK'
    BY <1>11, NoneIsNew
       DEF FindContest, TypeOK, Labels
  <2>2. RequestsOK'
    BY <1>11, NoneIsNew
       DEF FindContest, RequestsOK, WriterOK, ReaderOK, ParticipantOK, RegistrantOK, HasRoom, TypeOK, PastOK
  <2>3. PastOK' /\ AutoOK' /\ BeginningOK' /\ SeatsFollowContest'
    BY <1>11, NoneIsNew
       DEF FindContest, PastOK, AutoOK, BeginningOK, Resting, SeatsFollowContest, TypeOK
  <2> QED BY <2>1, <2>2, <2>3
<1>12. ASSUME NEW r \in Requests, StartCheck(r) PROVE IInv'
  <2>1. TypeOK'
    BY <1>12, NoneIsNew
       DEF StartCheck, TypeOK, Labels, RequestsOK, ReaderOK
  <2>2. RequestsOK'
    BY <1>12, NoneIsNew
       DEF StartCheck, RequestsOK, WriterOK, ReaderOK, ParticipantOK, RegistrantOK, HasRoom, TypeOK, IsActive
  <2>3. PastOK' /\ AutoOK' /\ BeginningOK' /\ SeatsFollowContest'
    BY <1>12, NoneIsNew
       DEF StartCheck, PastOK, AutoOK, BeginningOK, Resting, SeatsFollowContest, TypeOK
  <2> QED BY <2>1, <2>2, <2>3
<1>13. ASSUME NEW r \in Requests, SubmitCheck(r) PROVE IInv'
  <2>1. TypeOK'
    BY <1>13, NoneIsNew
       DEF SubmitCheck, TypeOK, Labels, RequestsOK, ReaderOK
  <2>2. RequestsOK'
    BY <1>13, NoneIsNew
       DEF SubmitCheck, RequestsOK, WriterOK, ReaderOK, ParticipantOK, RegistrantOK, HasRoom, TypeOK, IsActive
  <2>3. PastOK' /\ AutoOK' /\ BeginningOK' /\ SeatsFollowContest'
    BY <1>13, NoneIsNew
       DEF SubmitCheck, PastOK, AutoOK, BeginningOK, Resting, SeatsFollowContest, TypeOK
  <2> QED BY <2>1, <2>2, <2>3
<1>14. ASSUME NEW r \in Requests, StartWrite(r) PROVE IInv'
  <2>1. \A u \in Users : /\ seats'[u] \in ParticipantStatus \cup {None}
                         /\ seats'[u] = None <=> seats[u] = None
                         /\ seats'[u] # seats[u] => u = who[r] /\ seats'[u] = "PARTICIPATING"
    BY <1>14, NoneIsNew DEF StartWrite, SetSeat, TypeOK, ParticipantStatus
  <2>2. HasRoom(contest) <=> HasRoom(contest)'
    BY <1>14, <2>1 DEF StartWrite, HasRoom
  <2>3. TypeOK'
    BY <1>14, NoneIsNew, <2>1
       DEF StartWrite, TypeOK, Labels, SetSeat
  <2>4. RequestsOK'
    <3>1. /\ DOMAIN mem' = Requests /\ UNCHANGED <<contest, past, lock, now>>
          /\ \A q \in Requests : /\ pc'[q] = pc[q] \/ pc'[q] = "idle"
                                 /\ pc'[q] # "idle" => mem'[q] = mem[q] /\ who'[q] = who[q]
      BY <1>14 DEF StartWrite, Reply, TypeOK, RequestsOK
    <3> QED BY <2>1, <2>2, <3>1, NoneIsNew
            DEF RequestsOK, WriterOK, ReaderOK, ParticipantOK, RegistrantOK
  <2>5. PastOK' /\ AutoOK' /\ BeginningOK' /\ SeatsFollowContest'
    BY <1>14, NoneIsNew, <2>1
       DEF StartWrite, PastOK, AutoOK, BeginningOK, Resting, SeatsFollowContest, TypeOK, RequestsOK, ParticipantOK
  <2> QED BY <2>1, <2>2, <2>3, <2>4, <2>5
<1>15. ASSUME NEW r \in Requests, SubmitWrite(r) PROVE IInv'
  <2>1. \A u \in Users : /\ seats'[u] \in ParticipantStatus \cup {None}
                         /\ seats'[u] = None <=> seats[u] = None
                         /\ seats'[u] # seats[u] => u = who[r] /\ seats'[u] = "PARTICIPATING"
    BY <1>15, NoneIsNew DEF SubmitWrite, SetSeat, TypeOK, ParticipantStatus
  <2>2. HasRoom(contest) <=> HasRoom(contest)'
    BY <1>15, <2>1 DEF SubmitWrite, HasRoom
  <2>3. solved' \subseteq Users
    BY <1>15 DEF SubmitWrite, TypeOK, RequestsOK, ParticipantOK
  <2>4. TypeOK'
    BY <1>15, NoneIsNew, <2>1, <2>3
       DEF SubmitWrite, TypeOK, Labels, SetSeat
  <2>5. RequestsOK'
    BY <1>15, NoneIsNew, <2>1
       DEF SubmitWrite, RequestsOK, WriterOK, ReaderOK, ParticipantOK, RegistrantOK, HasRoom, TypeOK
  <2>6. PastOK' /\ AutoOK' /\ BeginningOK' /\ SeatsFollowContest'
    BY <1>15, NoneIsNew, <2>1
       DEF SubmitWrite, PastOK, AutoOK, BeginningOK, Resting, SeatsFollowContest, TypeOK, RequestsOK, ParticipantOK
  <2> QED BY <2>1, <2>2, <2>3, <2>4, <2>5, <2>6
<1>16. ASSUME AutoRead PROVE IInv'
  <2>1. contest \in Row /\ auto'.row \in Row /\ auto'.pc # "finish" /\ auto'.todo = {}
    BY <1>16, ContestAssumption, NewStatusOK DEF AutoRead, Due, TypeOK
  <2>2. TypeOK'
    BY <1>16, NoneIsNew, <2>1
       DEF AutoRead, TypeOK, Labels
  <2>3. RequestsOK'
    BY <1>16, NoneIsNew
       DEF AutoRead, RequestsOK, WriterOK, ReaderOK, ParticipantOK, RegistrantOK, HasRoom
  <2>4. PastOK' /\ AutoOK' /\ BeginningOK' /\ SeatsFollowContest'
    BY <1>16, NoneIsNew, <2>1
       DEF AutoRead, PastOK, AutoOK, BeginningOK, Resting, SeatsFollowContest, Due, TypeOK
  <2> QED BY <2>1, <2>2, <2>3, <2>4
<1>17. ASSUME Finalize PROVE IInv'
  <2>1. /\ contest # None /\ contest.status = "ENDED"
           /\ auto' = [pc |-> "finish", row |-> auto.row, todo |-> {u \in Users : seats[u] # None}]
        \/ auto' = Resting
    BY <1>17 DEF Finalize, CanFinalize, TypeOK
  <2>2. TypeOK'
    BY <1>17, NoneIsNew, <2>1
       DEF Finalize, TypeOK, Labels, Resting
  <2>3. RequestsOK'
    BY <1>17, NoneIsNew
       DEF Finalize, RequestsOK, WriterOK, ReaderOK, ParticipantOK, RegistrantOK, HasRoom
  <2>4. PastOK' /\ AutoOK' /\ BeginningOK' /\ SeatsFollowContest'
    BY <1>17, NoneIsNew, <2>1
       DEF Finalize, PastOK, AutoOK, BeginningOK, Resting, SeatsFollowContest, TypeOK, Resting
  <2> QED BY <2>1, <2>2, <2>3, <2>4
<1>18. ASSUME NEW u \in Users, FinishOne(u) PROVE IInv'
  <2>1. \A v \in Users : /\ seats'[v] \in ParticipantStatus \cup {None}
                         /\ seats'[v] = None <=> seats[v] = None
                         /\ seats'[v] # seats[v] => seats'[v] = "FINISHED"
    BY <1>18, NoneIsNew DEF FinishOne, SetSeat, TypeOK, ParticipantStatus
  <2>2. HasRoom(contest) <=> HasRoom(contest)'
    BY <1>18, <2>1 DEF FinishOne, HasRoom
  <2>3. TypeOK'
    BY <1>18, NoneIsNew, <2>1
       DEF FinishOne, TypeOK, Labels, SetSeat
  <2>4. RequestsOK'
    BY <1>18, NoneIsNew, <2>1
       DEF FinishOne, RequestsOK, WriterOK, ReaderOK, ParticipantOK, RegistrantOK, HasRoom, TypeOK
  <2>5. PastOK' /\ AutoOK' /\ BeginningOK' /\ SeatsFollowContest'
    BY <1>18, NoneIsNew, <2>1
       DEF FinishOne, PastOK, AutoOK, BeginningOK, Resting, SeatsFollowContest, TypeOK, Resting
  <2> QED BY <2>1, <2>2, <2>3, <2>4, <2>5
<1>19. ASSUME FinishFails PROVE IInv'
  <2>1. TypeOK'
    BY <1>19, NoneIsNew
       DEF FinishFails, TypeOK, Labels, Resting
  <2>2. RequestsOK'
    BY <1>19, NoneIsNew
       DEF FinishFails, RequestsOK, WriterOK, ReaderOK, ParticipantOK, RegistrantOK, HasRoom
  <2>3. PastOK' /\ AutoOK' /\ BeginningOK' /\ SeatsFollowContest'
    BY <1>19, NoneIsNew
       DEF FinishFails, PastOK, AutoOK, BeginningOK, Resting, SeatsFollowContest, Resting
  <2> QED BY <2>1, <2>2, <2>3
<1>20. ASSUME FinishAll PROVE IInv'
  <2>1. TypeOK'
    BY <1>20, NoneIsNew
       DEF FinishAll, TypeOK, Labels
  <2>2. RequestsOK'
    BY <1>20, NoneIsNew
       DEF FinishAll, RequestsOK, WriterOK, ReaderOK, ParticipantOK, RegistrantOK, HasRoom
  <2>3. PastOK' /\ AutoOK' /\ BeginningOK' /\ SeatsFollowContest'
    BY <1>20, NoneIsNew
       DEF FinishAll, PastOK, AutoOK, BeginningOK, Resting, SeatsFollowContest, TypeOK, Resting
  <2> QED BY <2>1, <2>2, <2>3
<1>21. ASSUME AutoWrite PROVE IInv'
  <2>1. ColumnsOK([status |-> auto.row.status])
    BY <1>21 DEF AutoWrite, AutoOK, ColumnsOK, Fields, Row
  <2>2. /\ contest' \in Row \cup {None}
        /\ contest' = None <=> contest = None
        /\ contest' # None => contest'.status \in past'
        /\ past \subseteq past' /\ past' \subseteq ContestStatus
    BY <1>21, <2>1, WriteRowKeepsRow DEF AutoWrite, TypeOK
  <2>3. TypeOK'
    BY <1>21, NoneIsNew, <2>2
       DEF AutoWrite, TypeOK, Labels, Resting
  <2>4. RequestsOK'
    BY <1>21, NoneIsNew, <2>2
       DEF AutoWrite, RequestsOK, WriterOK, ReaderOK, ParticipantOK, RegistrantOK, HasRoom, TypeOK
  <2>5. PastOK' /\ AutoOK' /\ BeginningOK' /\ SeatsFollowContest'
    BY <1>21, NoneIsNew, <2>2
       DEF AutoWrite, PastOK, AutoOK, BeginningOK, Resting, SeatsFollowContest, TypeOK, Resting
  <2> QED BY <2>1, <2>2, <2>3, <2>4, <2>5
<1>22. ASSUME Tick PROVE IInv'
  <2>1. TypeOK'
    BY <1>22, NoneIsNew
       DEF Tick, TypeOK, Labels
  <2>2. RequestsOK'
    BY <1>22, NoneIsNew
       DEF Tick, RequestsOK, WriterOK, ReaderOK, ParticipantOK, RegistrantOK, HasRoom, TypeOK, Row
  <2>3. PastOK' /\ AutoOK' /\ BeginningOK' /\ SeatsFollowContest'
    BY <1>22, NoneIsNew
       DEF Tick, PastOK, AutoOK, BeginningOK, Resting, SeatsFollowContest
  <2> QED BY <2>1, <2>2, <2>3
<1>23. ASSUME UNCHANGED vars PROVE IInv'
  BY <1>23 DEF vars, TypeOK, Labels, RequestsOK, WriterOK, ReaderOK, ParticipantOK, RegistrantOK, HasRoom, PastOK, AutoOK, BeginningOK, Resting, SeatsFollowContest, ColumnsOK
<1> QED
  BY <1>1, <1>2, <1>3, <1>4, <1>5, <1>6, <1>7, <1>8, <1>9, <1>10, <1>11, <1>12, <1>13, <1>14, <1>15, <1>16, <1>17, <1>18, <1>19, <1>20, <1>21, <1>22, <1>23
     DEF Next, Continue, AutoTransition, Idle
-----------------------------------------------------------------------------
(* What follows for the properties *)

LEMMA Invariance == Spec => []IInv
<1>1. Init => IInv
  BY InitEstablishesIInv
<1>2. IInv /\ [Next]_vars => IInv'
  BY StepKeepsIInv
<1> QED BY <1>1, <1>2, PTL DEF Spec

\* The rows, requests and the transition are well typed in every state.
THEOREM TypeCorrect == Spec => []TypeOK
<1>1. IInv => TypeOK
  BY DEF IInv
<1> QED BY <1>1, Invariance, PTL

\* Nobody participates before the contest was ACTIVE or finishes before it ENDED.
THEOREM SeatsFollow == Spec => []SeatsFollowContest
<1>1. IInv => SeatsFollowContest
  BY DEF IInv
<1> QED BY <1>1, Invariance, PTL

\* Every seat has one status: the statistics count each of them once.
LEMMA SeatsAreCountedOnce ==
    ASSUME TypeOK
    PROVE  Cardinality(Registered) = ParticipationStats["REGISTERED"]
               + ParticipationStats["PARTICIPATING"] + ParticipationStats["FINISHED"]
<1> DEFINE having(status) == {u \in Users : seats[u] = status}
           started == having("PARTICIPATING") \cup having("FINISHED")
<1>1. \A status \in ParticipantStatus : IsFiniteSet(having(status))
  BY ContestAssumption, FS_Subset
<1>2. /\ IsFiniteSet(started)
      /\ Cardinality(started) = Cardinality(having("PARTICIPATING"))
             + Cardinality(having("FINISHED"))
             - Cardinality(having("PARTICIPATING") \cap having("FINISHED"))
  BY <1>1, FS_Union DEF ParticipantStatus
<1>3. Cardinality(having("REGISTERED") \cup started)
          = Cardinality(having("REGISTERED")) + Cardinality(started)
             - Cardinality(having("REGISTERED") \cap started)
  BY <1>1, <1>2, FS_Union DEF ParticipantStatus
<1>4. /\ having("PARTICIPATING") \cap having("FINISHED") = {}
      /\ having("REGISTERED") \cap started = {}
  OBVIOUS
<1>5. Registered = having("REGISTERED") \cup started
  BY NoneIsNew DEF Registered, TypeOK, ParticipantStatus
<1>6. /\ Cardinality(having("REGISTERED")) \in Nat
      /\ Cardinality(having("PARTICIPATING")) \in Nat
      /\ Cardinality(having("FINISHED")) \in Nat
  BY <1>1, FS_CardinalityType DEF ParticipantStatus
<1>7. Cardinality({}) = 0
  BY FS_EmptySet
<1>8. /\ ParticipationStats["REGISTERED"] = Cardinality(having("REGISTERED"))
      /\ ParticipationStats["PARTICIPATING"] = Cardinality(having("PARTICIPATING"))
      /\ ParticipationStats["FINISHED"] = Cardinality(having("FINISHED"))
  BY DEF ParticipationStats, ParticipantStatus
<1> HIDE DEF having, started
<1>9. /\ Cardinality(having("PARTICIPATING") \cap having("FINISHED")) = 0
      /\ Cardinality(having("REGISTERED") \cap started) = 0
  BY <1>4, <1>7, Zenon
<1>10. Cardinality(Registered) = Cardinality(having("REGISTERED") \cup started)
  BY <1>5, Zenon
<1> QED BY <1>2, <1>3, <1>6, <1>8, <1>9, <1>10

\* Somebody who is registered is counted.
LEMMA RegisteredIsFinite ==
    /\ IsFiniteSet(Registered) /\ Cardinality(Registered) \in Nat
    /\ Registered # {} => Cardinality(Registered) > 0
<1>1. IsFiniteSet(Registered)
  BY ContestAssumption, FS_Subset DEF Registered
<1> QED BY <1>1, FS_CardinalityType, FS_EmptySet

LEMMA PagesAreTrue ==
    ASSUME IInv
    PROVE  PageIsTrue
<1> SUFFICES ASSUME contest # None
             PROVE  PageIsTrue
  BY DEF PageIsTrue
<1> DEFINE page == ContestResponse(contest)
<1>0. contest \in Row /\ now \in Nat /\ contest.status \in past
  BY ContestAssumption DEF IInv, TypeOK, PastOK
<1>1. page.timeUntilStart > 0 =>
          ~page.isActive /\ ~page.hasEnded /\ now + page.timeUntilStart = page.start
  BY <1>0 DEF ContestResponse, TimeUntilStart, Until, Row
<1>2. page.isActive =>
          /\ "ACTIVE" \in past
          /\ ~page.isUpcoming /\ ~page.hasEnded
          /\ now + page.timeUntilEnd = page.end
  <2> SUFFICES ASSUME IsActive(contest)
               PROVE  /\ "ACTIVE" \in past /\ ~IsUpcoming(contest) /\ ~HasEnded(contest)
                      /\ now + TimeUntilEnd(contest) = contest.end
    BY DEF ContestResponse
  <2>1. contest.status = "ACTIVE" /\ now <= contest.end /\ contest.end \in Nat
    BY <1>0 DEF IsActive, Row
  <2>2. ~HasEnded(contest)
    BY <1>0, <2>1 DEF HasEnded
  <2> QED BY <1>0, <2>1, <2>2 DEF TimeUntilEnd, Until, IsUpcoming
<1>3. page.hasEnded => page.timeUntilStart = 0 /\ page.timeUntilEnd = 0
  BY DEF ContestResponse, TimeUntilStart, TimeUntilEnd
<1>4. page.totalParticipants = Cardinality(Registered)
  BY DEF ContestResponse
<1>5. \A u \in Users : UserParticipation(u).isRegistered => page.totalParticipants > 0
  BY <1>4, RegisteredIsFinite DEF UserParticipation, Registered
<1>6. \A entry \in FindAll(page.status, None) :
          \A column \in DOMAIN entry : entry[column] = page[column]
  BY <1>0 DEF FindAll, ContestSummary, ContestResponse
<1> HIDE DEF page
<1>7. page.totalParticipants = ParticipationStats["REGISTERED"]
          + ParticipationStats["PARTICIPATING"] + ParticipationStats["FINISHED"]
  BY <1>4, SeatsAreCountedOnce DEF IInv
<1> QED BY <1>1, <1>2, <1>3, <1>5, <1>6, <1>7 DEF PageIsTrue, page

\* Seats follow the life of the contest, and pages tell of both what is true.
THEOREM ContestStaysConsistent == Spec => []ContestIsConsistent
<1>1. IInv => ContestIsConsistent
  BY PagesAreTrue DEF IInv, ContestIsConsistent
<1> QED BY <1>1, Invariance, PTL

\* Only the commit of a registration adds a participant.
LEMMA OnlyRegistrationAdds ==
    ASSUME IInv, [Next]_vars, \A r \in Requests : ~RegisterCommit(r)
    PROVE  Registered' \subseteq Registered
<1> USE DEF Registered
<1>1. ASSUME NEW u \in Users, NEW status, SetSeat(u, status) PROVE Registered' \subseteq Registered
  BY <1>1 DEF SetSeat, IInv, TypeOK
<1>2. ASSUME NEW r \in Requests, NEW status, SetSeat(who[r], status)
      PROVE  Registered' \subseteq Registered
  BY <1>2 DEF SetSeat, IInv, TypeOK
<1>3. ASSUME NEW r \in Requests, Delete(r) PROVE Registered' \subseteq Registered
  BY <1>3 DEF Delete
<1>4. ASSUME UNCHANGED seats PROVE Registered' \subseteq Registered
  BY <1>4
<1>5. \/ \E u \in Users, status \in ParticipantStatus : SetSeat(u, status)
      \/ \E r \in Requests, status \in ParticipantStatus : SetSeat(who[r], status)
      \/ \E r \in Requests : Delete(r)
      \/ UNCHANGED seats
  <2>1. ASSUME NEW r \in Requests, Continue(r)
        PROVE  \/ SetSeat(who[r], "PARTICIPATING") \/ Delete(r) \/ UNCHANGED seats
    BY <2>1 DEF Continue, CreateProblems, Write, RegisterRollback, StartCheck, StartWrite,
       SubmitCheck, SubmitWrite, rowVars
  <2>2. ASSUME AutoTransition \/ FinishFails \/ Tick \/ Idle
        PROVE  (\E u \in Users : SetSeat(u, "FINISHED")) \/ UNCHANGED seats
    BY <2>2 DEF AutoTransition, AutoRead, Finalize, FinishAll, AutoWrite, FinishOne, FinishFails,
       Tick, Idle, vars, rowVars
  <2>3. ASSUME NEW r \in Requests, NEW dto,
               CreateContest(r, dto) \/ UpdateCheck(r, dto) \/ StatusCheck(r, dto) \/ DeleteCheck(r)
        PROVE  UNCHANGED seats
    BY <2>3 DEF CreateContest, UpdateCheck, StatusCheck, DeleteCheck, rowVars
  <2>4. ASSUME NEW r \in Requests, NEW u \in Users, RegisterCheck(r, u) \/ FindContest(r, u)
        PROVE  UNCHANGED seats
    BY <2>4 DEF RegisterCheck, FindContest, rowVars
  <2>5. UNCHANGED vars => UNCHANGED seats
    BY DEF vars, rowVars
  <2> QED BY <2>1, <2>2, <2>3, <2>4, <2>5 DEF Next, ParticipantStatus
<1> QED BY <1>1, <1>2, <1>3, <1>4, <1>5

(***************************************************************************)
(* A registration that commits is allowed by the contest as it is at that  *)
(* moment, and the limit counts it: no two registrations share a place.    *)
(***************************************************************************)
THEOREM RegistrationsAreLegal == Spec => RegistrationIsLegal
<1>1. ASSUME IInv, [Next]_vars, ~(Registered' \subseteq Registered)
      PROVE  /\ contest # None
             /\ contest.limit = 0 \/ Cardinality(Registered') <= contest.limit
             /\ contest.isPublic /\ contest.status # "CANCELLED"
             /\ contest.regStart <= now
  <2>1. PICK r \in Requests : RegisterCommit(r)
    BY <1>1, OnlyRegistrationAdds
  <2>2. /\ who[r] \in Users /\ contest \in Row /\ HasRoom(contest)
        /\ contest.isPublic /\ contest.status # "CANCELLED" /\ contest.regStart <= now
    BY <1>1, <2>1 DEF RegisterCommit, IInv, RequestsOK, RegistrantOK
  <2>3. Registered' = Registered \cup {who[r]} /\ who[r] \notin Registered
    BY <1>1, <2>1, <2>2, NoneIsNew DEF RegisterCommit, Registered, IInv, TypeOK, ParticipantStatus
  <2>4. Cardinality(Registered') = Cardinality(Registered) + 1
    BY <2>3, RegisteredIsFinite, FS_AddElement
  <2>5. contest.limit = 0 \/ Cardinality(Registered) < contest.limit
    BY <2>2 DEF HasRoom, Registered
  <2>6. contest.limit \in Nat
    BY <2>2 DEF Row
  <2> QED BY <2>2, <2>4, <2>5, <2>6, RegisteredIsFinite, NoneIsNew
<1> QED BY <1>1, Invariance, PTL DEF Spec, RegistrationIsLegal
=============================================================================
