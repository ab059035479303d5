------------------------------ MODULE Contest ------------------------------
(***************************************************************************)
(* contest-service: the life of one contest.  ContestService serves the    *)
(* requests of its creator and of the users; ContestScoringService moves   *)
(* the status with the clock and finalizes the results.                    *)
(*                                                                         *)
(* One action is one awaited call with the code up to the next one, so a   *)
(* request acts on the rows it read earlier.  A request that is rejected   *)
(* changes nothing and is not an action.  registerParticipant runs in a    *)
(* transaction: the row lock it takes on the contest is held to its end,   *)
(* the participants are read under the lock (as the comment on the query   *)
(* claims), and writes of the contest row wait for it.                     *)
(*                                                                         *)
(* Nothing in the repository calls autoTransitionContestStatus, and the    *)
(* module of the service does not provide ContestScoringService: Spec lets *)
(* the transition happen or not, and ScheduledSpec is the program with the *)
(* periodic call that the comment of the method speaks of.                 *)
(***************************************************************************)
EXTENDS Naturals, FiniteSets

CONSTANTS
    Users, Requests,    \* users; slots for requests served at the same time
    None,               \* no contest, no user, no lock, field not given
    Creations,          \* CreateContestDto the creator may send
    Updates,            \* UpdateContestDto
    StatusUpdates,      \* UpdateContestStatusDto
    MinDuration, MaxDuration,   \* 5 minutes and one week in the code
    Horizon,            \* bound: the clock
    MaxRequests         \* bound: requests in one behaviour

VARIABLES
    contest,        \* the contests row, None before create and after delete
    seats,          \* seats[u]: status of u's contest_participants row
    solved,         \* users whose row has a problem with solvedAt
    lock,           \* the request whose transaction has locked the contest row
    pc,             \* pc[r]: the call request r makes next
    who,            \* who[r]: the user of the request
    mem,            \* mem[r]: the contest row it read, or the columns it writes
    auto,           \* autoTransitionContestStatus: [pc, row, todo]
    now,            \* the clock
    served,         \* requests so far (bounded by MaxRequests)
    past            \* history: the statuses the contest has had

rowVars == <<contest, seats, solved, past>>
requestVars == <<pc, who, mem, served>>
vars == <<rowVars, lock, requestVars, auto, now>>

ContestStatus == {"UPCOMING", "REGISTRATION_OPEN", "ACTIVE", "ENDED", "CANCELLED"}
ParticipantStatus == {"REGISTERED", "PARTICIPATING", "FINISHED"}
Row == [status : ContestStatus, regStart : Nat, regEnd : Nat, start : Nat,
        end : Nat, duration : MinDuration .. MaxDuration,
        limit : Nat, isPublic : BOOLEAN]

\* The requests the validators let through; a limit of 0 is an absent one.
CreateContestDto == [regStart : Nat, regEnd : Nat, start : Nat,
                     duration : MinDuration .. MaxDuration, limit : Nat,
                     isPublic : BOOLEAN]
Optional(S) == S \cup {None}
UpdateContestDto == [status : Optional(ContestStatus), regStart : Optional(Nat),
                     regEnd : Optional(Nat), start : Optional(Nat),
                     duration : Optional(MinDuration .. MaxDuration),
                     limit : Optional(Nat), isPublic : Optional(BOOLEAN)]
UpdateContestStatusDto == [status : ContestStatus, start : Optional(Nat),
                           end : Optional(Nat)]

ASSUME ContestAssumption ==
    /\ MinDuration \in Nat /\ MaxDuration \in Nat
    /\ Horizon \in Nat /\ MaxRequests \in Nat
    /\ Creations \subseteq CreateContestDto
    /\ Updates \subseteq UpdateContestDto
    /\ StatusUpdates \subseteq UpdateContestStatusDto
    /\ IsFiniteSet(Users)
    /\ None \notin Users /\ None \notin Requests /\ None \notin Row
    /\ None \notin Nat /\ None \notin BOOLEAN
    /\ None \notin ContestStatus /\ None \notin ParticipantStatus

Labels == {"idle", "problems", "write", "delete", "commit", "startCheck", "start",
           "submitCheck", "submit"}

TypeOK ==
    /\ contest \in Row \cup {None}
    /\ seats \in [Users -> ParticipantStatus \cup {None}]
    /\ solved \in SUBSET Users
    /\ lock \in Requests \cup {None}
    /\ pc \in [Requests -> Labels]
    /\ who \in [Requests -> Users \cup {None}]
    /\ auto \in [pc : {"idle", "finalize", "finish", "write"},
                 row : Row \cup {None}, todo : SUBSET Users]
    /\ now \in 0 .. Horizon
    /\ served \in 0 .. MaxRequests
    /\ past \subseteq ContestStatus

Resting == [pc |-> "idle", row |-> None, todo |-> {}]

Init ==
    /\ contest = None
    /\ seats = [u \in Users |-> None]
    /\ solved = {}
    /\ lock = None
    /\ pc = [r \in Requests |-> "idle"]
    /\ who = [r \in Requests |-> None]
    /\ mem = [r \in Requests |-> None]
    /\ auto = Resting
    /\ now = 0
    /\ served = 0
    /\ past = {}
-----------------------------------------------------------------------------
(* The getters of Contest and the checks of ContestService *)

IsRegistrationOpen(row) ==
    row.regStart <= now /\ now <= row.regEnd /\ row.status # "CANCELLED"
IsActive(row) == row.start <= now /\ now <= row.end /\ row.status = "ACTIVE"
HasEnded(row) == now > row.end \/ row.status = "ENDED"

ValidDates(regStart, regEnd, start, duration) ==
    /\ now < regStart /\ regStart < regEnd /\ regEnd < start
    /\ duration \in MinDuration .. MaxDuration

Eligible(row) == IsRegistrationOpen(row) /\ ~HasEnded(row) /\ row.isPublic

\* maxParticipants 0 stands for the absent limit (both are falsy).
HasRoom(row) == row.limit = 0 \/ Cardinality({u \in Users : seats[u] # None}) < row.limit

Transitions == [UPCOMING |-> {"REGISTRATION_OPEN", "ACTIVE", "CANCELLED"},
                REGISTRATION_OPEN |-> {"ACTIVE", "CANCELLED"},
                ACTIVE |-> {"ENDED", "CANCELLED"},
                ENDED |-> {}, CANCELLED |-> {}]
-----------------------------------------------------------------------------
(* Serving requests *)

Arrive(r) == pc[r] = "idle" /\ served < MaxRequests /\ served' = served + 1

Step(r, label, user, memory) ==
    /\ pc' = [pc EXCEPT ![r] = label]
    /\ who' = [who EXCEPT ![r] = user]
    /\ mem' = [mem EXCEPT ![r] = memory]

Reply(r) == Step(r, "idle", None, None) /\ UNCHANGED served

Given(dto) == {c \in DOMAIN dto : dto[c] # None}

\* UPDATE contests: the given columns; a deleted row is not matched.
WriteRow(columns) ==
    /\ contest' = IF contest = None THEN None
                  ELSE [c \in DOMAIN contest |->
                           IF c \in DOMAIN columns THEN columns[c] ELSE contest[c]]
    /\ past' = IF contest = None THEN past ELSE past \cup {contest'.status}

\* create: the contest, then its problems.
CreateContest(r, dto) ==
    /\ Arrive(r)
    /\ served = 0
    /\ ValidDates(dto.regStart, dto.regEnd, dto.start, dto.duration)
    /\ contest' = [status |-> "UPCOMING", regStart |-> dto.regStart,
                   regEnd |-> dto.regEnd, start |-> dto.start,
                   end |-> dto.start + dto.duration, duration |-> dto.duration,
                   limit |-> dto.limit, isPublic |-> dto.isPublic]
    /\ past' = {"UPCOMING"}
    /\ Step(r, "problems", None, None)
    /\ UNCHANGED <<seats, solved, lock, auto, now>>

\* The problems are saved, or the save fails: the contest stays.
CreateProblems(r) ==
    /\ pc[r] = "problems"
    /\ Reply(r)
    /\ UNCHANGED <<rowVars, lock, auto, now>>

\* Mutant: the columns that are not given are written as NULL.
UpdateColumnsNull(dto, row) ==
    LET of(c) == IF c \in Given(dto) THEN dto[c] ELSE row[c]
    IN  [c \in DOMAIN dto \cup {"end"} |->
            IF c = "end" THEN of("start") + of("duration") ELSE dto[c]]

(***************************************************************************)
(* update: the DTO class carries the default isPublic of CreateContestDto. *)
(* Dates are validated only when one of three fields is given.             *)
(***************************************************************************)
UpdateColumns(dto, row) ==
    LET of(c) == IF c \in Given(dto) THEN dto[c] ELSE row[c]
        moved == Given(dto) \cap {"start", "duration"} # {}
    IN  [c \in Given(dto) \cup {"isPublic"} \cup (IF moved THEN {"end"} ELSE {}) |->
            CASE c = "end" -> of("start") + of("duration")
              [] c = "isPublic" -> IF c \in Given(dto) THEN dto[c] ELSE TRUE
              [] OTHER -> dto[c]]

UpdateCheck(r, dto) ==
    LET of(c) == IF c \in Given(dto) THEN dto[c] ELSE contest[c] IN
    /\ Arrive(r)
    /\ contest # None
    /\ ~IsActive(contest) /\ ~HasEnded(contest)
    /\ Given(dto) \cap {"regStart", "start", "duration"} # {}
           => ValidDates(of("regStart"), of("regEnd"), of("start"), of("duration"))
    /\ Step(r, "write", None, UpdateColumns(dto, contest))
    /\ UNCHANGED <<rowVars, lock, auto, now>>

\* updateStatus: the transition is validated, the times are not.
StatusColumns(dto, row) ==
    LET timed == {"status"} \cup (IF dto.start # None THEN {"start", "end"} ELSE {})
                            \cup (IF dto.end # None THEN {"end"} ELSE {})
    IN  [c \in timed |-> CASE c = "end" /\ dto.end # None -> dto.end
                           [] c = "end" /\ dto.end = None -> dto.start + row.duration
                           [] OTHER -> dto[c]]

StatusCheck(r, dto) ==
    /\ Arrive(r)
    /\ contest # None
    /\ dto.status \in Transitions[contest.status]
    /\ Step(r, "write", None, StatusColumns(dto, contest))
    /\ UNCHANGED <<rowVars, lock, auto, now>>

\* The write of update and updateStatus.
Write(r) ==
    /\ pc[r] = "write"
    /\ lock = None
    /\ WriteRow(mem[r])
    /\ Reply(r)
    /\ UNCHANGED <<seats, solved, lock, auto, now>>

DeleteCheck(r) ==
    /\ Arrive(r)
    /\ contest # None
    /\ ~(IsActive(contest) /\ \E u \in Users : seats[u] # None)
    /\ Step(r, "delete", None, None)
    /\ UNCHANGED <<rowVars, lock, auto, now>>

\* DELETE, and its cascade to the participants.
Delete(r) ==
    /\ pc[r] = "delete"
    /\ lock = None
    /\ contest' = None
    /\ seats' = [u \in Users |-> None]
    /\ solved' = {}
    /\ Reply(r)
    /\ UNCHANGED <<past, lock, auto, now>>
-----------------------------------------------------------------------------
(* Users *)

\* Mutant: the contest is read without the lock.
RegisterUnlocked(r, u) ==
    /\ Arrive(r)
    /\ contest # None
    /\ Eligible(contest) /\ seats[u] = None /\ HasRoom(contest)
    /\ Step(r, "commit", u, None)
    /\ UNCHANGED <<rowVars, lock, auto, now>>

\* registerParticipant: lock the contest, then all the checks.
RegisterCheck(r, u) ==
    /\ Arrive(r)
    /\ contest # None
    /\ lock = None
    /\ Eligible(contest) /\ seats[u] = None /\ HasRoom(contest)
    /\ lock' = r
    /\ Step(r, "commit", u, None)
    /\ UNCHANGED <<rowVars, auto, now>>

\* The participant is saved and the transaction committed...
RegisterCommit(r) ==
    /\ pc[r] = "commit"
    /\ seats' = [seats EXCEPT ![who[r]] = "REGISTERED"]
    /\ lock' = None
    /\ Reply(r)
    /\ UNCHANGED <<contest, solved, past, auto, now>>

\* ...or a call fails and it is rolled back.
RegisterRollback(r) ==
    /\ pc[r] = "commit"
    /\ lock' = None
    /\ Reply(r)
    /\ UNCHANGED <<rowVars, auto, now>>

\* startParticipation and submitSolution read the contest first...
FindContest(r, u) ==
    /\ Arrive(r)
    /\ contest # None
    /\ \E label \in {"startCheck", "submitCheck"} : Step(r, label, u, contest)
    /\ UNCHANGED <<rowVars, lock, auto, now>>

\* findParticipant: who has no row is refused, like one with another status.
FindParticipant(r) == seats[who[r]]

\* ...then the participant, and check both.
StartCheck(r) ==
    /\ pc[r] = "startCheck"
    /\ IF IsActive(mem[r]) /\ FindParticipant(r) = "REGISTERED"
       THEN Step(r, "start", who[r], None) /\ UNCHANGED served
       ELSE Reply(r)
    /\ UNCHANGED <<rowVars, lock, auto, now>>

SubmitCheck(r) ==
    /\ pc[r] = "submitCheck"
    /\ IF IsActive(mem[r]) /\ FindParticipant(r) = "PARTICIPATING"
       THEN Step(r, "submit", who[r], None) /\ UNCHANGED served
       ELSE Reply(r)
    /\ UNCHANGED <<rowVars, lock, auto, now>>

\* A participant removed by the cascade is not updated.
SetSeat(u, status) ==
    seats' = [seats EXCEPT ![u] = IF seats[u] = None THEN None ELSE status]

StartWrite(r) ==
    /\ pc[r] = "start"
    /\ SetSeat(who[r], "PARTICIPATING")
    /\ Reply(r)
    /\ UNCHANGED <<contest, solved, past, lock, auto, now>>

\* save() of the loaded participant writes its status as it was read.
SubmitWrite(r) ==
    /\ pc[r] = "submit"
    /\ SetSeat(who[r], "PARTICIPATING")
    /\ solved' = solved \/ solved' = {u \in solved \cup {who[r]} : seats[u] # None}
    /\ Reply(r)
    /\ UNCHANGED <<contest, past, lock, auto, now>>
-----------------------------------------------------------------------------
(* ContestScoringService.autoTransitionContestStatus *)

NewStatus(row) ==
    IF row.status = "UPCOMING" /\ now >= row.regStart THEN "REGISTRATION_OPEN"
    ELSE IF row.status = "REGISTRATION_OPEN" /\ now >= row.regEnd THEN "ACTIVE"
    ELSE IF row.status = "ACTIVE" /\ now >= row.end THEN "ENDED"
    ELSE row.status

Due == contest # None /\ NewStatus(contest) # contest.status

\* The contest is read; its results are finalized before the status is set.
AutoRead ==
    /\ auto.pc = "idle"
    /\ Due
    /\ auto' = [pc |-> IF NewStatus(contest) = "ENDED" THEN "finalize" ELSE "write",
                row |-> [contest EXCEPT !.status = NewStatus(contest)], todo |-> {}]
    /\ UNCHANGED <<rowVars, lock, requestVars, now>>

\* Mutant: results may be finalized while the contest runs.
CanFinalizeRunning(row) == row.status \in {"ENDED", "ACTIVE"}

\* "Only allowed on ENDED contests"
CanFinalize(row) == row.status = "ENDED"

(***************************************************************************)
(* finalizeContestResults reads the contest again and throws unless it has *)
(* ENDED.  It throws as well when a participant has solved a problem: the  *)
(* solvedAt of a JSON column is a string, which has no getTime().          *)
(***************************************************************************)
Finalize ==
    /\ auto.pc = "finalize"
    /\ IF contest # None /\ CanFinalize(contest) /\ solved = {}
       THEN auto' = [auto EXCEPT !.pc = "finish",
                                 !.todo = {u \in Users : seats[u] # None}]
       ELSE auto' = Resting
    /\ UNCHANGED <<rowVars, lock, requestVars, now>>

\* One participant after the other is ranked and FINISHED.
FinishOne(u) ==
    /\ auto.pc = "finish" /\ u \in auto.todo
    /\ SetSeat(u, "FINISHED")
    /\ auto' = [auto EXCEPT !.todo = @ \ {u}]
    /\ UNCHANGED <<contest, solved, past, lock, requestVars, now>>

\* An update fails or the process dies: the others are left as they are.
FinishFails ==
    /\ auto.pc = "finish"
    /\ auto' = Resting
    /\ UNCHANGED <<rowVars, lock, requestVars, now>>

FinishAll ==
    /\ auto.pc = "finish" /\ auto.todo = {}
    /\ auto' = [auto EXCEPT !.pc = "write"]
    /\ UNCHANGED <<rowVars, lock, requestVars, now>>

AutoWrite ==
    /\ auto.pc = "write"
    /\ lock = None
    /\ WriteRow([status |-> auto.row.status])
    /\ auto' = Resting
    /\ UNCHANGED <<seats, solved, lock, requestVars, now>>

AutoTransition ==
    AutoRead \/ Finalize \/ FinishAll \/ AutoWrite \/ \E u \in Users : FinishOne(u)
-----------------------------------------------------------------------------
Tick ==
    /\ now < Horizon
    /\ now' = now + 1
    /\ UNCHANGED <<rowVars, lock, requestVars, auto>>

\* The clock has stopped at its bound, and nobody has anything left to do.
Idle ==
    /\ now = Horizon
    /\ \A r \in Requests : pc[r] = "idle"
    /\ auto.pc = "idle" /\ ~Due
    /\ UNCHANGED vars

\* A request that was let in runs to its end.
Continue(r) ==
    \/ CreateProblems(r) \/ Write(r) \/ Delete(r)
    \/ RegisterCommit(r) \/ RegisterRollback(r)
    \/ StartCheck(r) \/ StartWrite(r) \/ SubmitCheck(r) \/ SubmitWrite(r)

Next ==
    \/ \E r \in Requests :
           \/ \E dto \in Creations : CreateContest(r, dto)
           \/ \E dto \in Updates : UpdateCheck(r, dto)
           \/ \E dto \in StatusUpdates : StatusCheck(r, dto)
           \/ DeleteCheck(r)
           \/ \E u \in Users : RegisterCheck(r, u) \/ FindContest(r, u)
           \/ Continue(r)
    \/ AutoTransition \/ FinishFails
    \/ Tick
    \/ Idle

(* What the pages show: ContestResponseDto, ContestSummaryDto, analytics *)

IsUpcoming(row) == now < row.start /\ row.status = "UPCOMING"

Until(time) == IF now < time THEN time - now ELSE 0

TimeUntilStart(row) == IF HasEnded(row) \/ IsActive(row) THEN 0 ELSE Until(row.start)

\* Before the contest is active: its duration.
TimeUntilEnd(row) ==
    IF HasEnded(row) THEN 0 ELSE IF IsActive(row) THEN Until(row.end) ELSE row.duration

Registered == {u \in Users : seats[u] # None}

\* GET contests/:id
ContestResponse(row) ==
    [status |-> row.status, regStart |-> row.regStart, regEnd |-> row.regEnd,
     start |-> row.start, end |-> row.end, limit |-> row.limit,
     totalParticipants |-> Cardinality(Registered),
     isRegistrationOpen |-> IsRegistrationOpen(row), isActive |-> IsActive(row),
     isUpcoming |-> IsUpcoming(row), hasEnded |-> HasEnded(row),
     timeUntilStart |-> TimeUntilStart(row), timeUntilEnd |-> TimeUntilEnd(row)]

ContestSummary(row) ==
    [status |-> row.status, start |-> row.start, end |-> row.end, limit |-> row.limit,
     totalParticipants |-> Cardinality(Registered),
     isRegistrationOpen |-> IsRegistrationOpen(row)]

\* GET contests: the filters that are given (None: not given); the first page.
FindAll(status, isPublic) ==
    {ContestSummary(row) : row \in
        {c \in {contest} \ {None} : /\ status \in {None, c.status}
                                   /\ isPublic \in {None, c.isPublic}}}

\* GET contests/:id/participation
UserParticipation(u) == [isRegistered |-> seats[u] # None, participation |-> seats[u]]

\* GET contests/:id/analytics; nothing in the code disqualifies.
ParticipationStats ==
    [status \in ParticipantStatus |-> Cardinality({u \in Users : seats[u] = status})]
-----------------------------------------------------------------------------
Spec == Init /\ [][Next]_vars

(***************************************************************************)
(* Time passes, requests are served to their end, and the transition is    *)
(* called again and again: what would be if "Called periodically" were so. *)
(***************************************************************************)
Scheduled ==
    /\ WF_vars(Tick)
    /\ \A r \in Requests : WF_vars(Continue(r))
    /\ WF_vars(AutoTransition)

ScheduledSpec == Spec /\ Scheduled
-----------------------------------------------------------------------------
(* Properties *)

(***************************************************************************)
(* A registration that commits is one the contest allows at that moment:   *)
(* within its limit, public and not cancelled, whatever other              *)
(* registrations, updates and cancellations run at the same time.          *)
(***************************************************************************)
RegistrationIsLegal ==
    [][~(Registered' \subseteq Registered) =>
          /\ contest # None
          /\ contest.limit = 0 \/ Cardinality(Registered') <= contest.limit
          /\ contest.isPublic /\ contest.status # "CANCELLED"
          /\ contest.regStart <= now]_vars

(***************************************************************************)
(* Nobody participates in a contest that was never ACTIVE, and nobody is   *)
(* given a final result by one that never ENDED.                           *)
(***************************************************************************)
SeatsFollowContest ==
    \A u \in Users :
        /\ seats[u] = "PARTICIPATING" => "ACTIVE" \in past
        /\ seats[u] = "FINISHED" => "ENDED" \in past

(***************************************************************************)
(* What the page of a contest shows is true of it: it counts down to the   *)
(* start of a contest that neither runs nor has ended, and to the end of   *)
(* one that runs; a contest shown as running was made ACTIVE; every seat   *)
(* is counted once by the statistics; the list shows what the page shows.  *)
(***************************************************************************)
PageIsTrue ==
    contest # None =>
        LET page == ContestResponse(contest) IN
        /\ page.timeUntilStart > 0 =>
               ~page.isActive /\ ~page.hasEnded /\ now + page.timeUntilStart = page.start
        /\ page.isActive =>
               /\ "ACTIVE" \in past
               /\ ~page.isUpcoming /\ ~page.hasEnded
               /\ now + page.timeUntilEnd = page.end
        /\ page.hasEnded => page.timeUntilStart = 0 /\ page.timeUntilEnd = 0
        /\ page.totalParticipants = ParticipationStats["REGISTERED"]
               + ParticipationStats["PARTICIPATING"] + ParticipationStats["FINISHED"]
        /\ \A u \in Users : UserParticipation(u).isRegistered => page.totalParticipants > 0
        /\ \A entry \in FindAll(page.status, None) :
               \A column \in DOMAIN entry : entry[column] = page[column]

(***************************************************************************)
(* The seats are those the life of the contest allows, and the pages tell  *)
(* them as they are.                                                       *)
(***************************************************************************)
ContestIsConsistent == SeatsFollowContest /\ PageIsTrue

(***************************************************************************)
(* "Auto-transition contest status based on current time": a contest does  *)
(* not stay ACTIVE for ever after its end.                                 *)
(***************************************************************************)
Overdue == contest # None /\ contest.status = "ACTIVE" /\ now >= contest.end
EndsByItself == Overdue ~> ~Overdue

(***************************************************************************)
(* "No transitions from cancelled": a cancelled contest stays cancelled.   *)
(***************************************************************************)
CancelledIsFinal ==
    [][contest # None /\ contest' # None /\ contest.status = "CANCELLED"
          => contest'.status = "CANCELLED"]_vars
=============================================================================
