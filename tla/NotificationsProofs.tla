------------------------- MODULE NotificationsProofs -------------------------
(***************************************************************************)
(* Proofs about Notifications, for any submissions, users, sockets, follow *)
(* requests and verdicts.                                                  *)
(*                                                                         *)
(* What is told: a message that was published is true and stays true,      *)
(* wherever it is by then, so that what a socket received is true; and a   *)
(* message is never published behind a verdict it contradicts.             *)
(*                                                                         *)
(* What is stored: a submission is awarded from one message only, heard at *)
(* most once; each of the steps of a task leaves the row that the next one *)
(* rests on.                                                               *)
(***************************************************************************)
EXTENDS Notifications, FiniteSetTheorems, TLAPS

StatusMsg == [kind: {"status"}, user: Users \cup {Nobody}, submission: Submissions,
              status: Statuses]
NoteMsg == [kind: {"note"}, user: Users, note: Nat]
Msg == StatusMsg \cup NoteMsg

Kinds == {"FOLLOW", "ACHIEVEMENT"}
Task ==
    {Idle}
    \cup [step: {"save", "activity", "notify"}, kind: Kinds, actor: Users, user: Users]
    \cup [step: {"publish"}, kind: Kinds, actor: Users, user: Users, note: Nat]

Shapes ==
    /\ status \in [Submissions -> Statuses]
    /\ step \in [Submissions -> {"none", "saved", "queued"}]
    /\ untold \subseteq Submissions
    /\ heard \in Seq(StatusMsg) /\ wire \in Seq(Msg)
    /\ follows \subseteq Users \X Users
    /\ earned \in Seq(Achievement) /\ activities \in Seq(Activity)
    /\ notes \in Seq(Notification) /\ read \subseteq DOMAIN notes
    /\ task \in [Tasks -> Task]
    /\ socket \in [Sockets -> [state: {"closed", "verifying", "open"},
                               user: Users \cup {Nobody}]]
    /\ room \subseteq Sockets
    /\ inbox \in [Sockets -> Seq(Msg)]
    /\ inserts \in Nat

Settled == Verdicts \cup {"INTERNAL_ERROR"}

\* How far create() is, and whose verdict is still to be announced.
RowsOK ==
    \A s \in Submissions :
        /\ status[s] = "ABSENT" <=> step[s] = "none"
        /\ status[s] \notin {"ABSENT", "PENDING"} => step[s] = "queued"
        /\ s \in untold => status[s] \in Verdicts

\* What a message says is stored, and not about to be announced again.
IsTrue(m) ==
    /\ m.kind = "note" => m.note \in DOMAIN notes /\ notes[m.note].user = m.user
    /\ m.kind = "status" =>
           /\ step[m.submission] = "queued"
           /\ m.status \in Verdicts =>
                  /\ status[m.submission] \in {m.status, "INTERNAL_ERROR"}
                  /\ m.submission \notin untold
                  /\ m.user = OwnerOf[m.submission]

TrueMsg == {m \in Msg : IsTrue(m)}
MessagesAreTrue ==
    /\ wire \in Seq(TrueMsg) /\ heard \in Seq(TrueMsg)
    /\ inbox \in [Sockets -> Seq(TrueMsg)]

\* n may follow m.
MayFollow(m, n) ==
    ~ /\ m.kind = "status" /\ n.kind = "status" /\ m.submission = n.submission
      /\ m.status \in Verdicts /\ n.status = "PENDING"

\* What a socket received, and what is under way to it, is in order.
InOrder ==
    /\ \A i, j \in DOMAIN wire : i < j => MayFollow(wire[i], wire[j])
    /\ \A k \in Sockets :
           /\ \A i, j \in DOMAIN inbox[k] : i < j => MayFollow(inbox[k][i], inbox[k][j])
           /\ \A i \in DOMAIN inbox[k], j \in DOMAIN wire : MayFollow(inbox[k][i], wire[j])

SocketsOK ==
    /\ \A k \in room : socket[k].state = "open"
    /\ OnlyTheOwnerIsTold

\* A task of a request follows, one of a submission awards its owner; one that
\* is about to publish has saved its notification.
TasksOK ==
    \A x \in Tasks : task[x] # Idle =>
        /\ x \in Requests => task[x].kind = "FOLLOW"
        /\ x \in Submissions => /\ task[x].kind = "ACHIEVEMENT"
                                /\ task[x].actor = OwnerOf[x] /\ task[x].user = OwnerOf[x]
        /\ task[x].step = "publish" =>
               task[x].note \in DOMAIN notes /\ notes[task[x].note].user = task[x].user

Earned(s) == \E i \in DOMAIN earned : earned[i].of = s
Noted(s) == \E n \in DOMAIN notes : notes[n].type = "ACHIEVEMENT" /\ notes[n].of = s
Shown(s) == \E i \in DOMAIN activities : activities[i].of = s /\ activities[i].user = OwnerOf[s]
Announced(s) == status[s] \in {"ACCEPTED", "INTERNAL_ERROR"} /\ s \notin untold

Unawarded == {s \in Submissions : task[s] = Idle /\ ~Earned(s)}

\* One ACCEPTED is heard of a submission, and nothing was done about it before.
HeardOnce ==
    \A i \in DOMAIN heard : Worthy(heard[i]) =>
        /\ heard[i].submission \in Unawarded
        /\ \A j \in DOMAIN heard :
               Worthy(heard[j]) /\ heard[j].submission = heard[i].submission => i = j

\* The rows of an award: each is of the submission and its owner, and there is
\* one; ...
RowsOfAwards ==
    /\ \A i \in DOMAIN earned :
           /\ earned[i].of \in Submissions /\ earned[i].user = OwnerOf[earned[i].of]
           /\ \A j \in DOMAIN earned : earned[i].of = earned[j].of => i = j
    /\ \A n \in DOMAIN notes : notes[n].type = "ACHIEVEMENT" =>
           /\ notes[n].of \in Submissions /\ notes[n].user = OwnerOf[notes[n].of]
           /\ \A o \in DOMAIN notes :
                  (notes[o].type = "ACHIEVEMENT" /\ notes[n].of = notes[o].of) => n = o

\* ... they are made in the order of the steps, by a task that was due, and if
\* one is missing the award is under way or has failed.
AwardInOrder(s) ==
    /\ task[s] # Idle \/ Earned(s) => Announced(s)
    /\ task[s].step = "save" => ~Earned(s)
    /\ task[s].step \in {"activity", "notify", "publish"} => Earned(s)
    /\ task[s].step \in {"save", "activity", "notify"} => ~Noted(s)
    /\ task[s].step = "notify" => Shown(s)
    /\ Noted(s) => Earned(s) /\ Shown(s)
    /\ Earned(s) => s \in failed \/ task[s].step \in {"activity", "notify"} \/ Noted(s)

AwardsInOrder == \A s \in Submissions : AwardInOrder(s)

AwardsOK == HeardOnce /\ RowsOfAwards /\ AwardsInOrder

FollowNotes == {n \in DOMAIN notes : notes[n].type = "FOLLOW"}
Following == {r \in Requests : task[r].step \in {"activity", "notify"}}

\* Every row inserted has its notification, or a task that will save it, or
\* one that failed.
FollowsCounted ==
    /\ IsFiniteSet(Following)
    /\ Cardinality(FollowNotes) + Cardinality(Following) <= inserts
    /\ failed = {} => Cardinality(FollowNotes) + Cardinality(Following) = inserts

\* The inductive invariant.
IInv ==
    /\ Shapes /\ RowsOK /\ MessagesAreTrue /\ InOrder /\ SocketsOK
    /\ TasksOK /\ AwardsOK /\ FollowsCounted

-----------------------------------------------------------------------------
(* Lemmas about messages and tables *)

LEMMA Settings ==
    /\ OwnerOf \in [Submissions -> Users] /\ Nobody \notin Users
    /\ Wanted \subseteq Users \X Users
    /\ "ACCEPTED" \in Verdicts
    /\ \A v \in Settled : v \notin {"ABSENT", "PENDING", "PROCESSING"}
    /\ "INTERNAL_ERROR" \notin Verdicts
    /\ Requests \cap Submissions = {} /\ IsFiniteSet(Submissions)
    /\ Statuses = {"ABSENT", "PENDING", "PROCESSING"} \cup Settled
BY NotificationsAssumption DEF Settled, Statuses

LEMMA Appended ==
    ASSUME NEW S, NEW s \in Seq(S), NEW e \in S
    PROVE  /\ Append(s, e) \in Seq(S) /\ Len(Append(s, e)) = Len(s) + 1
           /\ DOMAIN Append(s, e) = DOMAIN s \cup {Len(s) + 1}
           /\ Len(s) + 1 \notin DOMAIN s /\ Append(s, e)[Len(s) + 1] = e
           /\ \A i \in DOMAIN s : Append(s, e)[i] = s[i] /\ i < Len(s) + 1
           /\ DOMAIN s \subseteq Nat /\ Len(s) + 1 \in Nat
OBVIOUS

LEMMA Tailed ==
    ASSUME NEW S, NEW s \in Seq(S), s # <<>>
    PROVE  /\ Tail(s) \in Seq(S) /\ Head(s) \in S /\ 1 \in DOMAIN s /\ Head(s) = s[1]
           /\ \A i \in DOMAIN Tail(s) : i + 1 \in DOMAIN s /\ Tail(s)[i] = s[i + 1]
           /\ \A i \in DOMAIN Tail(s) : i \in Nat /\ 1 < i + 1
OBVIOUS

LEMMA Members ==
    ASSUME NEW S, NEW s \in Seq(S)
    PROVE  /\ \A i \in DOMAIN s : s[i] \in S
           /\ \A T : S \subseteq T => s \in Seq(T)
OBVIOUS

LEMMA TaskShape ==
    ASSUME NEW t \in Task
    PROVE  /\ t = Idle <=> t.step = "idle"
           /\ t.step \in {"idle", "save", "activity", "notify", "publish"}
           /\ t # Idle => t.kind \in Kinds /\ t.actor \in Users /\ t.user \in Users
           /\ t.step = "publish" => t.note \in Nat
BY DEF Task, Idle

\* The initial states satisfy the inductive invariant.
LEMMA InitEstablishesIInv == Init => IInv
<1> SUFFICES ASSUME Init PROVE IInv
  OBVIOUS
<1>1. /\ status = [s \in Submissions |-> "ABSENT"] /\ step = [s \in Submissions |-> "none"]
      /\ untold = {} /\ heard = <<>> /\ wire = <<>> /\ follows \subseteq Wanted
      /\ earned = <<>> /\ activities = <<>> /\ notes = <<>> /\ read = {}
      /\ task = [x \in Tasks |-> Idle] /\ inserts = 0 /\ failed = {}
      /\ socket = [k \in Sockets |-> Closed] /\ room = {} /\ inbox = [k \in Sockets |-> <<>>]
  BY DEF Init, Lifecycle!Init
<1>2. \A S : <<>> \in Seq(S) /\ DOMAIN <<>> = {}
  OBVIOUS
<1>3. /\ \A x \in Tasks : task[x] = Idle /\ task[x].step = "idle"
      /\ Submissions \subseteq Tasks /\ Requests \subseteq Tasks
  BY <1>1 DEF Idle, Tasks
<1>4. DOMAIN heard = {} /\ DOMAIN wire = {} /\ DOMAIN earned = {} /\ DOMAIN activities = {}
      /\ DOMAIN notes = {} /\ \A k \in Sockets : DOMAIN inbox[k] = {}
  BY <1>1
<1>5. Shapes
  BY <1>1, <1>2, Settings DEF Shapes, Statuses, Task, Closed
<1>6. RowsOK
  BY <1>1 DEF RowsOK
<1>7. MessagesAreTrue /\ InOrder
  BY <1>1, <1>2, <1>4 DEF MessagesAreTrue, InOrder
<1>8. SocketsOK
  BY <1>1, <1>4 DEF SocketsOK, OnlyTheOwnerIsTold
<1>9. TasksOK
  BY <1>3 DEF TasksOK
<1>10. AwardsOK
  BY <1>3, <1>4 DEF AwardsOK, HeardOnce, RowsOfAwards, AwardsInOrder, AwardInOrder, Earned, Noted, Shown
<1>11. FollowsCounted
  <2>1. FollowNotes = {} /\ Following = {}
    BY <1>3, <1>4 DEF FollowNotes, Following
  <2> QED BY <1>1, <2>1, FS_EmptySet DEF FollowsCounted
<1> QED BY <1>5, <1>6, <1>7, <1>8, <1>9, <1>10, <1>11 DEF IInv

-----------------------------------------------------------------------------
(* Submissions: what a step publishes *)

\* The steps of the execution-service.
SubmissionStep(s) ==
    \/ Post(s) \/ AnnouncePending(s) \/ Start(s) \/ (\E v \in Verdicts : Decide(s, v))
    \/ AnnounceVerdict(s) \/ Credit(s) \/ GiveUp(s)

\* The steps of everything else.
OtherStep ==
    \/ \E r \in Requests, pair \in Wanted : FollowUser(r, pair)
    \/ Hear
    \/ \E x \in Tasks : TaskStep(x)
    \/ \E pair \in follows : UnfollowUser(pair)
    \/ \E n \in DOMAIN notes : MarkNotificationAsRead(n)
    \/ \E k \in Sockets :
        \/ \E handshake \in Handshakes : Connect(k, handshake)
        \/ Verified(k)
        \/ Disconnect(k)
        \/ JoinRoom(k)
        \/ LeaveRoom(k)
    \/ Relay
    \/ UNCHANGED vars

\* Only the execution-service writes what it keeps.
LEMMA OthersKeepRows ==
    ASSUME OtherStep
    PROVE  UNCHANGED <<status, step, untold>>
BY DEF OtherStep, FollowUser, Hear, TaskStep, SaveFollow, SaveAchievement, CreateActivity,
   SaveNotification, PublishNotification, TaskFails, UnfollowUser, MarkNotificationAsRead,
   Connect, Verified, Disconnect, JoinRoom, LeaveRoom, Relay, submissionVars, vars

\* A row goes forward: what was queued stays so, a verdict that was announced
\* stays announced and is at most replaced by INTERNAL_ERROR.
Forward ==
    \A s \in Submissions :
        /\ step[s] = "queued" => step'[s] = "queued"
        /\ status[s] \in Settled => status'[s] \in {status[s], "INTERNAL_ERROR"}
        /\ (status[s] \in Settled /\ s \notin untold) => s \notin untold'

RowsForward ==
    /\ RowsOK' /\ Forward
    /\ status' \in [Submissions -> Statuses]
    /\ step' \in [Submissions -> {"none", "saved", "queued"}]
    /\ untold' \subseteq Submissions

LEMMA StepMovesForward ==
    ASSUME Shapes, RowsOK, [Next]_vars
    PROVE  RowsForward
<1> USE Settings DEF Shapes, RowsForward
<1>1. ASSUME UNCHANGED <<status, step, untold>>
      PROVE  RowsForward
  BY <1>1 DEF RowsOK, Forward
<1>2. ASSUME NEW s \in Submissions, Post(s)
      PROVE  RowsForward
  <2>1. status[s] = "ABSENT" /\ status' = [status EXCEPT ![s] = "PENDING"]
        /\ step' = [step EXCEPT ![s] = "saved"] /\ untold' = untold
    BY <1>2 DEF Post, Lifecycle!Submit
  <2>2. step[s] = "none" /\ s \notin untold
    BY <2>1 DEF RowsOK, Settled
  <2>3. \A t \in Submissions : /\ status'[t] = IF t = s THEN "PENDING" ELSE status[t]
                               /\ step'[t] = IF t = s THEN "saved" ELSE step[t]
    BY <2>1
  <2>4. RowsOK'
    BY <2>1, <2>2, <2>3 DEF RowsOK
  <2>5. Forward
    BY <2>1, <2>2, <2>3 DEF Forward
  <2> QED BY <2>1, <2>4, <2>5
<1>3. ASSUME NEW s \in Submissions, AnnouncePending(s)
      PROVE  RowsForward
  <2>1. step[s] = "saved" /\ step' = [step EXCEPT ![s] = "queued"]
        /\ UNCHANGED <<status, untold>>
    BY <1>3 DEF AnnouncePending
  <2> QED BY <2>1 DEF RowsOK, Forward
<1>4. ASSUME NEW s \in Submissions, NEW v, UNCHANGED step, step[s] = "queued",
             status[s] \in {"PENDING", "PROCESSING"} \cup Settled,
             status' = [status EXCEPT ![s] = v], v \in {"PROCESSING"} \cup Settled,
             v \in Verdicts => status[s] = "PROCESSING" /\ untold' = untold \cup {s},
             v = "PROCESSING" => status[s] = "PENDING" /\ untold' = untold,
             v = "INTERNAL_ERROR" => untold' = untold \ {s}
      PROVE  RowsForward
  <2>1. \A t \in Submissions : status'[t] = IF t = s THEN v ELSE status[t]
    BY <1>4
  <2>2. v \in Verdicts \/ v = "PROCESSING" \/ v = "INTERNAL_ERROR"
    BY <1>4 DEF Settled
  <2>3. \A t \in Submissions \ {s} : t \in untold' <=> t \in untold
    BY <1>4, <2>2
  <2>4. v = "PROCESSING" => s \notin untold
    BY <1>4 DEF RowsOK, Settled
  <2>5. RowsOK'
    BY <1>4, <2>1, <2>2, <2>3, <2>4 DEF RowsOK, Settled
  <2>6. Forward
    BY <1>4, <2>1, <2>2, <2>3 DEF Forward, Settled
  <2> QED BY <1>4, <2>2, <2>5, <2>6
<1>5. ASSUME NEW s \in Submissions, Start(s)
      PROVE  RowsForward
  BY <1>4, <1>5 DEF Start, Lifecycle!Start, Settled
<1>6. ASSUME NEW s \in Submissions, NEW v \in Verdicts, Decide(s, v)
      PROVE  RowsForward
  <2>1. status[s] = "PROCESSING" /\ status' = [status EXCEPT ![s] = v]
        /\ untold' = untold \cup {s} /\ UNCHANGED step
    BY <1>6 DEF Decide, Lifecycle!Decide
  <2>2. step[s] = "queued"
    BY <2>1 DEF RowsOK
  <2> QED BY <1>4, <2>1, <2>2 DEF Settled
<1>7. ASSUME NEW s \in Submissions, AnnounceVerdict(s)
      PROVE  RowsForward
  <2>1. untold' = untold \ {s} /\ UNCHANGED <<status, step>>
    BY <1>7 DEF AnnounceVerdict
  <2> QED BY <2>1 DEF RowsOK, Forward
<1>8. ASSUME NEW s \in Submissions, GiveUp(s)
      PROVE  RowsForward
  <2>1. step[s] = "queued" /\ status[s] # "ABSENT" /\ untold' = untold \ {s}
        /\ status' = [status EXCEPT ![s] = "INTERNAL_ERROR"] /\ UNCHANGED step
    BY <1>8 DEF GiveUp, Lifecycle!GiveUp
  <2>2. status[s] \in {"PENDING", "PROCESSING"} \cup Settled
    BY <2>1
  <2> QED BY <1>4, <2>1, <2>2 DEF Settled
<1>9. ASSUME NEW s \in Submissions, Credit(s) PROVE UNCHANGED <<status, step, untold>>
  BY <1>9 DEF Credit, Lifecycle!Credit
<1>10. CASE OtherStep
  BY <1>1, <1>10, OthersKeepRows
<1> QED BY <1>1, <1>2, <1>3, <1>5, <1>6, <1>7, <1>8, <1>9, <1>10 DEF Next, OtherStep

\* What a step of a submission publishes is true, and tells PENDING first and
\* ACCEPTED once.
LEMMA Published ==
    ASSUME Shapes, RowsOK, NEW s \in Submissions, SubmissionStep(s)
    PROVE  /\ UNCHANGED <<socialVars, socketVars, history>>
           /\ \/ UNCHANGED <<heard, wire>>
              \/ \E m \in StatusMsg :
                     /\ PublishStatus(m) /\ m.submission = s /\ IsTrue(m)'
                     /\ m.status = "PENDING" => step[s] = "saved"
                     /\ Worthy(m) => s \in untold /\ status'[s] = "ACCEPTED" /\ s \notin untold'
<1> USE Settings DEF SubmissionStep
<1>1. UNCHANGED <<socialVars, socketVars, history>>
  BY DEF Post, AnnouncePending, Start, Decide, AnnounceVerdict, Credit, GiveUp
<1>2. CASE Post(s) \/ (\E v \in Verdicts : Decide(s, v)) \/ Credit(s) \/ GiveUp(s)
  BY <1>1, <1>2 DEF Post, Decide, Credit, GiveUp
<1>3. ASSUME NEW u \in Users \cup {Nobody}, NEW v \in Statuses,
             PublishStatus(StatusMessage(s, u, v)), step'[s] = "queued",
             v \in Verdicts => status'[s] = v /\ s \notin untold' /\ u = OwnerOf[s],
             v = "PENDING" => step[s] = "saved", v = "ACCEPTED" => s \in untold
      PROVE  \E m \in StatusMsg :
                     /\ PublishStatus(m) /\ m.submission = s /\ IsTrue(m)'
                     /\ m.status = "PENDING" => step[s] = "saved"
                     /\ Worthy(m) => s \in untold /\ status'[s] = "ACCEPTED" /\ s \notin untold'
  <2> DEFINE m == StatusMessage(s, u, v)
  <2>1. /\ m \in StatusMsg /\ m.kind = "status" /\ m.submission = s /\ m.status = v /\ m.user = u
    BY DEF StatusMessage, StatusMsg
  <2>2. PublishStatus(m)
    BY <1>3
  <2> HIDE DEF m
  <2>3. IsTrue(m)'
    <3>1. /\ step'[m.submission] = "queued"
          /\ m.status \in Verdicts =>
                  /\ status'[m.submission] \in {m.status, "INTERNAL_ERROR"}
                  /\ m.submission \notin untold' /\ m.user = OwnerOf[m.submission]
      BY <1>3, <2>1
    <3> QED BY <2>1, <3>1 DEF IsTrue
  <2>4. Worthy(m) <=> v = "ACCEPTED"
    BY <2>1 DEF Worthy
  <2> QED BY <1>3, <2>1, <2>2, <2>3, <2>4
<1>4. CASE AnnouncePending(s)
  <2>1. /\ PublishStatus(StatusMessage(s, OwnerOf[s], "PENDING"))
        /\ step[s] = "saved" /\ step'[s] = "queued"
    BY <1>4 DEF AnnouncePending, Shapes
  <2> QED BY <1>1, <1>3, <2>1 DEF Settled
<1>5. CASE Start(s)
  <2>1. PublishStatus(StatusMessage(s, Nobody, "PROCESSING")) /\ step'[s] = "queued"
    BY <1>5 DEF Start
  <2> QED BY <1>1, <1>3, <2>1 DEF Settled
<1>6. CASE AnnounceVerdict(s)
  <2>1. PublishStatus(StatusMessage(s, OwnerOf[s], status[s])) /\ s \in untold
        /\ UNCHANGED <<status, step>> /\ s \notin untold'
    BY <1>6 DEF AnnounceVerdict
  <2>2. status[s] \in Verdicts /\ step'[s] = "queued" /\ status[s] # "PENDING"
    BY <2>1 DEF RowsOK, Settled
  <2> QED BY <1>1, <1>3, <2>1, <2>2 DEF Settled
<1> QED BY <1>2, <1>4, <1>5, <1>6

LEMMA NotesGrow ==
    ASSUME Shapes, [Next]_vars
    PROVE  /\ notes' \in Seq(Notification) /\ DOMAIN notes \subseteq DOMAIN notes'
           /\ \A n \in DOMAIN notes : notes'[n] = notes[n]
<1>1. CASE UNCHANGED notes
  BY <1>1 DEF Shapes
<1>2. ASSUME NEW x \in Tasks, SaveNotification(x)
      PROVE  /\ notes' \in Seq(Notification) /\ DOMAIN notes \subseteq DOMAIN notes'
             /\ \A n \in DOMAIN notes : notes'[n] = notes[n]
  <2>1. [user |-> task[x].user, type |-> task[x].kind, of |-> x] \in Notification
    BY <1>2, TaskShape DEF SaveNotification, At, Shapes, Notification, Kinds
  <2> QED BY <1>2, <2>1, Appended DEF SaveNotification, Shapes
<1>3. \/ UNCHANGED notes
      \/ \E x \in Tasks : SaveNotification(x)
  BY DEF Next, vars, socialVars, Post, AnnouncePending, Start, Decide, AnnounceVerdict, Credit, GiveUp,
     FollowUser, Hear, TaskStep, SaveFollow, SaveAchievement, CreateActivity,
     PublishNotification, TaskFails, UnfollowUser, MarkNotificationAsRead,
     Connect, Verified, Disconnect, JoinRoom, LeaveRoom, Relay
<1> QED BY <1>1, <1>2, <1>3

\* What is true stays true.
LEMMA TruthLasts ==
    ASSUME Shapes, RowsOK, [Next]_vars, NEW m \in Msg, IsTrue(m)
    PROVE  IsTrue(m)'
<1>1. ASSUME m.kind = "note" PROVE m.note \in DOMAIN notes' /\ notes'[m.note].user = m.user
  BY <1>1, NotesGrow DEF IsTrue
<1>2. ASSUME m.kind = "status"
      PROVE  /\ step'[m.submission] = "queued"
             /\ m.status \in Verdicts =>
                  /\ status'[m.submission] \in {m.status, "INTERNAL_ERROR"}
                  /\ m.submission \notin untold' /\ m.user = OwnerOf[m.submission]
  <2>1. m.submission \in Submissions
    BY <1>2 DEF Msg, StatusMsg, NoteMsg
  <2> QED BY <1>2, <2>1, StepMovesForward DEF IsTrue, Forward, RowsForward, Settled
<1> QED BY <1>1, <1>2 DEF IsTrue

\* A message that is put on the wire.
Mailed(e) ==
    /\ e \in Msg /\ wire' = Append(wire, e) /\ IsTrue(e)'
    /\ (e.kind = "status" /\ e.status = "PENDING") => step[e.submission] = "saved"

LEMMA Channels ==
    ASSUME Shapes, RowsOK, TasksOK, [Next]_vars
    PROVE  \/ Relay
           \/ /\ wire' = wire \/ \E e : Mailed(e)
              /\ inbox' = inbox \/ \E k \in Sockets : Disconnect(k)
<1>1. ASSUME NEW s \in Submissions, SubmissionStep(s)
      PROVE  (wire' = wire \/ \E e : Mailed(e)) /\ inbox' = inbox
  <2>1. inbox' = inbox
    BY <1>1, Published DEF socketVars
  <2>2. CASE UNCHANGED <<heard, wire>>
    BY <2>1, <2>2
  <2>3. ASSUME NEW m \in StatusMsg, PublishStatus(m), m.submission = s, IsTrue(m)',
               m.status = "PENDING" => step[s] = "saved"
        PROVE  wire' = wire \/ Mailed(m)
    BY <2>3 DEF PublishStatus, Mailed, Msg
  <2> QED BY <1>1, <2>1, <2>2, <2>3, Published
<1>2. ASSUME NEW x \in Tasks, PublishNotification(x) \/ (TaskFails(x) /\ wire' # wire)
      PROVE  (wire' = wire \/ \E e : Mailed(e)) /\ inbox' = inbox
  <2> PICK e : e = Announcement(x)
    OBVIOUS
  <2>1. task[x].step = "publish" /\ task[x] # Idle /\ inbox' = inbox
        /\ wire' \in {wire, Append(wire, e)} /\ notes' = notes
    BY <1>2 DEF PublishNotification, TaskFails, At, Idle, socketVars
  <2>2. task[x].user \in Users /\ task[x].note \in Nat
        /\ task[x].note \in DOMAIN notes /\ notes[task[x].note].user = task[x].user
    BY <2>1, TaskShape DEF Shapes, TasksOK
  <2>3. e \in NoteMsg /\ e.kind = "note" /\ e.user = task[x].user /\ e.note = task[x].note
    BY <2>2 DEF NoteMsg, Announcement
  <2>4. IsTrue(e)'
    <3>1. e.note \in DOMAIN notes' /\ notes'[e.note].user = e.user
      BY <2>1, <2>2, <2>3
    <3> QED BY <2>3, <3>1 DEF IsTrue
  <2>5. wire' = wire \/ Mailed(e)
    BY <2>1, <2>3, <2>4 DEF Mailed, Msg
  <2> QED BY <2>1, <2>5
<1>3. ASSUME OtherStep, ~Relay,
             \A x \in Tasks : ~PublishNotification(x) /\ ~(TaskFails(x) /\ wire' # wire)
      PROVE  wire' = wire /\ (inbox' = inbox \/ \E k \in Sockets : Disconnect(k))
  BY <1>3 DEF OtherStep, FollowUser, Hear, TaskStep, SaveFollow, SaveAchievement, CreateActivity,
     SaveNotification, TaskFails, UnfollowUser, MarkNotificationAsRead,
     Connect, Verified, JoinRoom, LeaveRoom, Disconnect, socketVars, vars
<1>4. OtherStep \/ \E s \in Submissions : SubmissionStep(s)
  BY DEF Next, OtherStep, SubmissionStep
<1> QED BY <1>1, <1>2, <1>3, <1>4

-----------------------------------------------------------------------------
(* The inductive invariant: messages and sockets *)

LEMMA StepKeepsWire ==
    ASSUME Shapes, RowsOK, TasksOK, [Next]_vars
    PROVE  wire' \in Seq(Msg) /\ inbox' \in [Sockets -> Seq(Msg)]
<1>1. CASE Relay
  <2>1. wire # <<>> /\ wire' = Tail(wire)
        /\ inbox' = [k \in Sockets |-> IF k \in Audience(Head(wire))
                                       THEN Append(inbox[k], Head(wire)) ELSE inbox[k]]
    BY <1>1 DEF Relay
  <2>2. Tail(wire) \in Seq(Msg) /\ Head(wire) \in Msg
    BY <2>1, Tailed DEF Shapes
  <2>3. \A k \in Sockets : Append(inbox[k], Head(wire)) \in Seq(Msg) /\ inbox[k] \in Seq(Msg)
    BY <2>2, Appended DEF Shapes
  <2> QED BY <2>1, <2>2, <2>3
<1>2. ASSUME wire' = wire \/ \E e : Mailed(e) PROVE wire' \in Seq(Msg)
  <2>1. ASSUME NEW e, Mailed(e) PROVE wire' \in Seq(Msg)
    BY <2>1, Appended DEF Shapes, Mailed
  <2> QED BY <1>2, <2>1 DEF Shapes
<1>3. ASSUME inbox' = inbox \/ \E k \in Sockets : Disconnect(k)
      PROVE  inbox' \in [Sockets -> Seq(Msg)]
  <2>1. <<>> \in Seq(Msg)
    OBVIOUS
  <2> QED BY <1>3, <2>1 DEF Shapes, Disconnect
<1> QED BY <1>1, <1>2, <1>3, Channels

LEMMA StepKeepsHeard ==
    ASSUME Shapes, RowsOK, [Next]_vars
    PROVE  \/ Hear
           \/ heard' = heard
           \/ \E m \in StatusMsg :
                 /\ heard' = Append(heard, m) /\ IsTrue(m)' /\ UNCHANGED <<socialVars, history>>
                 /\ Worthy(m) => /\ m.submission \in untold /\ m.submission \notin untold'
                                 /\ status'[m.submission] = "ACCEPTED"
<1>1. ASSUME NEW s \in Submissions, SubmissionStep(s)
      PROVE  \/ heard' = heard
             \/ \E m \in StatusMsg :
                 /\ heard' = Append(heard, m) /\ IsTrue(m)' /\ UNCHANGED <<socialVars, history>>
                 /\ Worthy(m) => /\ m.submission \in untold /\ m.submission \notin untold'
                                 /\ status'[m.submission] = "ACCEPTED"
  <2>1. UNCHANGED <<socialVars, history>>
    BY <1>1, Published
  <2>2. CASE UNCHANGED <<heard, wire>>
    BY <2>2
  <2>3. ASSUME NEW m \in StatusMsg, PublishStatus(m), m.submission = s, IsTrue(m)',
               Worthy(m) => s \in untold /\ status'[s] = "ACCEPTED" /\ s \notin untold'
        PROVE  \/ heard' = heard
               \/ /\ heard' = Append(heard, m) /\ IsTrue(m)'
                  /\ Worthy(m) => /\ m.submission \in untold /\ m.submission \notin untold'
                                  /\ status'[m.submission] = "ACCEPTED"
    BY <2>3 DEF PublishStatus
  <2> QED BY <1>1, <2>1, <2>2, <2>3, Published
<1>2. ASSUME OtherStep, ~Hear PROVE heard' = heard
  BY <1>2 DEF OtherStep, FollowUser, TaskStep, SaveFollow, SaveAchievement, CreateActivity,
     SaveNotification, PublishNotification, TaskFails, UnfollowUser, MarkNotificationAsRead,
     Connect, Verified, JoinRoom, LeaveRoom, Disconnect, Relay, vars
<1> QED BY <1>1, <1>2 DEF Next, OtherStep, SubmissionStep

LEMMA StepKeepsMessages ==
    ASSUME Shapes, RowsOK, TasksOK, MessagesAreTrue, [Next]_vars
    PROVE  MessagesAreTrue' /\ heard' \in Seq(StatusMsg)
<1>1. TrueMsg \subseteq TrueMsg'
  BY TruthLasts DEF TrueMsg
<1>2. wire \in Seq(TrueMsg') /\ heard \in Seq(TrueMsg')
      /\ \A k \in Sockets : inbox[k] \in Seq(TrueMsg')
  BY <1>1, Members DEF MessagesAreTrue
<1>3. wire' \in Seq(TrueMsg') /\ inbox' \in [Sockets -> Seq(TrueMsg')]
  <2>1. CASE Relay
    <3>1. wire # <<>> /\ wire' = Tail(wire)
          /\ inbox' = [k \in Sockets |-> IF k \in Audience(Head(wire))
                                         THEN Append(inbox[k], Head(wire)) ELSE inbox[k]]
      BY <2>1 DEF Relay
    <3>2. Tail(wire) \in Seq(TrueMsg') /\ Head(wire) \in TrueMsg'
      BY <1>2, <3>1, Tailed
    <3>3. \A k \in Sockets : Append(inbox[k], Head(wire)) \in Seq(TrueMsg')
      BY <1>2, <3>2, Appended
    <3> QED BY <1>2, <3>1, <3>2, <3>3
  <2>2. ASSUME NEW e, Mailed(e) PROVE wire' \in Seq(TrueMsg')
    <3>1. e \in TrueMsg' /\ wire' = Append(wire, e)
      BY <2>2 DEF Mailed, TrueMsg
    <3> QED BY <1>2, <3>1, Appended
  <2>3. ASSUME inbox' = inbox \/ \E k \in Sockets : Disconnect(k)
        PROVE  inbox' \in [Sockets -> Seq(TrueMsg')]
    <3>1. <<>> \in Seq(TrueMsg') /\ inbox = [k \in Sockets |-> inbox[k]]
      BY DEF Shapes
    <3>2. inbox \in [Sockets -> Seq(TrueMsg')]
      BY <1>2, <3>1
    <3> QED BY <2>3, <3>1, <3>2 DEF Disconnect
  <2> QED BY <1>2, <2>1, <2>2, <2>3, Channels
<1>4. heard' \in Seq(TrueMsg') /\ heard' \in Seq(StatusMsg)
  <2>1. CASE Hear
    <3>1. heard # <<>> /\ heard' = Tail(heard)
      BY <2>1 DEF Hear
    <3> QED BY <1>2, <3>1, Tailed DEF Shapes
  <2>2. ASSUME NEW m \in StatusMsg, heard' = Append(heard, m), IsTrue(m)'
        PROVE  heard' \in Seq(TrueMsg') /\ heard' \in Seq(StatusMsg)
    <3>1. m \in TrueMsg'
      BY <2>2 DEF TrueMsg, Msg
    <3> QED BY <1>2, <2>2, <3>1, Appended DEF Shapes
  <2> QED BY <1>2, <2>1, <2>2, StepKeepsHeard DEF Shapes
<1> QED BY <1>3, <1>4 DEF MessagesAreTrue

\* A PENDING that is put on the wire follows no verdict of its submission.
LEMMA StepKeepsOrder ==
    ASSUME Shapes, RowsOK, TasksOK, MessagesAreTrue, InOrder, [Next]_vars
    PROVE  InOrder'
<1>1. /\ \A i \in DOMAIN wire : IsTrue(wire[i])
      /\ \A k \in Sockets : \A i \in DOMAIN inbox[k] : IsTrue(inbox[k][i])
  BY Members DEF MessagesAreTrue, TrueMsg
<1>2. ASSUME NEW e, Mailed(e), NEW m, IsTrue(m) PROVE MayFollow(m, e)
  BY <1>2 DEF Mailed, IsTrue, MayFollow
<1>3. ASSUME NEW e, Mailed(e)
      PROVE  /\ \A i, j \in DOMAIN wire' : i < j => MayFollow(wire'[i], wire'[j])
             /\ \A k \in Sockets : \A i \in DOMAIN inbox[k], j \in DOMAIN wire' :
                    MayFollow(inbox[k][i], wire'[j])
  <2>1. /\ DOMAIN wire' = DOMAIN wire \cup {Len(wire) + 1} /\ wire'[Len(wire) + 1] = e
        /\ \A i \in DOMAIN wire : wire'[i] = wire[i] /\ i < Len(wire) + 1
        /\ DOMAIN wire \subseteq Nat /\ Len(wire) + 1 \in Nat
    BY <1>3, Appended DEF Mailed, Shapes
  <2>2. ASSUME NEW i \in DOMAIN wire', NEW j \in DOMAIN wire', i < j
        PROVE  MayFollow(wire'[i], wire'[j])
    <3>1. i \in DOMAIN wire
      BY <2>1, <2>2
    <3>2. CASE j \in DOMAIN wire
      BY <2>1, <2>2, <3>1, <3>2 DEF InOrder
    <3>3. CASE j = Len(wire) + 1
      BY <1>1, <1>2, <1>3, <2>1, <3>1, <3>3
    <3> QED BY <2>1, <3>2, <3>3
  <2>3. ASSUME NEW k \in Sockets, NEW i \in DOMAIN inbox[k], NEW j \in DOMAIN wire'
        PROVE  MayFollow(inbox[k][i], wire'[j])
    <3>1. CASE j \in DOMAIN wire
      BY <2>1, <3>1 DEF InOrder
    <3>2. CASE j = Len(wire) + 1
      BY <1>1, <1>2, <1>3, <2>1, <3>2
    <3> QED BY <2>1, <3>1, <3>2
  <2> QED BY <2>2, <2>3
<1>4. CASE Relay
  <2>1. wire # <<>> /\ wire' = Tail(wire)
        /\ inbox' = [k \in Sockets |-> IF k \in Audience(Head(wire))
                                       THEN Append(inbox[k], Head(wire)) ELSE inbox[k]]
    BY <1>4 DEF Relay
  <2>2. /\ Head(wire) = wire[1] /\ Head(wire) \in Msg /\ 1 \in DOMAIN wire
        /\ \A i \in DOMAIN wire' : /\ i \in Nat /\ 1 < i + 1 /\ i + 1 \in DOMAIN wire
                                   /\ wire'[i] = wire[i + 1]
    BY <2>1, Tailed DEF Shapes
  <2>3. \A i, j \in DOMAIN wire' : i < j => MayFollow(wire'[i], wire'[j])
    BY <2>2 DEF InOrder
  <2>4. ASSUME NEW k \in Sockets
        PROVE  /\ \A i, j \in DOMAIN inbox'[k] : i < j => MayFollow(inbox'[k][i], inbox'[k][j])
               /\ \A i \in DOMAIN inbox'[k], j \in DOMAIN wire' :
                      MayFollow(inbox'[k][i], wire'[j])
    <3>1. CASE inbox'[k] = inbox[k]
      BY <2>2, <3>1 DEF InOrder
    <3>2. CASE inbox'[k] = Append(inbox[k], Head(wire))
      <4>1. /\ DOMAIN inbox'[k] = DOMAIN inbox[k] \cup {Len(inbox[k]) + 1}
            /\ inbox'[k][Len(inbox[k]) + 1] = wire[1]
            /\ \A i \in DOMAIN inbox[k] : inbox'[k][i] = inbox[k][i] /\ i < Len(inbox[k]) + 1
            /\ DOMAIN inbox[k] \subseteq Nat /\ Len(inbox[k]) + 1 \in Nat
        BY <2>2, <3>2, Appended DEF Shapes
      <4>2. ASSUME NEW i \in DOMAIN inbox'[k], NEW j \in DOMAIN inbox'[k], i < j
            PROVE  MayFollow(inbox'[k][i], inbox'[k][j])
        <5>1. i \in DOMAIN inbox[k]
          BY <4>1, <4>2
        <5>2. CASE j \in DOMAIN inbox[k]
          BY <4>1, <4>2, <5>1, <5>2 DEF InOrder
        <5>3. CASE j = Len(inbox[k]) + 1
          BY <2>2, <4>1, <5>1, <5>3 DEF InOrder
        <5> QED BY <4>1, <5>2, <5>3
      <4>3. ASSUME NEW i \in DOMAIN inbox'[k], NEW j \in DOMAIN wire'
            PROVE  MayFollow(inbox'[k][i], wire'[j])
        <5>1. CASE i \in DOMAIN inbox[k]
          BY <2>2, <4>1, <5>1 DEF InOrder
        <5>2. CASE i = Len(inbox[k]) + 1
          BY <2>2, <4>1, <5>2 DEF InOrder
        <5> QED BY <4>1, <5>1, <5>2
      <4> QED BY <4>2, <4>3
    <3> QED BY <2>1, <3>1, <3>2
  <2> QED BY <2>3, <2>4 DEF InOrder
<1>5. ASSUME wire' = wire \/ \E e : Mailed(e), inbox' = inbox \/ \E k \in Sockets : Disconnect(k)
      PROVE  InOrder'
  <2>1. \A i, j \in DOMAIN wire' : i < j => MayFollow(wire'[i], wire'[j])
    BY <1>3, <1>5 DEF InOrder
  <2>2. \A k \in Sockets : \A i \in DOMAIN inbox[k], j \in DOMAIN wire' :
            MayFollow(inbox[k][i], wire'[j])
    BY <1>3, <1>5 DEF InOrder
  <2>3. \A k \in Sockets : inbox'[k] = inbox[k] \/ DOMAIN inbox'[k] = {}
    BY <1>5 DEF Disconnect, Shapes
  <2>4. \A k \in Sockets :
           /\ \A i, j \in DOMAIN inbox'[k] : i < j => MayFollow(inbox'[k][i], inbox'[k][j])
           /\ \A i \in DOMAIN inbox'[k], j \in DOMAIN wire' : MayFollow(inbox'[k][i], wire'[j])
    BY <2>2, <2>3 DEF InOrder
  <2> QED BY <2>1, <2>4 DEF InOrder
<1> QED BY <1>4, <1>5, Channels

SocketRow == [state: {"closed", "verifying", "open"}, user: Users \cup {Nobody}]

\* A socket is open while it is in its room and while it has received anything.
LEMMA StepKeepsSockets ==
    ASSUME Shapes, SocketsOK, [Next]_vars
    PROVE  SocketsOK' /\ room' \subseteq Sockets /\ socket' \in [Sockets -> SocketRow]
<1> DEFINE Goal == SocketsOK' /\ room' \subseteq Sockets /\ socket' \in [Sockets -> SocketRow]
<1>0. /\ socket \in [Sockets -> SocketRow] /\ room \subseteq Sockets
      /\ inbox \in [Sockets -> Seq(Msg)]
  BY DEF Shapes, SocketRow
<1>1. ASSUME NEW k \in Sockets, NEW t \in SocketRow, socket' = [socket EXCEPT ![k] = t],
             room' \in {room, room \cup {k}, room \ {k}}, k \in room' => t.state = "open",
             \A l \in Sockets \ {k} : inbox'[l] = inbox[l],
             \/ DOMAIN inbox'[k] = {}
             \/ inbox'[k] = inbox[k] /\ t.state = "open" /\ t.user = socket[k].user
      PROVE  Goal
  <2>1. \A l \in Sockets : socket'[l] = IF l = k THEN t ELSE socket[l]
    BY <1>0, <1>1
  <2>2. \A l \in room' : socket'[l].state = "open"
    BY <1>0, <1>1, <2>1 DEF SocketsOK
  <2>3. OnlyTheOwnerIsTold'
    <3>1. ASSUME NEW l \in Sockets, NEW i \in DOMAIN inbox'[l]
          PROVE  inbox'[l][i].user = socket'[l].user /\ socket'[l].state = "open"
      BY <1>1, <2>1, <3>1 DEF SocketsOK, OnlyTheOwnerIsTold
    <3> QED BY <3>1 DEF OnlyTheOwnerIsTold
  <2> QED BY <1>0, <1>1, <2>2, <2>3 DEF SocketsOK
<1>2. ASSUME NEW k \in Sockets, NEW handshake \in Handshakes, Connect(k, handshake)
      PROVE  Goal
  <2> DEFINE u == ExtractToken(handshake)
  <2>1. u \in Users \cup {Nobody}
    <3>1. CASE {p \in Places : handshake[p] # Nobody} = {}
      BY <3>1 DEF ExtractToken
    <3>2. CASE {p \in Places : handshake[p] # Nobody} # {}
      <4>1. \E p \in {p \in Places : handshake[p] # Nobody} :
                \A q \in {r \in Places : handshake[r] # Nobody} : p <= q
        BY <3>2 DEF Places
      <4>2. handshake \in [Places -> Users \cup {Nobody}]
        BY DEF Handshakes
      <4> QED BY <3>2, <4>1, <4>2 DEF ExtractToken
    <3> QED BY <3>1, <3>2
  <2> HIDE DEF u
  <2>2. socket[k].state = "closed" /\ UNCHANGED <<room, inbox>>
        /\ socket' = [socket EXCEPT ![k] = [state |-> "verifying", user |-> u]]
    BY <1>2 DEF Connect, u
  <2>3. DOMAIN inbox[k] = {} /\ k \notin room
    BY <2>2 DEF SocketsOK, OnlyTheOwnerIsTold
  <2>4. [state |-> "verifying", user |-> u] \in SocketRow
    BY <2>1 DEF SocketRow
  <2> QED BY <1>1, <2>2, <2>3, <2>4
<1>3. ASSUME NEW k \in Sockets, Verified(k)
      PROVE  Goal
  <2> PICK t : t = [socket[k] EXCEPT !.state = "open"]
    OBVIOUS
  <2>1. t \in SocketRow /\ t.state = "open"
    BY <1>0 DEF SocketRow
  <2>2. socket[k].state = "verifying" /\ UNCHANGED inbox /\ room' = room \cup {k}
        /\ socket' = [socket EXCEPT ![k] = t]
    BY <1>3 DEF Verified
  <2>3. DOMAIN inbox[k] = {}
    BY <2>2 DEF SocketsOK, OnlyTheOwnerIsTold
  <2> QED BY <1>1, <2>1, <2>2, <2>3
<1>4. ASSUME NEW k \in Sockets, Disconnect(k)
      PROVE  Goal
  <2>1. Closed \in SocketRow
    BY DEF Closed, SocketRow
  <2>2. DOMAIN <<>> = {}
    OBVIOUS
  <2> QED BY <1>0, <1>1, <1>4, <2>1, <2>2 DEF Disconnect
<1>5. ASSUME NEW k \in Sockets, JoinRoom(k) \/ LeaveRoom(k)
      PROVE  Goal
  <2>1. socket[k].state = "open" /\ UNCHANGED <<socket, inbox>>
        /\ room' \in {room \cup {k}, room \ {k}}
    BY <1>5 DEF JoinRoom, LeaveRoom, Known
  <2>2. socket' = [socket EXCEPT ![k] = socket[k]] /\ socket[k] \in SocketRow
    BY <1>0, <2>1
  <2> QED BY <1>1, <2>1, <2>2
<1>6. CASE Relay
  <2>1. wire # <<>> /\ UNCHANGED <<socket, room>>
        /\ inbox' = [k \in Sockets |-> IF k \in Audience(Head(wire))
                                       THEN Append(inbox[k], Head(wire)) ELSE inbox[k]]
    BY <1>6 DEF Relay
  <2>2. Head(wire) \in Msg
    BY <2>1, Tailed DEF Shapes
  <2>3. ASSUME NEW k \in Sockets, NEW i \in DOMAIN inbox'[k]
        PROVE  inbox'[k][i].user = socket[k].user /\ socket[k].state = "open"
    <3>1. CASE k \notin Audience(Head(wire))
      BY <2>1, <2>3, <3>1 DEF SocketsOK, OnlyTheOwnerIsTold
    <3>2. CASE k \in Audience(Head(wire))
      <4>1. socket[k].state = "open" /\ socket[k].user = Head(wire).user
        BY <3>2 DEF SocketsOK, Audience
      <4>2. inbox'[k] = Append(inbox[k], Head(wire))
        BY <2>1, <3>2
      <4>3. \/ i \in DOMAIN inbox[k] /\ inbox'[k][i] = inbox[k][i]
            \/ inbox'[k][i] = Head(wire)
        BY <1>0, <2>2, <2>3, <4>2, Appended
      <4> QED BY <4>1, <4>3 DEF SocketsOK, OnlyTheOwnerIsTold
    <3> QED BY <3>1, <3>2
  <2>4. OnlyTheOwnerIsTold'
    BY <2>1, <2>3 DEF OnlyTheOwnerIsTold
  <2> QED BY <1>0, <2>1, <2>4 DEF SocketsOK
<1>7. CASE UNCHANGED socketVars
  BY <1>0, <1>7 DEF SocketsOK, OnlyTheOwnerIsTold, socketVars
<1>8. ASSUME NEW s \in Submissions, SubmissionStep(s) PROVE UNCHANGED socketVars
  BY <1>8 DEF SubmissionStep, Post, AnnouncePending, Start, Decide, AnnounceVerdict, Credit, GiveUp
<1>9. ASSUME NEW x \in Tasks, TaskStep(x) PROVE UNCHANGED socketVars
  BY <1>9 DEF TaskStep, SaveFollow, SaveAchievement, CreateActivity, SaveNotification,
     PublishNotification, TaskFails
<1>10. CASE OtherStep
  <2>1. ASSUME ~Relay, \A x \in Tasks : ~TaskStep(x),
               \A k \in Sockets : ~JoinRoom(k) /\ ~LeaveRoom(k) /\ ~Disconnect(k) /\ ~Verified(k)
                                  /\ \A handshake \in Handshakes : ~Connect(k, handshake)
        PROVE  UNCHANGED socketVars
    BY <1>10, <2>1 DEF OtherStep, FollowUser, Hear, UnfollowUser, MarkNotificationAsRead, vars
  <2> QED BY <1>2, <1>3, <1>4, <1>5, <1>6, <1>7, <1>9, <2>1
<1> QED BY <1>7, <1>8, <1>10 DEF Next, OtherStep, SubmissionStep

-----------------------------------------------------------------------------
(* Follows and awards: what the steps of a task change *)

AwardRow(x) == [user |-> task[x].user, of |-> x]
NoteRow(x) == [user |-> task[x].user, type |-> task[x].kind, of |-> x]

\* The task of x becomes t.
Becomes(x, t) ==
    /\ t \in Task /\ task' \in [Tasks -> Task]
    /\ \A y \in Tasks : task'[y] = IF y = x THEN t ELSE task[y]

\* A request comes in, or an ACCEPTED is heard.
Begun(x, t) ==
    /\ Becomes(x, t) /\ task[x] = Idle /\ t.step = "save"
    /\ x \in Requests => t.kind = "FOLLOW" /\ heard' = heard
    /\ x \in Submissions => /\ t.kind = "ACHIEVEMENT"
                            /\ t.actor = OwnerOf[x] /\ t.user = OwnerOf[x]
                            /\ Announced(x) /\ ~Earned(x) /\ ~Noted(x)
                            /\ heard # <<>> /\ heard' = Tail(heard)
                            /\ Worthy(Head(heard)) /\ Head(heard).submission = x
    /\ UNCHANGED <<earned, activities, notes, history>>

\* The task of x goes on as t, with one more row; ...
Continues(x, t) ==
    /\ Becomes(x, t) /\ heard' = heard
    /\ task[x] \in Task \ {Idle} /\ t # Idle
    /\ t.kind = task[x].kind /\ t.actor = task[x].actor /\ t.user = task[x].user

FollowSaved(x, t) ==
    /\ Continues(x, t) /\ task[x].step = "save" /\ t.step = "activity" /\ x \in Requests
    /\ inserts' = inserts + 1
    /\ UNCHANGED <<earned, activities, notes, failed>>

AwardSaved(x, t) ==
    /\ Continues(x, t) /\ task[x].step = "save" /\ t.step = "activity" /\ x \in Submissions
    /\ earned' = Append(earned, AwardRow(x))
    /\ UNCHANGED <<activities, notes, history>>

ActivitySaved(x, t) ==
    /\ Continues(x, t) /\ task[x].step = "activity" /\ t.step = "notify"
    /\ activities' = Append(activities, NewActivity(x))
    /\ UNCHANGED <<earned, notes, history>>

NoteSaved(x, t) ==
    /\ Continues(x, t) /\ task[x].step = "notify" /\ t.step = "publish"
    /\ t.note = Len(notes) + 1 /\ notes' = Append(notes, NoteRow(x))
    /\ UNCHANGED <<earned, activities, history>>

\* ... or it ends, because it is done or because it has failed.
Ended(x) ==
    /\ Becomes(x, Idle) /\ heard' = heard /\ task[x] # Idle
    /\ \/ task[x].step = "publish" /\ failed' = failed
       \/ failed' = failed \cup {x}
    /\ UNCHANGED <<earned, activities, notes, inserts>>

Quiet == UNCHANGED <<task, earned, activities, notes, history>>

LEMMA TaskGoesOn ==
    ASSUME Shapes, TasksOK, NEW x \in Tasks, TaskStep(x)
    PROVE  \/ Ended(x)
           \/ \E t : \/ FollowSaved(x, t) \/ AwardSaved(x, t)
                     \/ ActivitySaved(x, t) \/ NoteSaved(x, t)
<1> USE DEF Shapes
<1>0. task[x] \in Task /\ Idle \in Task
  BY DEF Task
<1>1. ASSUME NEW t \in Task, task' = [task EXCEPT ![x] = t] PROVE Becomes(x, t)
  BY <1>1 DEF Becomes
<1>2. ASSUME task[x].step \in {"save", "activity"}, NEW n \in {"activity", "notify"},
             Goto(x, n), heard' = heard
      PROVE  \E t : Continues(x, t) /\ t.step = n
  <2> PICK t : t = [task[x] EXCEPT !.step = n]
    OBVIOUS
  <2>1. task[x] # Idle /\ task[x] \in [step: {"save", "activity", "notify"}, kind: Kinds,
                                       actor: Users, user: Users]
    BY <1>0, <1>2 DEF Task, Idle
  <2>2. t \in [step: {"save", "activity", "notify"}, kind: Kinds, actor: Users, user: Users]
        /\ t.step = n /\ t.kind = task[x].kind /\ t.actor = task[x].actor
        /\ t.user = task[x].user
    BY <2>1
  <2>3. t \in Task /\ t # Idle
    BY <2>2 DEF Task, Idle
  <2>4. task' = [task EXCEPT ![x] = t]
    BY <1>2 DEF Goto
  <2> QED BY <1>0, <1>1, <1>2, <2>1, <2>2, <2>3, <2>4 DEF Continues
<1>3. ASSUME SaveFollow(x) PROVE \E t : FollowSaved(x, t)
  <2>1. task[x].step = "save" /\ task[x].kind = "FOLLOW" /\ Goto(x, "activity")
        /\ heard' = heard /\ inserts' = inserts + 1
        /\ UNCHANGED <<earned, activities, notes, failed>>
    BY <1>3 DEF SaveFollow, At
  <2>2. x \in Requests
    BY <2>1 DEF TasksOK, Tasks, Idle
  <2>3. PICK t : Continues(x, t) /\ t.step = "activity"
    BY <1>2, <2>1
  <2> QED BY <2>1, <2>2, <2>3 DEF FollowSaved
<1>4. ASSUME SaveAchievement(x) PROVE \E t : AwardSaved(x, t)
  <2>1. task[x].step = "save" /\ task[x].kind = "ACHIEVEMENT" /\ Goto(x, "activity")
        /\ heard' = heard /\ earned' = Append(earned, AwardRow(x))
        /\ UNCHANGED <<activities, notes, history>>
    BY <1>4 DEF SaveAchievement, At, AwardRow
  <2>2. x \in Submissions
    <3>1. task[x] # Idle
      BY <2>1 DEF Idle
    <3> QED BY <2>1, <3>1 DEF TasksOK, Tasks
  <2>3. PICK t : Continues(x, t) /\ t.step = "activity"
    BY <1>2, <2>1
  <2> QED BY <2>1, <2>2, <2>3 DEF AwardSaved
<1>5. ASSUME CreateActivity(x) PROVE \E t : ActivitySaved(x, t)
  <2>1. task[x].step = "activity" /\ Goto(x, "notify") /\ heard' = heard
        /\ activities' = Append(activities, NewActivity(x))
        /\ UNCHANGED <<earned, notes, history>>
    BY <1>5 DEF CreateActivity, At
  <2>2. PICK t : Continues(x, t) /\ t.step = "notify"
    BY <1>2, <2>1
  <2> QED BY <2>1, <2>2 DEF ActivitySaved
<1>6. ASSUME SaveNotification(x) PROVE \E t : NoteSaved(x, t)
  <2>1. task[x].step = "notify" /\ task[x] # Idle /\ notes' = Append(notes, NoteRow(x))
        /\ heard' = heard /\ UNCHANGED <<earned, activities, history>>
    BY <1>6 DEF SaveNotification, At, NoteRow, Idle
  <2> PICK t : t = [step |-> "publish", kind |-> task[x].kind, actor |-> task[x].actor,
                    user |-> task[x].user, note |-> Len(notes')]
    OBVIOUS
  <2>2. NoteRow(x) \in Notification
    BY <1>0, <2>1, TaskShape DEF NoteRow, Notification, Kinds
  <2>3. Len(notes') = Len(notes) + 1 /\ Len(notes') \in Nat
    BY <2>1, <2>2, Appended
  <2>4. t \in Task /\ t.step = "publish" /\ t # Idle /\ t.kind = task[x].kind
        /\ t.actor = task[x].actor /\ t.user = task[x].user /\ t.note = Len(notes) + 1
    BY <1>0, <2>1, <2>3, TaskShape DEF Task, Idle
  <2>5. task' = [task EXCEPT ![x] = t]
    BY <1>6 DEF SaveNotification
  <2> QED BY <1>0, <1>1, <2>1, <2>4, <2>5 DEF NoteSaved, Continues
<1>7. ASSUME PublishNotification(x) \/ TaskFails(x) PROVE Ended(x)
  BY <1>0, <1>1, <1>7 DEF PublishNotification, TaskFails, At, Ended, Idle, history
<1> QED BY <1>3, <1>4, <1>5, <1>6, <1>7 DEF TaskStep

LEMMA RequestBegins ==
    ASSUME Shapes, NEW r \in Requests, NEW pair \in Wanted, FollowUser(r, pair)
    PROVE  \E t : Begun(r, t)
<1> PICK t : t = [step |-> "save", kind |-> "FOLLOW", actor |-> pair[1], user |-> pair[2]]
  OBVIOUS
<1>1. pair[1] \in Users /\ pair[2] \in Users /\ r \in Tasks /\ r \notin Submissions
  BY Settings DEF Tasks
<1>2. t \in Task /\ t.step = "save" /\ t.kind = "FOLLOW"
  BY <1>1 DEF Task, Kinds
<1>3. task' = [task EXCEPT ![r] = t] /\ task[r] = Idle /\ heard' = heard
      /\ UNCHANGED <<earned, activities, notes, history>>
  BY DEF FollowUser
<1> QED BY <1>1, <1>2, <1>3 DEF Begun, Becomes, Shapes

\* The message that an award begins with was true when it was heard, and it
\* was the only one of its submission.
LEMMA HearBegins ==
    ASSUME Shapes, MessagesAreTrue, AwardsOK, Hear
    PROVE  /\ heard # <<>> /\ heard' = Tail(heard)
           /\ \/ Quiet
              \/ \E t : /\ Begun(Head(heard).submission, t) /\ Worthy(Head(heard))
                        /\ Head(heard).submission \in Submissions
<1> PICK m : m = Head(heard)
  OBVIOUS
<1>1. heard # <<>> /\ heard' = Tail(heard) /\ UNCHANGED <<earned, activities, notes, history>>
  BY DEF Hear
<1>2. m \in StatusMsg /\ m \in TrueMsg /\ m = heard[1] /\ 1 \in DOMAIN heard
  BY <1>1, Tailed DEF Shapes, MessagesAreTrue
<1>3. CASE ~Worthy(m)
  BY <1>1, <1>3 DEF Hear, Quiet
<1>4. CASE Worthy(m)
  <2> PICK s : s = m.submission
    OBVIOUS
  <2> PICK t : t = [step |-> "save", kind |-> "ACHIEVEMENT", actor |-> m.user, user |-> m.user]
    OBVIOUS
  <2>1. s \in Submissions /\ s \in Tasks /\ m.status = "ACCEPTED" /\ m.kind = "status"
    BY <1>2, <1>4 DEF StatusMsg, Worthy, Tasks
  <2>2. /\ status[s] \in {"ACCEPTED", "INTERNAL_ERROR"} /\ s \notin untold
        /\ m.user = OwnerOf[s]
    BY <1>2, <2>1, Settings DEF TrueMsg, IsTrue
  <2>3. task[s] = Idle /\ ~Earned(s)
    BY <1>2, <1>4 DEF AwardsOK, HeardOnce, Unawarded
  <2>4. ~Noted(s)
    BY <2>1, <2>3 DEF AwardsOK, AwardsInOrder, AwardInOrder
  <2>5. t \in Task /\ t.step = "save" /\ t.kind = "ACHIEVEMENT"
        /\ t.actor = OwnerOf[s] /\ t.user = OwnerOf[s]
    <3>1. OwnerOf[s] \in Users
      BY <2>1, Settings
    <3> QED BY <2>2, <3>1 DEF Task, Kinds
  <2>6. task' = [task EXCEPT ![s] = t]
    BY <1>4 DEF Hear
  <2>7. Becomes(s, t)
    BY <2>1, <2>5, <2>6 DEF Becomes, Shapes
  <2>8. s \notin Requests
    BY <2>1, Settings
  <2>9. Begun(s, t)
    BY <1>1, <1>4, <2>2, <2>3, <2>4, <2>5, <2>7, <2>8 DEF Begun, Announced
  <2> QED BY <1>1, <1>4, <2>1, <2>9
<1> QED BY <1>1, <1>3, <1>4

\* What a step does to the tasks and to the tables.
Step(x) ==
    \/ Ended(x)
    \/ \E t : \/ Begun(x, t) \/ FollowSaved(x, t) \/ AwardSaved(x, t)
              \/ ActivitySaved(x, t) \/ NoteSaved(x, t)

LEMMA SocialStep ==
    ASSUME Shapes, RowsOK, MessagesAreTrue, TasksOK, AwardsOK, [Next]_vars
    PROVE  Quiet \/ \E x \in Tasks : Step(x)
<1>1. CASE Hear
  BY <1>1, HearBegins DEF Step, Tasks
<1>2. ASSUME NEW s \in Submissions, SubmissionStep(s) PROVE Quiet
  BY <1>2, Published DEF Quiet, socialVars
<1>3. ASSUME OtherStep, ~Hear, \A x \in Tasks : ~TaskStep(x),
             \A r \in Requests, pair \in Wanted : ~FollowUser(r, pair)
      PROVE  Quiet
  BY <1>3 DEF OtherStep, UnfollowUser, MarkNotificationAsRead, Quiet, vars, socialVars,
     Connect, Verified, JoinRoom, LeaveRoom, Disconnect, Relay
<1>4. ASSUME NEW r \in Requests, NEW pair \in Wanted, FollowUser(r, pair)
      PROVE  \E x \in Tasks : Step(x)
  <2>1. r \in Tasks
    BY DEF Tasks
  <2> QED BY <1>4, <2>1, RequestBegins DEF Step
<1>5. ASSUME NEW x \in Tasks, TaskStep(x) PROVE Step(x)
  BY <1>5, TaskGoesOn DEF Step
<1> QED BY <1>1, <1>2, <1>3, <1>4, <1>5 DEF Next, OtherStep, SubmissionStep

-----------------------------------------------------------------------------
(* The inductive invariant: tasks and tables *)

LEMMA StepKeepsTasks ==
    ASSUME Shapes, RowsOK, MessagesAreTrue, TasksOK, AwardsOK, [Next]_vars
    PROVE  TasksOK' /\ task' \in [Tasks -> Task]
<1> DEFINE Due(y, t, N) ==
      t # Idle =>
        /\ y \in Requests => t.kind = "FOLLOW"
        /\ y \in Submissions => t.kind = "ACHIEVEMENT" /\ t.actor = OwnerOf[y]
                                /\ t.user = OwnerOf[y]
        /\ t.step = "publish" => t.note \in DOMAIN N /\ N[t.note].user = t.user
<1>1. \A y \in Tasks : Due(y, task[y], notes')
  BY NotesGrow DEF TasksOK
<1>2. CASE Quiet
  BY <1>1, <1>2 DEF Quiet, TasksOK, Shapes
<1>3. ASSUME NEW x \in Tasks, Step(x)
      PROVE  \E t : Becomes(x, t) /\ Due(x, t, notes')
  <2>1. CASE Ended(x)
    BY <2>1 DEF Ended
  <2>2. ASSUME NEW t, Begun(x, t) PROVE Due(x, t, notes')
    BY <2>2 DEF Begun
  <2>3. ASSUME NEW t, FollowSaved(x, t) \/ AwardSaved(x, t) \/ ActivitySaved(x, t)
        PROVE  Due(x, t, notes')
    BY <1>1, <2>3 DEF FollowSaved, AwardSaved, ActivitySaved, Continues
  <2>4. ASSUME NEW t, NoteSaved(x, t) PROVE Due(x, t, notes')
    <3>1. NoteRow(x) \in Notification /\ NoteRow(x).user = t.user
      BY <2>4, TaskShape DEF NoteSaved, Continues, NoteRow, Notification, Kinds
    <3>2. t.note \in DOMAIN notes' /\ notes'[t.note] = NoteRow(x)
      BY <2>4, <3>1, Appended DEF NoteSaved, Shapes
    <3> QED BY <1>1, <2>4, <3>1, <3>2 DEF NoteSaved, Continues
  <2> HIDE DEF Due
  <2> QED BY <1>3, <2>1, <2>2, <2>3, <2>4
     DEF Step, Begun, FollowSaved, AwardSaved, ActivitySaved, NoteSaved, Continues
<1>4. ASSUME NEW x \in Tasks, Step(x) PROVE TasksOK' /\ task' \in [Tasks -> Task]
  <2>1. PICK t : Becomes(x, t) /\ Due(x, t, notes')
    BY <1>3, <1>4
  <2>2. \A y \in Tasks : task'[y] = task[y] \/ (y = x /\ task'[y] = t)
    BY <2>1 DEF Becomes
  <2>3. \A y \in Tasks : Due(y, task'[y], notes')
    BY <1>1, <2>1, <2>2
  <2> QED BY <2>1, <2>3 DEF Becomes, TasksOK
<1> QED BY <1>2, <1>4, SocialStep

\* The steps of an award leave its rows, each once and in their order.
LEMMA StepKeepsRows ==
    ASSUME Shapes, RowsOK, MessagesAreTrue, TasksOK, AwardsOK, [Next]_vars
    PROVE  /\ RowsOfAwards'
           /\ earned' \in Seq(Achievement) /\ activities' \in Seq(Activity) /\ inserts' \in Nat
<1> DEFINE Goal == /\ RowsOfAwards' /\ earned' \in Seq(Achievement)
                   /\ activities' \in Seq(Activity) /\ inserts' \in Nat
<1>1. ASSUME UNCHANGED <<earned, activities, notes>>, inserts' \in {inserts, inserts + 1}
      PROVE  Goal
  BY <1>1 DEF AwardsOK, RowsOfAwards, Shapes
<1>2. ASSUME NEW x \in Tasks, NEW t, AwardSaved(x, t) PROVE Goal
  <2>1. x \in Submissions /\ task[x] \in Task \ {Idle} /\ task[x].step = "save"
        /\ earned' = Append(earned, AwardRow(x)) /\ UNCHANGED <<activities, notes, history>>
    BY <1>2 DEF AwardSaved, Continues
  <2>2. task[x].user = OwnerOf[x] /\ OwnerOf[x] \in Users
    BY <2>1, Settings DEF TasksOK
  <2>3. AwardRow(x) \in Achievement /\ AwardRow(x).of = x /\ AwardRow(x).user = OwnerOf[x]
    BY <2>2 DEF AwardRow, Achievement
  <2>4. \A i \in DOMAIN earned : earned[i].of # x
    BY <2>1 DEF AwardsOK, AwardsInOrder, AwardInOrder, Earned
  <2>5. /\ earned' \in Seq(Achievement) /\ DOMAIN earned' = DOMAIN earned \cup {Len(earned) + 1}
        /\ earned'[Len(earned) + 1] = AwardRow(x)
        /\ \A i \in DOMAIN earned : earned'[i] = earned[i]
    BY <2>1, <2>3, Appended DEF Shapes
  <2>6. \A i \in DOMAIN earned' :
           /\ earned'[i].of \in Submissions /\ earned'[i].user = OwnerOf[earned'[i].of]
           /\ \A j \in DOMAIN earned' : earned'[i].of = earned'[j].of => i = j
    BY <2>1, <2>3, <2>4, <2>5 DEF AwardsOK, RowsOfAwards
  <2>7. RowsOfAwards'
    BY <2>1, <2>6 DEF AwardsOK, RowsOfAwards
  <2> QED BY <2>1, <2>5, <2>7 DEF Shapes, history
<1>3. ASSUME NEW x \in Tasks, NEW t, ActivitySaved(x, t) PROVE Goal
  <2>1. task[x] \in Task \ {Idle} /\ activities' = Append(activities, NewActivity(x))
        /\ UNCHANGED <<earned, notes, history>>
    BY <1>3 DEF ActivitySaved, Continues
  <2>2. NewActivity(x) \in Activity
    BY <2>1, TaskShape DEF NewActivity, Activity
  <2>3. activities' \in Seq(Activity)
    BY <2>1, <2>2, Appended DEF Shapes
  <2> QED BY <2>1, <2>3 DEF AwardsOK, RowsOfAwards, Shapes, history
<1>4. ASSUME NEW x \in Tasks, NEW t, NoteSaved(x, t) PROVE Goal
  <2>1. task[x] \in Task \ {Idle} /\ task[x].step = "notify"
        /\ notes' = Append(notes, NoteRow(x)) /\ UNCHANGED <<earned, activities, history>>
    BY <1>4 DEF NoteSaved, Continues
  <2>2. NoteRow(x) \in Notification /\ NoteRow(x).of = x /\ NoteRow(x).type = task[x].kind
        /\ NoteRow(x).user = task[x].user
    BY <2>1, TaskShape DEF NoteRow, Notification, Kinds
  <2>3. NoteRow(x).type = "ACHIEVEMENT" =>
            /\ x \in Submissions /\ NoteRow(x).user = OwnerOf[x]
            /\ \A n \in DOMAIN notes : ~(notes[n].type = "ACHIEVEMENT" /\ notes[n].of = x)
    <3>1. x \in Requests => NoteRow(x).type = "FOLLOW"
      BY <2>1, <2>2 DEF TasksOK
    <3>2. x \in Submissions => NoteRow(x).user = OwnerOf[x] /\ ~Noted(x)
      BY <2>1, <2>2 DEF TasksOK, AwardsOK, AwardsInOrder, AwardInOrder
    <3> QED BY <3>1, <3>2 DEF Tasks, Noted
  <2>4. /\ DOMAIN notes' = DOMAIN notes \cup {Len(notes) + 1}
        /\ notes'[Len(notes) + 1] = NoteRow(x)
        /\ \A n \in DOMAIN notes : notes'[n] = notes[n]
    BY <2>1, <2>2, Appended DEF Shapes
  <2>5. \A n \in DOMAIN notes' : notes'[n].type = "ACHIEVEMENT" =>
           /\ notes'[n].of \in Submissions /\ notes'[n].user = OwnerOf[notes'[n].of]
           /\ \A o \in DOMAIN notes' :
                  (notes'[o].type = "ACHIEVEMENT" /\ notes'[n].of = notes'[o].of) => n = o
    BY <2>2, <2>3, <2>4 DEF AwardsOK, RowsOfAwards
  <2>6. RowsOfAwards'
    BY <2>1, <2>5 DEF AwardsOK, RowsOfAwards
  <2> QED BY <2>1, <2>6 DEF Shapes, history
<1>5. ASSUME NEW x \in Tasks, Step(x) PROVE Goal
  BY <1>1, <1>2, <1>3, <1>4, <1>5 DEF Step, Ended, Begun, FollowSaved, history
<1> QED BY <1>1, <1>5, SocialStep DEF Quiet, history

\* What a step leaves of the rows of a submission.
LEMMA AwardsGrow ==
    ASSUME Shapes, RowsOK, TasksOK, AwardsOK, [Next]_vars,
           NEW x \in Tasks, Step(x), NEW s \in Submissions
    PROVE  /\ Announced(s) => Announced(s)'
           /\ Earned(s)' <=> Earned(s) \/ (s = x /\ \E t : AwardSaved(x, t))
           /\ Noted(s)' <=> Noted(s) \/ (s = x /\ \E t : NoteSaved(x, t))
           /\ Shown(s)' <=> Shown(s) \/ (s = x /\ \E t : ActivitySaved(x, t))
<1>1. Announced(s) => Announced(s)'
  BY StepMovesForward, Settings DEF Announced, RowsForward, Forward, Settled
<1>2. ASSUME NEW t, AwardSaved(x, t)
      PROVE  (Earned(s)' <=> Earned(s) \/ s = x) /\ UNCHANGED <<notes, activities>>
  <2>1. task[x] \in Task \ {Idle} /\ earned' = Append(earned, AwardRow(x))
        /\ UNCHANGED <<activities, notes>>
    BY <1>2 DEF AwardSaved, Continues
  <2>2. AwardRow(x) \in Achievement /\ AwardRow(x).of = x
    BY <2>1, TaskShape DEF AwardRow, Achievement
  <2>3. /\ DOMAIN earned' = DOMAIN earned \cup {Len(earned) + 1}
        /\ earned'[Len(earned) + 1] = AwardRow(x)
        /\ \A i \in DOMAIN earned : earned'[i] = earned[i]
    BY <2>1, <2>2, Appended DEF Shapes
  <2> QED BY <2>1, <2>2, <2>3 DEF Earned
<1>3. ASSUME NEW t, ActivitySaved(x, t)
      PROVE  (Shown(s)' <=> Shown(s) \/ s = x) /\ UNCHANGED <<notes, earned>>
  <2>1. task[x] \in Task \ {Idle} /\ activities' = Append(activities, NewActivity(x))
        /\ UNCHANGED <<earned, notes>>
    BY <1>3 DEF ActivitySaved, Continues
  <2>2. NewActivity(x) \in Activity /\ NewActivity(x).of = x
        /\ NewActivity(x).user = task[x].actor
    BY <2>1, TaskShape DEF NewActivity, Activity
  <2>3. /\ DOMAIN activities' = DOMAIN activities \cup {Len(activities) + 1}
        /\ activities'[Len(activities) + 1] = NewActivity(x)
        /\ \A i \in DOMAIN activities : activities'[i] = activities[i]
    BY <2>1, <2>2, Appended DEF Shapes
  <2>4. s = x => task[x].actor = OwnerOf[s]
    BY <2>1 DEF TasksOK
  <2> QED BY <2>1, <2>2, <2>3, <2>4 DEF Shown
<1>4. ASSUME NEW t, NoteSaved(x, t)
      PROVE  (Noted(s)' <=> Noted(s) \/ s = x) /\ UNCHANGED <<activities, earned>>
  <2>1. task[x] \in Task \ {Idle} /\ notes' = Append(notes, NoteRow(x))
        /\ UNCHANGED <<earned, activities>>
    BY <1>4 DEF NoteSaved, Continues
  <2>2. NoteRow(x) \in Notification /\ NoteRow(x).of = x /\ NoteRow(x).type = task[x].kind
    BY <2>1, TaskShape DEF NoteRow, Notification, Kinds
  <2>3. /\ DOMAIN notes' = DOMAIN notes \cup {Len(notes) + 1}
        /\ notes'[Len(notes) + 1] = NoteRow(x)
        /\ \A n \in DOMAIN notes : notes'[n] = notes[n]
    BY <2>1, <2>2, Appended DEF Shapes
  <2>4. s = x => task[x].kind = "ACHIEVEMENT"
    BY <2>1 DEF TasksOK
  <2> QED BY <2>1, <2>2, <2>3, <2>4 DEF Noted
<1>5. ASSUME UNCHANGED <<earned, notes, activities>>
      PROVE  (Earned(s)' <=> Earned(s)) /\ (Noted(s)' <=> Noted(s)) /\ (Shown(s)' <=> Shown(s))
  BY <1>5 DEF Earned, Noted, Shown
<1>6. \/ \E t : AwardSaved(x, t) \/ ActivitySaved(x, t) \/ NoteSaved(x, t)
      \/ UNCHANGED <<earned, notes, activities>>
  BY DEF Step, Ended, Begun, FollowSaved
<1>7. /\ UNCHANGED notes => (Noted(s)' <=> Noted(s))
      /\ UNCHANGED earned => (Earned(s)' <=> Earned(s))
      /\ UNCHANGED activities => (Shown(s)' <=> Shown(s))
  BY DEF Earned, Noted, Shown
<1>8. \A t, u : /\ ~(AwardSaved(x, t) /\ (ActivitySaved(x, u) \/ NoteSaved(x, u)))
                /\ ~(ActivitySaved(x, t) /\ NoteSaved(x, u))
  BY DEF AwardSaved, ActivitySaved, NoteSaved
<1>9. UNCHANGED <<earned, notes, activities>> =>
          ~ \E t : AwardSaved(x, t) \/ ActivitySaved(x, t) \/ NoteSaved(x, t)
  <2>1. \A t : /\ AwardSaved(x, t) => earned' = Append(earned, AwardRow(x))
               /\ ActivitySaved(x, t) => activities' = Append(activities, NewActivity(x))
               /\ NoteSaved(x, t) => notes' = Append(notes, NoteRow(x))
    BY DEF AwardSaved, ActivitySaved, NoteSaved
  <2>2. ASSUME NEW S, NEW q \in Seq(S), NEW e PROVE Append(q, e) # q
    OBVIOUS
  <2> QED BY <2>1, <2>2 DEF Shapes
<1> QED BY <1>1, <1>2, <1>3, <1>4, <1>5, <1>6, <1>7, <1>8, <1>9

LEMMA StepKeepsAwardOrder ==
    ASSUME Shapes, RowsOK, MessagesAreTrue, TasksOK, AwardsOK, [Next]_vars
    PROVE  AwardsInOrder'
<1>1. CASE Quiet
  <2>1. \A s \in Submissions : Announced(s) => Announced(s)'
    BY StepMovesForward, Settings DEF Announced, RowsForward, Forward, Settled
  <2> QED BY <1>1, <2>1
     DEF Quiet, AwardsOK, AwardsInOrder, AwardInOrder, Earned, Noted, Shown, history
<1>2. ASSUME NEW x \in Tasks, Step(x), NEW s \in Submissions
      PROVE  AwardInOrder(s)'
  <2>0. /\ task[s] # Idle \/ Earned(s) => Announced(s)
        /\ task[s].step = "save" => ~Earned(s)
        /\ task[s].step \in {"activity", "notify", "publish"} => Earned(s)
        /\ task[s].step \in {"save", "activity", "notify"} => ~Noted(s)
        /\ task[s].step = "notify" => Shown(s)
        /\ Noted(s) => Earned(s) /\ Shown(s)
        /\ Earned(s) => s \in failed \/ task[s].step \in {"activity", "notify"} \/ Noted(s)
    BY DEF AwardsOK, AwardsInOrder, AwardInOrder
  <2>1. s \in Tasks /\ s \notin Requests /\ Idle.step = "idle"
    BY Settings DEF Tasks, Idle
  <2>2. failed \subseteq failed'
    BY <1>2 DEF Step, Ended, Begun, FollowSaved, AwardSaved, ActivitySaved, NoteSaved, history
  <2>3. CASE s # x
    <3>1. task'[s] = task[s]
      BY <1>2, <2>1, <2>3 DEF Step, Ended, Begun, FollowSaved, AwardSaved, ActivitySaved,
         NoteSaved, Continues, Becomes
    <3> QED BY <1>2, <2>0, <2>2, <2>3, <3>1, AwardsGrow DEF AwardInOrder
  <2>4. CASE s = x /\ Ended(x)
    <3>1. task'[s] = Idle /\ UNCHANGED <<earned, activities, notes>> /\ task[s] # Idle
          /\ (task[s].step = "publish" \/ s \in failed')
      BY <2>1, <2>4 DEF Ended, Becomes
    <3>2. /\ (Noted(s)' <=> Noted(s)) /\ (Earned(s)' <=> Earned(s)) /\ (Shown(s)' <=> Shown(s))
      BY <3>1 DEF Earned, Noted, Shown
    <3> QED BY <1>2, <2>0, <2>1, <2>2, <3>1, <3>2, AwardsGrow DEF AwardInOrder
  <2>5. ASSUME s = x, NEW t, Begun(x, t) PROVE AwardInOrder(s)'
    <3>1. task'[s] = t /\ t.step = "save" /\ UNCHANGED <<earned, activities, notes>>
          /\ Announced(s) /\ ~Earned(s) /\ ~Noted(s)
      BY <2>1, <2>5 DEF Begun, Becomes
    <3>2. /\ (Noted(s)' <=> Noted(s)) /\ (Earned(s)' <=> Earned(s)) /\ (Shown(s)' <=> Shown(s))
      BY <3>1 DEF Earned, Noted, Shown
    <3> QED BY <1>2, <2>0, <2>1, <2>2, <3>1, <3>2, AwardsGrow DEF AwardInOrder
  <2>6. ASSUME s = x, NEW t, AwardSaved(x, t) PROVE AwardInOrder(s)'
    <3>1. task'[s] = t /\ t.step = "activity" /\ task[s] # Idle /\ task[s].step = "save"
      BY <2>1, <2>6 DEF AwardSaved, Continues, Becomes
    <3>2. \A u : ~NoteSaved(x, u)
      BY <2>6 DEF AwardSaved, NoteSaved
    <3> QED BY <1>2, <2>0, <2>1, <2>2, <2>6, <3>1, <3>2, AwardsGrow DEF AwardInOrder
  <2>7. ASSUME s = x, NEW t, ActivitySaved(x, t) PROVE AwardInOrder(s)'
    <3>1. task'[s] = t /\ t.step = "notify" /\ task[s] # Idle /\ task[s].step = "activity"
      BY <2>1, <2>7 DEF ActivitySaved, Continues, Becomes
    <3>2. \A u : ~NoteSaved(x, u)
      BY <2>7 DEF ActivitySaved, NoteSaved
    <3> QED BY <1>2, <2>0, <2>1, <2>2, <2>7, <3>1, <3>2, AwardsGrow DEF AwardInOrder
  <2>8. ASSUME s = x, NEW t, NoteSaved(x, t) PROVE AwardInOrder(s)'
    <3>1. task'[s] = t /\ t.step = "publish" /\ task[s] # Idle /\ task[s].step = "notify"
      BY <2>1, <2>8 DEF NoteSaved, Continues, Becomes
    <3> QED BY <1>2, <2>0, <2>1, <2>2, <2>8, <3>1, AwardsGrow DEF AwardInOrder
  <2>9. ASSUME s = x, NEW t, FollowSaved(x, t) PROVE FALSE
    BY <2>1, <2>9 DEF FollowSaved
  <2> QED BY <1>2, <2>3, <2>4, <2>5, <2>6, <2>7, <2>8, <2>9 DEF Step
<1>3. ASSUME NEW x \in Tasks, Step(x) PROVE AwardsInOrder'
  BY <1>2, <1>3 DEF AwardsInOrder
<1> QED BY <1>1, <1>3, SocialStep

\* A submission whose ACCEPTED has yet to be handled is left alone by every
\* step but the one that handles it.
LEMMA StepKeepsHeardOnce ==
    ASSUME Shapes, RowsOK, MessagesAreTrue, TasksOK, AwardsOK, [Next]_vars
    PROVE  HeardOnce'
<1>0. /\ \A i \in DOMAIN heard : heard[i] \in StatusMsg /\ heard[i] \in TrueMsg
      /\ \A i \in DOMAIN heard : Worthy(heard[i]) =>
             /\ heard[i].submission \in Unawarded
             /\ \A j \in DOMAIN heard :
                    Worthy(heard[j]) /\ heard[j].submission = heard[i].submission => i = j
  BY Members DEF Shapes, MessagesAreTrue, AwardsOK, HeardOnce
<1>1. ASSUME heard' = heard,
             \A i \in DOMAIN heard : Worthy(heard[i]) => heard[i].submission \in Unawarded'
      PROVE  HeardOnce'
  BY <1>0, <1>1 DEF HeardOnce, Worthy
<1>2. ASSUME heard # <<>>, heard' = Tail(heard),
             \A i \in DOMAIN heard : i # 1 /\ Worthy(heard[i]) => heard[i].submission \in Unawarded'
      PROVE  HeardOnce'
  <2>1. \A i \in DOMAIN heard' : /\ i \in Nat /\ 1 < i + 1 /\ i + 1 \in DOMAIN heard
                                 /\ heard'[i] = heard[i + 1]
    BY <1>2, Tailed DEF Shapes
  <2>2. ASSUME NEW i \in DOMAIN heard', Worthy(heard'[i])
        PROVE  /\ heard'[i].submission \in Unawarded'
               /\ \A j \in DOMAIN heard' :
                      Worthy(heard'[j]) /\ heard'[j].submission = heard'[i].submission => i = j
    <3>1. i + 1 \in DOMAIN heard /\ i + 1 # 1 /\ heard'[i] = heard[i + 1]
      BY <2>1
    <3>2. heard'[i].submission \in Unawarded'
      BY <1>2, <2>2, <3>1
    <3>3. ASSUME NEW j \in DOMAIN heard', Worthy(heard'[j]),
                 heard'[j].submission = heard'[i].submission
          PROVE  i = j
      <4>1. i + 1 = j + 1
        BY <1>0, <2>1, <2>2, <3>1, <3>3
      <4> QED BY <2>1, <4>1
    <3> QED BY <3>2, <3>3
  <2> QED BY <2>2 DEF HeardOnce, Worthy
<1>3. CASE Quiet
  <2>1. Unawarded' = Unawarded
    BY <1>3 DEF Quiet, Unawarded, Earned
  <2>2. CASE Hear
    BY <1>0, <1>2, <2>1, <2>2 DEF Hear
  <2>3. CASE heard' = heard
    BY <1>0, <1>1, <2>1, <2>3
  <2>4. ASSUME NEW m \in StatusMsg, heard' = Append(heard, m),
               Worthy(m) => m.submission \in untold
        PROVE  HeardOnce'
    <3>1. /\ DOMAIN heard' = DOMAIN heard \cup {Len(heard) + 1}
          /\ heard'[Len(heard) + 1] = m
          /\ \A i \in DOMAIN heard : heard'[i] = heard[i]
      BY <2>4, Appended DEF Shapes
    <3>2. ASSUME Worthy(m)
          PROVE  /\ m.submission \in Unawarded'
                 /\ \A i \in DOMAIN heard :
                        ~(Worthy(heard[i]) /\ heard[i].submission = m.submission)
      <4>1. m.submission \in Submissions /\ m.submission \in untold
        BY <2>4, <3>2 DEF StatusMsg
      <4>2. ~Announced(m.submission)
        BY <4>1 DEF Announced
      <4>3. m.submission \in Unawarded
        BY <4>1, <4>2 DEF AwardsOK, AwardsInOrder, AwardInOrder, Unawarded
      <4>4. ASSUME NEW i \in DOMAIN heard, Worthy(heard[i])
            PROVE  heard[i].submission \notin untold
        BY <1>0, <4>4, Settings DEF StatusMsg, Worthy, TrueMsg, IsTrue
      <4> QED BY <2>1, <4>1, <4>3, <4>4
    <3>3. ASSUME NEW i \in DOMAIN heard', Worthy(heard'[i])
          PROVE  /\ heard'[i].submission \in Unawarded'
                 /\ \A j \in DOMAIN heard' :
                      Worthy(heard'[j]) /\ heard'[j].submission = heard'[i].submission => i = j
      <4>1. CASE i \in DOMAIN heard
        BY <1>0, <2>1, <3>1, <3>2, <3>3, <4>1
      <4>2. CASE i = Len(heard) + 1
        BY <3>1, <3>2, <3>3, <4>2
      <4> QED BY <3>1, <4>1, <4>2
    <3> QED BY <3>3 DEF HeardOnce, Worthy
  <2> QED BY <2>2, <2>3, <2>4, StepKeepsHeard
<1>4. ASSUME NEW x \in Tasks, Step(x) PROVE HeardOnce'
  <2>1. ASSUME NEW s \in Unawarded, s # x PROVE s \in Unawarded'
    <3>1. s \in Tasks /\ task'[s] = task[s] /\ s \in Submissions
      BY <1>4, <2>1 DEF Unawarded, Tasks, Step, Ended, Begun, FollowSaved, AwardSaved, ActivitySaved,
         NoteSaved, Continues, Becomes
    <3> QED BY <1>4, <2>1, <3>1, AwardsGrow DEF Unawarded
  <2>2. \A i \in DOMAIN heard : heard[i].submission \in Submissions
    BY <1>0 DEF StatusMsg
  <2>3. ASSUME NEW t, Begun(x, t), x \in Submissions
        PROVE  HeardOnce'
    <3>1. heard # <<>> /\ heard' = Tail(heard) /\ Worthy(Head(heard))
          /\ Head(heard).submission = x /\ 1 \in DOMAIN heard /\ Head(heard) = heard[1]
      BY <2>3, Tailed DEF Begun, Shapes
    <3>2. \A i \in DOMAIN heard : i # 1 /\ Worthy(heard[i]) => heard[i].submission # x
      BY <1>0, <3>1
    <3> QED BY <1>0, <1>2, <2>1, <2>2, <3>1, <3>2
  <2>4. ASSUME heard' = heard, x \in Requests \/ task[x] # Idle
        PROVE  HeardOnce'
    <3>1. \A i \in DOMAIN heard : Worthy(heard[i]) => heard[i].submission # x
      BY <1>0, <2>2, <2>4, Settings DEF Unawarded
    <3> QED BY <1>0, <1>1, <2>1, <2>2, <2>4, <3>1
  <2> QED BY <1>4, <2>3, <2>4
     DEF Step, Ended, Begun, FollowSaved, AwardSaved, ActivitySaved, NoteSaved, Continues, Tasks
<1> QED BY <1>3, <1>4, SocialStep

LEMMA NotesAreFinite ==
    ASSUME Shapes
    PROVE  IsFiniteSet(FollowNotes) /\ IsFiniteSet(DOMAIN notes)
<1>1. notes \in Seq(Notification) /\ DOMAIN notes = 1 .. Len(notes) /\ Len(notes) \in Nat
  BY DEF Shapes
<1>2. IsFiniteSet(1 .. Len(notes))
  BY <1>1, FS_Interval
<1>3. FollowNotes \subseteq DOMAIN notes
  BY DEF FollowNotes
<1> QED BY <1>1, <1>2, <1>3, FS_Subset

\* What is being followed and not yet told, and what is told, add up.
LEMMA StepKeepsFollows ==
    ASSUME Shapes, RowsOK, MessagesAreTrue, TasksOK, AwardsOK, FollowsCounted, [Next]_vars
    PROVE  FollowsCounted'
<1> DEFINE N == Cardinality(FollowNotes)
           F == Cardinality(Following)
<1>0. N \in Nat /\ F \in Nat /\ inserts \in Nat /\ IsFiniteSet(Following)
      /\ N + F <= inserts /\ (failed = {} => N + F = inserts)
  BY NotesAreFinite, FS_CardinalityType DEF FollowsCounted, Shapes
<1>1. CASE Quiet
  BY <1>1 DEF Quiet, FollowsCounted, FollowNotes, Following, history
<1>2. ASSUME NEW x \in Tasks, NEW t, Becomes(x, t)
      PROVE  /\ \A r \in Requests \ {x} : r \in Following' <=> r \in Following
             /\ x \in Requests => (x \in Following' <=> t.step \in {"activity", "notify"})
             /\ x \in Requests => (x \in Following <=> task[x].step \in {"activity", "notify"})
             /\ Following' \subseteq Requests /\ Following \subseteq Requests
  BY <1>2 DEF Becomes, Following, Tasks
<1>3. UNCHANGED notes => FollowNotes' = FollowNotes
  BY DEF FollowNotes
<1>4. ASSUME NEW x \in Tasks, NEW t, Becomes(x, t), UNCHANGED <<notes, history>>,
             x \in Requests => (t.step \in {"activity", "notify"}
                                <=> task[x].step \in {"activity", "notify"})
      PROVE  FollowsCounted'
  <2>1. Following' = Following
    BY <1>2, <1>4
  <2> QED BY <1>3, <1>4, <2>1 DEF FollowsCounted, history
<1>5. ASSUME NEW x \in Tasks, NEW t, Begun(x, t) \/ AwardSaved(x, t) \/ ActivitySaved(x, t)
      PROVE  FollowsCounted'
  <2>1. Becomes(x, t) /\ UNCHANGED <<notes, history>>
    BY <1>5 DEF Begun, AwardSaved, ActivitySaved, Continues
  <2>2. x \in Requests => (t.step \in {"activity", "notify"}
                           <=> task[x].step \in {"activity", "notify"})
    BY <1>5, Settings DEF Begun, AwardSaved, ActivitySaved, Idle
  <2> QED BY <1>4, <2>1, <2>2
<1>6. ASSUME NEW x \in Tasks, NEW t, FollowSaved(x, t) PROVE FollowsCounted'
  <2>1. Becomes(x, t) /\ x \in Requests /\ inserts' = inserts + 1
        /\ task[x].step = "save" /\ t.step = "activity" /\ UNCHANGED <<notes, failed>>
    BY <1>6 DEF FollowSaved, Continues
  <2>2. Following' = Following \cup {x} /\ x \notin Following
    BY <1>2, <2>1
  <2>3. IsFiniteSet(Following') /\ Cardinality(Following') = F + 1
    BY <1>0, <2>2, FS_AddElement
  <2> QED BY <1>0, <1>3, <2>1, <2>3 DEF FollowsCounted
<1>7. ASSUME NEW x \in Tasks, NEW t, NoteSaved(x, t) PROVE FollowsCounted'
  <2>1. Becomes(x, t) /\ task[x].step = "notify" /\ t.step = "publish"
        /\ task[x] \in Task \ {Idle} /\ notes' = Append(notes, NoteRow(x)) /\ UNCHANGED history
    BY <1>7 DEF NoteSaved, Continues
  <2>2. NoteRow(x) \in Notification /\ NoteRow(x).type = task[x].kind
    BY <2>1, TaskShape DEF NoteRow, Notification, Kinds
  <2>3. /\ DOMAIN notes' = DOMAIN notes \cup {Len(notes) + 1} /\ Len(notes) + 1 \notin DOMAIN notes
        /\ notes'[Len(notes) + 1] = NoteRow(x)
        /\ \A n \in DOMAIN notes : notes'[n] = notes[n]
    BY <2>1, <2>2, Appended DEF Shapes
  <2>4. CASE x \in Requests
    <3>1. NoteRow(x).type = "FOLLOW"
      BY <2>1, <2>2, <2>4 DEF TasksOK
    <3>2. FollowNotes' = FollowNotes \cup {Len(notes) + 1} /\ Len(notes) + 1 \notin FollowNotes
      BY <2>3, <3>1 DEF FollowNotes
    <3>3. Cardinality(FollowNotes') = N + 1
      BY <3>2, NotesAreFinite, FS_AddElement
    <3>4. Following' = Following \ {x} /\ x \in Following
      BY <1>2, <2>1, <2>4
    <3>5. IsFiniteSet(Following') /\ Cardinality(Following') = F - 1
      BY <1>0, <3>4, FS_RemoveElement
    <3> QED BY <1>0, <2>1, <3>3, <3>5 DEF FollowsCounted, history
  <2>5. CASE x \notin Requests
    <3>1. NoteRow(x).type = "ACHIEVEMENT"
      BY <2>1, <2>2, <2>5 DEF TasksOK, Tasks
    <3>2. FollowNotes' = FollowNotes
      BY <2>3, <3>1 DEF FollowNotes
    <3>3. Following' = Following
      BY <1>2, <2>1, <2>5
    <3> QED BY <2>1, <3>2, <3>3 DEF FollowsCounted, history
  <2> QED BY <2>4, <2>5
<1>8. ASSUME NEW x \in Tasks, Ended(x) PROVE FollowsCounted'
  <2>1. /\ Becomes(x, Idle) /\ UNCHANGED <<notes, inserts>>
        /\ \/ task[x].step = "publish" /\ failed' = failed
           \/ failed' = failed \cup {x}
    BY <1>8 DEF Ended
  <2>2. CASE x \in Following
    <3>1. Following' = Following \ {x}
      BY <1>2, <2>1, <2>2 DEF Idle
    <3>2. IsFiniteSet(Following') /\ Cardinality(Following') = F - 1
      BY <1>0, <2>2, <3>1, FS_RemoveElement
    <3>3. failed' # {}
      BY <2>1, <2>2 DEF Following
    <3> QED BY <1>0, <1>3, <2>1, <3>2, <3>3 DEF FollowsCounted
  <2>3. CASE x \notin Following
    <3>1. Following' = Following
      BY <1>2, <2>1, <2>3 DEF Idle
    <3> QED BY <1>0, <1>3, <2>1, <3>1 DEF FollowsCounted
  <2> QED BY <2>2, <2>3
<1> QED BY <1>1, <1>5, <1>6, <1>7, <1>8, SocialStep DEF Step

LEMMA StepKeepsShapes ==
    ASSUME IInv, [Next]_vars
    PROVE  Shapes'
<1> USE DEF IInv
<1>1. status' \in [Submissions -> Statuses] /\ step' \in [Submissions -> {"none", "saved", "queued"}]
      /\ untold' \subseteq Submissions
  BY StepMovesForward DEF RowsForward
<1>2. heard' \in Seq(StatusMsg) /\ wire' \in Seq(Msg) /\ inbox' \in [Sockets -> Seq(Msg)]
  BY StepKeepsMessages, StepKeepsWire
<1>3. earned' \in Seq(Achievement) /\ activities' \in Seq(Activity) /\ inserts' \in Nat
      /\ notes' \in Seq(Notification) /\ task' \in [Tasks -> Task]
  BY StepKeepsRows, NotesGrow, StepKeepsTasks
<1>4. room' \subseteq Sockets /\ socket' \in [Sockets -> SocketRow]
  BY StepKeepsSockets
<1>5. follows' \subseteq Users \X Users
  <2>1. ASSUME NEW x \in Tasks, SaveFollow(x) PROVE follows' \subseteq Users \X Users
    <3>1. task[x] \in Task /\ task[x] # Idle
          /\ follows' = follows \cup {<<task[x].actor, task[x].user>>}
      BY <2>1 DEF SaveFollow, At, Idle, Shapes
    <3>2. <<task[x].actor, task[x].user>> \in Users \X Users
      BY <3>1, TaskShape
    <3> QED BY <3>1, <3>2 DEF Shapes
  <2>2. ASSUME NEW pair, UnfollowUser(pair) PROVE follows' \subseteq Users \X Users
    BY <2>2 DEF UnfollowUser, Shapes
  <2>3. ASSUME NEW s \in Submissions, SubmissionStep(s) PROVE UNCHANGED follows
    BY <2>3, Published DEF socialVars
  <2>4. ASSUME OtherStep, \A x \in Tasks : ~SaveFollow(x), \A pair \in follows : ~UnfollowUser(pair)
        PROVE  UNCHANGED follows
    BY <2>4 DEF OtherStep, FollowUser, Hear, TaskStep, SaveAchievement, CreateActivity,
       SaveNotification, PublishNotification, TaskFails, MarkNotificationAsRead,
       Connect, Verified, JoinRoom, LeaveRoom, Disconnect, Relay, vars, socialVars
  <2> QED BY <2>1, <2>2, <2>3, <2>4 DEF Shapes, Next, OtherStep, SubmissionStep
<1>6. read' \subseteq DOMAIN notes'
  <2>1. ASSUME NEW n \in DOMAIN notes, MarkNotificationAsRead(n) PROVE read' = read \cup {n}
    BY <2>1 DEF MarkNotificationAsRead
  <2>2. ASSUME NEW s \in Submissions, SubmissionStep(s) PROVE UNCHANGED read
    BY <2>2, Published DEF socialVars
  <2>3. ASSUME OtherStep, \A n \in DOMAIN notes : ~MarkNotificationAsRead(n)
        PROVE  UNCHANGED read
    BY <2>3 DEF OtherStep, FollowUser, Hear, TaskStep, SaveFollow, SaveAchievement,
       CreateActivity, SaveNotification, PublishNotification, TaskFails, UnfollowUser,
       Connect, Verified, JoinRoom, LeaveRoom, Disconnect, Relay, vars, socialVars
  <2> QED BY <2>1, <2>2, <2>3, NotesGrow DEF Shapes, Next, OtherStep, SubmissionStep
<1> QED BY <1>1, <1>2, <1>3, <1>4, <1>5, <1>6 DEF Shapes, SocketRow

LEMMA Invariance == Spec => []IInv
<1>1. IInv /\ [Next]_vars => IInv'
  <2> SUFFICES ASSUME IInv, [Next]_vars PROVE IInv'
    OBVIOUS
  <2>1. Shapes /\ RowsOK /\ MessagesAreTrue /\ InOrder /\ SocketsOK
        /\ TasksOK /\ AwardsOK /\ FollowsCounted
    BY DEF IInv
  <2>2. Shapes'
    BY StepKeepsShapes
  <2>3. RowsOK' /\ MessagesAreTrue' /\ InOrder' /\ SocketsOK'
    BY <2>1, StepMovesForward, StepKeepsMessages, StepKeepsOrder, StepKeepsSockets
       DEF RowsForward
  <2>4. TasksOK' /\ AwardsOK'
    BY <2>1, StepKeepsTasks, StepKeepsRows, StepKeepsAwardOrder, StepKeepsHeardOnce DEF AwardsOK
  <2>5. FollowsCounted'
    BY <2>1, StepKeepsFollows
  <2> QED BY <2>2, <2>3, <2>4, <2>5 DEF IInv
<1> QED BY InitEstablishesIInv, <1>1, PTL DEF Spec

-----------------------------------------------------------------------------
(* The theorems *)

\* The tables, the channels, the tasks and the sockets have their shapes.
THEOREM TypeCorrect == Spec => []TypeOK
<1>1. ASSUME IInv PROVE TypeOK
  <2>1. /\ \A i \in DOMAIN earned : earned[i] \in Achievement
        /\ \A i \in DOMAIN activities : activities[i] \in Activity
        /\ \A n \in DOMAIN notes : notes[n] \in Notification
    BY <1>1, Members DEF IInv, Shapes
  <2>2. \A x \in Tasks : task[x].step \in {"idle", "save", "activity", "notify", "publish"}
    BY <1>1, TaskShape DEF IInv, Shapes
  <2> QED BY <1>1, <2>1, <2>2 DEF IInv, Shapes, TypeOK
<1> QED BY Invariance, <1>1, PTL

\* A socket receives what is its user's only, what the database says, and
\* never a verdict before the PENDING of the same submission.
THEOREM InboxStaysTrue == Spec => []InboxIsTrue
<1>1. ASSUME IInv PROVE InboxIsTrue
  <2> USE <1>1 DEF IInv
  <2>1. OnlyTheOwnerIsTold
    BY DEF SocketsOK
  <2>2. ToldIsStored
    <3>1. ASSUME NEW k \in Sockets, NEW i \in DOMAIN inbox[k], NEW m, m = inbox[k][i]
          PROVE  \/ m.kind = "note" /\ m.note \in GetNotifications(m.user)
                 \/ /\ m.kind = "status"
                    /\ m.status \in Verdicts =>
                           status[m.submission] \in {m.status, "INTERNAL_ERROR"}
      <4>1. m \in TrueMsg
        BY <3>1, Members DEF MessagesAreTrue
      <4>2. m.kind \in {"note", "status"} /\ IsTrue(m)
        BY <4>1 DEF TrueMsg, Msg, StatusMsg, NoteMsg
      <4> QED BY <4>2 DEF IsTrue, GetNotifications
    <3> QED BY <3>1 DEF ToldIsStored
  <2>3. StatusGoesForward
    BY DEF InOrder, MayFollow, StatusGoesForward
  <2> QED BY <2>1, <2>2, <2>3 DEF InboxIsTrue
<1> QED BY Invariance, <1>1, PTL

\* Each award is stored once, before it is told, and each notification of a
\* follow stands for a row that was inserted; whoever follows a user who was
\* told of an award finds it in the feed.
THEOREM EachToldOnce == Spec => []EachIsToldOnce
<1>1. ASSUME IInv PROVE OneAwardPerAccepted
  <2> USE <1>1 DEF IInv, AwardsOK
  <2> SUFFICES ASSUME NEW u \in Users
      PROVE  LET told == Cardinality(Told(u, "ACHIEVEMENT"))
                 got == Cardinality(GetAchievements(u))
             IN  /\ told <= got
                 /\ got <= Cardinality(Accepted(u))
                 /\ (failed = {} /\ Working(u) = {}) => told = got
    BY DEF OneAwardPerAccepted
  <2> DEFINE T == Told(u, "ACHIEVEMENT")
             G == GetAchievements(u)
             A == Accepted(u)
  <2>1. /\ \A n \in T : /\ n \in DOMAIN notes /\ notes[n].type = "ACHIEVEMENT"
                        /\ notes[n].of \in Submissions /\ OwnerOf[notes[n].of] = u
                        /\ Earned(notes[n].of)
        /\ \A m, n \in T : notes[m].of = notes[n].of => m = n
    BY DEF Told, GetNotifications, RowsOfAwards, AwardsInOrder, AwardInOrder, Noted
  <2>2. /\ \A i \in G : i \in DOMAIN earned /\ earned[i].of \in A
        /\ \A i, j \in G : earned[i].of = earned[j].of => i = j
    BY DEF GetAchievements, Accepted, RowsOfAwards, AwardsInOrder, AwardInOrder, Earned, Announced
  <2>3. \A i \in DOMAIN earned : OwnerOf[earned[i].of] = u => i \in G
    BY DEF GetAchievements, RowsOfAwards
  <2>4. IsFiniteSet(A)
    BY Settings, FS_Subset DEF Accepted
  <2>5. IsFiniteSet(G) /\ Cardinality(G) <= Cardinality(A)
    <3> PICK f : f = [i \in G |-> earned[i].of]
      OBVIOUS
    <3>1. f \in Injection(G, A)
      BY <2>2 DEF Injection, IsInjective
    <3> QED BY <2>4, <3>1, FS_Injection
  <2>6. IsFiniteSet(T) /\ Cardinality(T) <= Cardinality(G)
    <3> PICK f : f = [n \in T |-> CHOOSE i \in DOMAIN earned : earned[i].of = notes[n].of]
      OBVIOUS
    <3>1. \A n \in T : f[n] \in DOMAIN earned /\ earned[f[n]].of = notes[n].of
      BY <2>1 DEF Earned
    <3>2. f \in Injection(T, G)
      BY <2>1, <2>3, <3>1 DEF Injection, IsInjective
    <3> QED BY <2>5, <3>2, FS_Injection
  <2>7. ASSUME failed = {}, Working(u) = {} PROVE Cardinality(G) <= Cardinality(T)
    <3>1. ASSUME NEW i \in G
          PROVE  \E n \in T : notes[n].of = earned[i].of
      <4> PICK s : s = earned[i].of
        OBVIOUS
      <4>1. s \in Submissions /\ Earned(s) /\ OwnerOf[s] = u
        BY <2>2 DEF Accepted, Earned
      <4>2. task[s].step \notin {"activity", "notify"}
        <5>1. s \in Tasks /\ task[s] # Idle => task[s].user = u
          BY <4>1 DEF TasksOK, Tasks
        <5>2. task[s] = Idle
          BY <2>7, <4>1, <5>1 DEF Working, Tasks
        <5> QED BY <5>2 DEF Idle
      <4>3. Noted(s)
        BY <2>7, <4>1, <4>2 DEF AwardsInOrder, AwardInOrder
      <4> QED BY <4>1, <4>3 DEF Noted, Told, GetNotifications, RowsOfAwards
    <3> PICK f : f = [i \in G |-> CHOOSE n \in T : notes[n].of = earned[i].of]
      OBVIOUS
    <3> HIDE DEF T, G
    <3>2. \A i \in G : f[i] \in T /\ notes[f[i]].of = earned[i].of
      BY <3>1
    <3>3. f \in Injection(G, T)
      BY <2>2, <3>2 DEF Injection, IsInjective
    <3> QED BY <2>6, <3>3, FS_Injection
  <2>8. Cardinality(T) \in Nat /\ Cardinality(G) \in Nat
    BY <2>5, <2>6, FS_CardinalityType
  <2> QED BY <2>5, <2>6, <2>7, <2>8
<1>2. ASSUME IInv PROVE OneNotificationPerFollow
  <2> USE <1>2 DEF IInv
  <2>1. UNION {Told(u, "FOLLOW") : u \in Users} = FollowNotes
    <3>1. \A n \in DOMAIN notes : notes[n].user \in Users
      <4>1. \A n \in DOMAIN notes : notes[n] \in Notification
        BY Members DEF Shapes
      <4> QED BY <4>1 DEF Notification
    <3>2. \A u \in Users : \A n : n \in Told(u, "FOLLOW")
              <=> n \in FollowNotes /\ notes[n].user = u
      BY DEF Told, GetNotifications, FollowNotes
    <3>3. \A n : n \in UNION {Told(u, "FOLLOW") : u \in Users}
              <=> \E u \in Users : n \in Told(u, "FOLLOW")
      OBVIOUS
    <3>4. \A n \in FollowNotes : n \in DOMAIN notes
      BY DEF FollowNotes
    <3> QED BY <3>1, <3>2, <3>3, <3>4
  <2>2. Cardinality(FollowNotes) \in Nat /\ Cardinality(Following) \in Nat /\ inserts \in Nat
    BY NotesAreFinite, FS_CardinalityType DEF FollowsCounted, Shapes
  <2>3. (\A r \in Requests : task[r] = Idle) => Cardinality(Following) = 0
    <3>1. (\A r \in Requests : task[r] = Idle) => Following = {}
      BY DEF Following, Idle
    <3> QED BY <3>1, FS_EmptySet
  <2>4. /\ Cardinality(FollowNotes) <= inserts
        /\ (failed = {} /\ \A r \in Requests : task[r] = Idle)
              => Cardinality(FollowNotes) = inserts
    BY <2>2, <2>3 DEF FollowsCounted
  <2> QED BY <2>1, <2>4 DEF OneNotificationPerFollow
<1>3. ASSUME IInv PROVE FeedShowsAwards
  <2> SUFFICES ASSUME NEW n \in DOMAIN notes, NEW u \in Users, notes[n].type = "ACHIEVEMENT",
                      u = notes[n].user \/ <<u, notes[n].user>> \in follows
      PROVE  \E i \in GetActivityFeed(u) : activities[i].of = notes[n].of
    BY DEF FeedShowsAwards
  <2>1. notes[n].of \in Submissions /\ notes[n].user = OwnerOf[notes[n].of] /\ Noted(notes[n].of)
    BY <1>3 DEF IInv, AwardsOK, RowsOfAwards, Noted
  <2>2. Shown(notes[n].of)
    BY <1>3, <2>1 DEF IInv, AwardsOK, AwardsInOrder, AwardInOrder
  <2> QED BY <2>1, <2>2 DEF Shown, GetActivityFeed
<1> QED BY Invariance, <1>1, <1>2, <1>3, PTL DEF EachIsToldOnce
=============================================================================
