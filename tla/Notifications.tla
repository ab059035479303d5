--------------------------- MODULE Notifications ---------------------------
(***************************************************************************)
(* What users are told as it happens: the statuses of their submissions    *)
(* and their notifications.  Three services take part.                     *)
(*                                                                         *)
(*   execution-service   publishes a message on 'submission-verdicts' each *)
(*                       time it announces a status.  Its rows follow      *)
(*                       SubmissionLifecycle, which Submission is shown to *)
(*                       implement; here that specification stands for it. *)
(*   social-service      its listener awards an achievement for every      *)
(*                       ACCEPTED it hears; following a user and awarding  *)
(*                       both save a row, an activity and a notification,  *)
(*                       and publish the notification on 'notifications'.  *)
(*   realtime-service    the gateway relays both channels to the sockets   *)
(*                       in the room of the message's user.                *)
(*                                                                         *)
(* Redis pub/sub keeps the order of what it delivers and keeps nothing for *)
(* a subscriber that is away.  Every awaited call of the social-service    *)
(* may fail; what was saved before stays saved.                            *)
(***************************************************************************)
EXTENDS Naturals, Sequences, FiniteSets

CONSTANTS
    Submissions, Verdicts,
    Users,
    OwnerOf,    \* OwnerOf[s]: the user who posts s
    Nobody,     \* the userId of a message that has none
    Sockets,    \* connections that may be open at a time
    Wanted,     \* the pairs <<follower, following>> that are asked for
    Requests,   \* follow requests that may be in flight at a time
    MaxFollows  \* bound: follow requests ever made

ASSUME NotificationsAssumption ==
    /\ OwnerOf \in [Submissions -> Users]
    /\ Nobody \notin Users
    /\ Wanted \subseteq Users \X Users
    /\ "ACCEPTED" \in Verdicts
    /\ Verdicts \cap {"ABSENT", "PENDING", "PROCESSING", "INTERNAL_ERROR"} = {}
    /\ Requests \cap Submissions = {}
    /\ IsFiniteSet(Submissions)
    /\ MaxFollows \in Nat

VARIABLES
    status, credits,    \* SubmissionLifecycle
    step,       \* step[s]: how far create() is with s
    untold,     \* submissions whose verdict is stored and not yet published
    heard,      \* verdict messages the social-service has yet to handle
    wire,       \* messages of both channels the gateway has yet to relay
    follows,    \* user_follows: pairs <<follower, following>>
    earned,     \* achievements
    activities, \* activities, in the order of createdAt
    notes,      \* the notifications table; an id is an index
    read,       \* ids of the notifications marked as read
    task,       \* task[x]: a follow request, or the award for a submission
    requested,  \* follow requests so far
    socket,     \* socket[k]: [state, user] of the connection
    room,       \* the sockets that are in the room of their user
    inbox       \* inbox[k]: what the connection has received

\* History: pairs ever inserted (counted), and tasks that failed.
VARIABLES inserts, failed

Lifecycle == INSTANCE SubmissionLifecycle WITH Ids <- Submissions

submissionVars == <<status, credits, step, untold>>
socialVars == <<follows, earned, activities, notes, read, task, requested>>
socketVars == <<socket, room, inbox>>
history == <<inserts, failed>>
vars == <<submissionVars, heard, wire, socialVars, socketVars, history>>

Tasks == Requests \cup Submissions
\* The columns the properties tell apart; `of` is the request or the submission
\* that made the row.
Activity == [user: Users, type: {"FOLLOWED", "ACHIEVEMENT"}, of: Tasks]
Achievement == [user: Users, of: Tasks]
Notification == [user: Users, type: {"FOLLOW", "ACHIEVEMENT"}, of: Tasks]

Idle == [step |-> "idle"]
Closed == [state |-> "closed", user |-> Nobody]

\* Somebody may follow somebody since before.
Init ==
    /\ Lifecycle!Init
    /\ step = [s \in Submissions |-> "none"]
    /\ untold = {}
    /\ heard = <<>>
    /\ wire = <<>>
    /\ follows \in SUBSET Wanted
    /\ earned = <<>>
    /\ activities = <<>>
    /\ notes = <<>>
    /\ read = {}
    /\ task = [x \in Tasks |-> Idle]
    /\ requested = 0
    /\ socket = [k \in Sockets |-> Closed]
    /\ room = {}
    /\ inbox = [k \in Sockets |-> <<>>]
    /\ inserts = 0
    /\ failed = {}

-----------------------------------------------------------------------------
\* SubmissionService, as far as others can see it

StatusMessage(s, u, v) ==
    [kind |-> "status", user |-> u, submission |-> s, status |-> v]

\* publish on 'submission-verdicts': the gateway and the social-service hear
\* it, each only if it is connected.
PublishStatus(m) ==
    /\ wire' \in {wire, Append(wire, m)}
    /\ heard' \in {heard, Append(heard, m)}

\* create: the row, then the message, then the job.
Post(s) ==
    /\ Lifecycle!Submit(s)
    /\ step' = [step EXCEPT ![s] = "saved"]
    /\ UNCHANGED <<untold, heard, wire, socialVars, socketVars, history>>

AnnouncePending(s) ==
    /\ step[s] = "saved"
    /\ PublishStatus(StatusMessage(s, OwnerOf[s], "PENDING"))
    /\ step' = [step EXCEPT ![s] = "queued"]
    /\ UNCHANGED <<status, credits, untold, socialVars, socketVars, history>>

\* processSubmission: the message of the start carries no userId.
Start(s) ==
    /\ step[s] = "queued"
    /\ Lifecycle!Start(s)
    /\ PublishStatus(StatusMessage(s, Nobody, "PROCESSING"))
    /\ UNCHANGED <<step, untold, socialVars, socketVars, history>>

Decide(s, v) ==
    /\ Lifecycle!Decide(s, v)
    /\ untold' = untold \cup {s}
    /\ UNCHANGED <<step, heard, wire, socialVars, socketVars, history>>

\* The row is read again and what it says is published.
AnnounceVerdict(s) ==
    /\ s \in untold
    /\ PublishStatus(StatusMessage(s, OwnerOf[s], status[s]))
    /\ untold' = untold \ {s}
    /\ UNCHANGED <<status, credits, step, socialVars, socketVars, history>>

Credit(s) ==
    /\ s \notin untold
    /\ Lifecycle!Credit(s)
    /\ UNCHANGED <<step, untold, heard, wire, socialVars, socketVars,
                   history>>

\* INTERNAL_ERROR is stored and never published.
GiveUp(s) ==
    /\ step[s] = "queued"
    /\ Lifecycle!GiveUp(s)
    /\ untold' = untold \ {s}
    /\ UNCHANGED <<step, heard, wire, socialVars, socketVars, history>>

-----------------------------------------------------------------------------
\* SocialService: follow and award go through the same four calls

\* POST /social/follow/:id
FollowUser(r, pair) ==
    /\ task[r] = Idle
    /\ pair[1] # pair[2]
    /\ requested < MaxFollows
    /\ requested' = requested + 1
    /\ task' = [task EXCEPT ![r] = [step |-> "save", kind |-> "FOLLOW",
                                    actor |-> pair[1], user |-> pair[2]]]
    /\ UNCHANGED <<submissionVars, heard, wire, follows, earned, activities,
                   notes, read, socketVars, history>>

\* Mutant: the listener rewards every status.
WorthyAll(m) == TRUE

\* The listener: an achievement for every ACCEPTED, nothing for the rest.
Worthy(m) == m.status = "ACCEPTED"

Hear ==
    /\ heard # <<>>
    /\ heard' = Tail(heard)
    /\ LET m == Head(heard) IN
       task' = IF Worthy(m)
               THEN [task EXCEPT ![m.submission] =
                        [step |-> "save", kind |-> "ACHIEVEMENT",
                         actor |-> m.user, user |-> m.user]]
               ELSE task
    /\ UNCHANGED <<submissionVars, wire, follows, earned, activities, notes,
                   read, requested, socketVars, history>>

At(x, s) == task[x].step = s
Goto(x, s) == task' = [task EXCEPT ![x].step = s]

\* The unique index on (followerId, followingId) refuses a second row.
SaveFollow(x) ==
    LET pair == <<task[x].actor, task[x].user>> IN
    /\ At(x, "save") /\ task[x].kind = "FOLLOW"
    /\ pair \notin follows
    /\ follows' = follows \cup {pair}
    /\ inserts' = inserts + 1
    /\ Goto(x, "activity")
    /\ UNCHANGED <<submissionVars, heard, wire, earned, activities, notes,
                   read, requested, socketVars, failed>>

SaveAchievement(x) ==
    /\ At(x, "save") /\ task[x].kind = "ACHIEVEMENT"
    /\ earned' = Append(earned, [user |-> task[x].user, of |-> x])
    /\ Goto(x, "activity")
    /\ UNCHANGED <<submissionVars, heard, wire, follows, activities, notes,
                   read, requested, socketVars, history>>

NewActivity(x) ==
    [user |-> task[x].actor, of |-> x,
     type |-> IF task[x].kind = "FOLLOW" THEN "FOLLOWED" ELSE "ACHIEVEMENT"]

\* Mutant: the task ends with the activity.
CreateActivityOnly(x) ==
    /\ At(x, "activity")
    /\ activities' = Append(activities, NewActivity(x))
    /\ task' = [task EXCEPT ![x] = Idle]
    /\ UNCHANGED <<submissionVars, heard, wire, follows, earned, notes, read,
                   requested, socketVars, history>>

CreateActivity(x) ==
    /\ At(x, "activity")
    /\ activities' = Append(activities, NewActivity(x))
    /\ Goto(x, "notify")
    /\ UNCHANGED <<submissionVars, heard, wire, follows, earned, notes, read,
                   requested, socketVars, history>>

\* Mutant: the row gets the kind of the notification as its user.
SaveNotificationSwapped(x) ==
    /\ At(x, "notify")
    /\ notes' = Append(notes, [user |-> task[x].kind, type |-> task[x].user,
                               of |-> x])
    /\ task' = [task EXCEPT ![x] = [step |-> "publish", kind |-> @.kind,
                    actor |-> @.actor, user |-> @.user, note |-> Len(notes')]]
    /\ UNCHANGED <<submissionVars, heard, wire, follows, earned, activities,
                   read, requested, socketVars, history>>

\* createNotification: the row, ...
SaveNotification(x) ==
    /\ At(x, "notify")
    /\ notes' = Append(notes, [user |-> task[x].user, type |-> task[x].kind,
                               of |-> x])
    /\ task' = [task EXCEPT ![x] = [step |-> "publish", kind |-> @.kind,
                    actor |-> @.actor, user |-> @.user, note |-> Len(notes')]]
    /\ UNCHANGED <<submissionVars, heard, wire, follows, earned, activities,
                   read, requested, socketVars, history>>

Announcement(x) ==
    [kind |-> "note", user |-> task[x].user, note |-> task[x].note]

\* ... and the message, for whoever listens.  The task is over.
PublishNotification(x) ==
    /\ At(x, "publish")
    /\ wire' \in {wire, Append(wire, Announcement(x))}
    /\ task' = [task EXCEPT ![x] = Idle]
    /\ UNCHANGED <<submissionVars, heard, follows, earned, activities, notes,
                   read, requested, socketVars, history>>

\* A call throws: the request is answered with an error, the listener logs it.
\* The call may have had its effect all the same: when the answer to a save is
\* lost the row is there and the task fails at the step that follows the save;
\* the message of a publish that threw may still reach the gateway.
TaskFails(x) ==
    /\ task[x] # Idle
    /\ \/ wire' = wire
       \/ At(x, "publish") /\ wire' = Append(wire, Announcement(x))
    /\ task' = [task EXCEPT ![x] = Idle]
    /\ failed' = failed \cup {x}
    /\ UNCHANGED <<submissionVars, heard, follows, earned, activities, notes,
                   read, requested, socketVars, inserts>>

\* POST /social/notifications/:id/read, by anybody.
MarkNotificationAsRead(n) ==
    /\ n \in DOMAIN notes
    /\ read' = read \cup {n}
    /\ UNCHANGED <<submissionVars, heard, wire, follows, earned, activities,
                   notes, task, requested, socketVars, history>>

UnfollowUser(pair) ==
    /\ pair \in follows
    /\ follows' = follows \ {pair}
    /\ UNCHANGED <<submissionVars, heard, wire, earned, activities, notes,
                   read, task, requested, socketVars, history>>

GetNotifications(u) == {n \in DOMAIN notes : notes[n].user = u}
GetAchievements(u) == {i \in DOMAIN earned : earned[i].user = u}

\* getActivityFeed: the activities of u and of everybody u follows.
GetActivityFeed(u) ==
    {i \in DOMAIN activities :
        activities[i].user = u \/ <<u, activities[i].user>> \in follows}

-----------------------------------------------------------------------------
\* RealtimeGateway

\* Where a handshake may carry a token, in the order they are looked at: the
\* auth object, the cookies, the Authorization header, the query string.
Places == 1 .. 4
Handshakes == [Places -> Users \cup {Nobody}]

\* The user of the first token found, Nobody if there is none.
ExtractToken(handshake) ==
    LET given == {p \in Places : handshake[p] # Nobody} IN
    IF given = {} THEN Nobody
    ELSE handshake[CHOOSE p \in given : \A q \in given : p <= q]

\* handleConnection: without a token the client is disconnected at once; the
\* token there is is being verified.
Connect(k, handshake) ==
    /\ socket[k].state = "closed"
    /\ ExtractToken(handshake) # Nobody
    /\ socket' = [socket EXCEPT ![k] = [state |-> "verifying",
                                        user |-> ExtractToken(handshake)]]
    /\ UNCHANGED <<submissionVars, heard, wire, socialVars, room, inbox,
                   history>>

\* It is good: client.data.user is set and the socket joins the user's room.
Verified(k) ==
    /\ socket[k].state = "verifying"
    /\ socket' = [socket EXCEPT ![k].state = "open"]
    /\ room' = room \cup {k}
    /\ UNCHANGED <<submissionVars, heard, wire, socialVars, inbox, history>>

\* The token is refused, or the client goes away.
Disconnect(k) ==
    /\ socket[k].state # "closed"
    /\ socket' = [socket EXCEPT ![k] = Closed]
    /\ room' = room \ {k}
    /\ inbox' = [inbox EXCEPT ![k] = <<>>]
    /\ UNCHANGED <<submissionVars, heard, wire, socialVars, history>>

Known(k) == socket[k].state = "open"

JoinRoom(k) ==
    /\ Known(k) /\ k \notin room
    /\ room' = room \cup {k}
    /\ UNCHANGED <<submissionVars, heard, wire, socialVars, socket, inbox,
                   history>>

LeaveRoom(k) ==
    /\ Known(k) /\ k \in room
    /\ room' = room \ {k}
    /\ UNCHANGED <<submissionVars, heard, wire, socialVars, socket, inbox,
                   history>>

\* Mutant: every socket whose handshake named the user, verified or not.
AudienceNamed(m) == {k \in Sockets : socket[k].user = m.user}

\* Mutant: notifications go to a room that nobody is in.
AudienceOfStatus(m) ==
    {k \in room : socket[k].user = m.user /\ m.kind = "status"}

Audience(m) == {k \in room : socket[k].user = m.user}

\* The message handler: one message at a time, to the room of its user.
Relay ==
    /\ wire # <<>>
    /\ wire' = Tail(wire)
    /\ inbox' = [k \in Sockets |-> IF k \in Audience(Head(wire))
                                   THEN Append(inbox[k], Head(wire))
                                   ELSE inbox[k]]
    /\ UNCHANGED <<submissionVars, heard, socialVars, socket, room, history>>

-----------------------------------------------------------------------------
\* A follow and an award go through the same steps, in the order of the labels.
TaskStep(x) ==
    \/ SaveFollow(x)
    \/ SaveAchievement(x)
    \/ CreateActivity(x)
    \/ SaveNotification(x)
    \/ PublishNotification(x)
    \/ TaskFails(x)

Next ==
    \/ \E s \in Submissions :
        \/ Post(s)
        \/ AnnouncePending(s)
        \/ Start(s)
        \/ \E v \in Verdicts : Decide(s, v)
        \/ AnnounceVerdict(s)
        \/ Credit(s)
        \/ GiveUp(s)
    \/ \E r \in Requests, pair \in Wanted : FollowUser(r, pair)
    \/ Hear
    \/ \E x \in Tasks : TaskStep(x)
    \/ \E pair \in follows : UnfollowUser(pair)
    \/ \E n \in DOMAIN notes : MarkNotificationAsRead(n)
    \/ \E k \in Sockets :
        \/ \E handshake \in Handshakes : Connect(k, handshake)
        \/ Verified(k)
        \/ Disconnect(k)
        \/ JoinRoom(k)
        \/ LeaveRoom(k)
    \/ Relay

\* Both subscribers handle what has arrived, and an awaited call settles.
Fairness ==
    /\ WF_vars(Relay)
    /\ WF_vars(Hear)
    /\ \A x \in Tasks : WF_vars(TaskStep(x))

Spec == Init /\ [][Next]_vars /\ Fairness

-----------------------------------------------------------------------------
Statuses == {"ABSENT", "PENDING", "PROCESSING", "INTERNAL_ERROR"} \cup Verdicts

\* Type correctness of the tables, the channels and the sockets.
TypeOK ==
    /\ status \in [Submissions -> Statuses]
    /\ step \in [Submissions -> {"none", "saved", "queued"}]
    /\ untold \subseteq Submissions
    /\ follows \subseteq Users \X Users
    /\ \A i \in DOMAIN earned : earned[i] \in Achievement
    /\ \A i \in DOMAIN activities : activities[i] \in Activity
    /\ \A n \in DOMAIN notes : notes[n] \in Notification
    /\ read \subseteq DOMAIN notes
    /\ \A x \in Tasks : task[x].step \in
           {"idle", "save", "activity", "notify", "publish"}
    /\ socket \in [Sockets -> [state: {"closed", "verifying", "open"},
                               user: Users \cup {Nobody}]]
    /\ room \subseteq Sockets

\* A message reaches the sockets of its user and no other socket: not one that
\* is still being verified, was refused, has left the room or has reconnected
\* as somebody else while the message was on its way.
OnlyTheOwnerIsTold ==
    \A k \in Sockets : \A i \in DOMAIN inbox[k] :
        inbox[k][i].user = socket[k].user /\ socket[k].state = "open"

\* What a socket was told can be found again: a notification received in real
\* time is a stored row of the same user, a verdict received is the one stored
\* for the submission (until the submission is given up).
ToldIsStored ==
    \A k \in Sockets : \A i \in DOMAIN inbox[k] :
        LET m == inbox[k][i] IN
        \/ /\ m.kind = "note"
           /\ m.note \in GetNotifications(m.user)
        \/ /\ m.kind = "status"
           /\ m.status \in Verdicts =>
                  status[m.submission] \in {m.status, "INTERNAL_ERROR"}

\* A user watching a submission never sees it return from its verdict to
\* PENDING: create publishes before it adds the job, so that no worker can be
\* ahead of that message.
StatusGoesForward ==
    \A k \in Sockets : \A i, j \in DOMAIN inbox[k] :
        (/\ i < j
         /\ inbox[k][i].kind = "status" /\ inbox[k][j].kind = "status"
         /\ inbox[k][i].submission = inbox[k][j].submission
         /\ inbox[k][i].status \in Verdicts)
            => inbox[k][j].status # "PENDING"

\* What a socket receives is its user's, true, and in order.
InboxIsTrue == OnlyTheOwnerIsTold /\ ToldIsStored /\ StatusGoesForward

Told(u, type) ==
    {n \in GetNotifications(u) : notes[n].type = type}
Accepted(u) ==
    {s \in Submissions :
        OwnerOf[s] = u /\ status[s] \in {"ACCEPTED", "INTERNAL_ERROR"}}
Working(u) == {s \in Submissions : task[s] # Idle /\ task[s].user = u}

\* One submission earns at most one achievement, and a user is told of an
\* achievement only after it is stored: in every state there are no more
\* notifications of it than achievements, and no more achievements than
\* submissions of the user that were accepted (they may have been given up
\* since); with no failure and nothing in flight the first two are equal.
OneAwardPerAccepted ==
    \A u \in Users :
        LET told == Cardinality(Told(u, "ACHIEVEMENT"))
            got == Cardinality(GetAchievements(u))
        IN  /\ told <= got
            /\ got <= Cardinality(Accepted(u))
            /\ (failed = {} /\ Working(u) = {}) => told = got

\* Every follow notification stands for a row that was inserted, however
\* follows, repeated follows and unfollows interleave; and with no failure and
\* nothing in flight each inserted row has its notification.
OneNotificationPerFollow ==
    LET told == Cardinality(UNION {Told(u, "FOLLOW") : u \in Users}) IN
    /\ told <= inserts
    /\ (failed = {} /\ \A r \in Requests : task[r] = Idle) => told = inserts

\* Whoever follows a user who was told of an achievement finds it in the feed.
FeedShowsAwards ==
    \A n \in DOMAIN notes, u \in Users :
        (/\ notes[n].type = "ACHIEVEMENT"
         /\ u = notes[n].user \/ <<u, notes[n].user>> \in follows)
            => \E i \in GetActivityFeed(u) : activities[i].of = notes[n].of

\* Follows and awards make the rows they announce, each once.
EachIsToldOnce ==
    OneAwardPerAccepted /\ OneNotificationPerFollow /\ FeedShowsAwards

\* An ACCEPTED that the social-service hears ends as a stored notification of
\* its owner, or in a failure of the award that is logged.
AcceptedIsNotified ==
    \A s \in Submissions :
        (\E i \in DOMAIN heard : heard[i].submission = s /\ Worthy(heard[i]))
            ~> (s \in failed \/ \E n \in DOMAIN notes : notes[n].of = s)

Received(k, n) ==
    \E i \in DOMAIN inbox[k] : inbox[k][i].kind = "note" /\ inbox[k][i].note = n

\* A notification that reached the gateway is received by every socket that is
\* in its user's room, unless the socket leaves the room first.
PublishedIsReceived ==
    \A k \in Sockets, n \in 1 .. MaxFollows + Cardinality(Submissions) :
        (/\ k \in room
         /\ \E i \in DOMAIN wire : /\ wire[i].kind = "note" /\ wire[i].note = n
                                   /\ wire[i].user = socket[k].user)
            ~> (Received(k, n) \/ k \notin room)
=============================================================================
