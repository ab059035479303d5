------------------------------- MODULE Email -------------------------------
(***************************************************************************)
(* The email-service: a request adds a job to email-queue and is answered  *)
(* at once; a worker later hands the mail to the SMTP server and records   *)
(* it in email_history.  The job options give no attempts, so a job that   *)
(* throws is not tried again; a job whose worker died is, once (BullQueue, *)
(* the stalled check).  Mail and history are two systems: what happens     *)
(* between the two calls is what this module is about.  A mail is an id;   *)
(* its kind and its text are not modelled.                                 *)
(*                                                                         *)
(* The service also keeps a row of preferences for each user; the updates  *)
(* of one user's row, which may overlap, are the second part.              *)
(***************************************************************************)
EXTENDS Naturals

CONSTANTS
    Mails,      \* requests for a mail; one job each
    Workers, None,
    MaxStalls,  \* BullMQ's maxStalledCount, 1 by default
    MaxCrashes, \* bound: deaths of a worker process
    Updates,    \* requests to change the user's preferences
    Changes,    \* what a request may ask for: some columns and their values
    Texts       \* what a column of type string may hold

\* The columns of email_preferences and what they hold.
Preferences ==
    [contestUpdates : BOOLEAN, submissionUpdates : BOOLEAN,
     discussionReplies : BOOLEAN, upvoteNotifications : BOOLEAN,
     leaderboardUpdates : BOOLEAN, followerActivity : BOOLEAN,
     emailFrequency : Texts, digestDay : Texts, unsubscribedAll : BOOLEAN]

\* Mutant: the column's default is not the one of the answer.
ColumnDefaultsOff ==
    [contestUpdates |-> FALSE, submissionUpdates |-> TRUE,
     discussionReplies |-> TRUE, upvoteNotifications |-> FALSE,
     leaderboardUpdates |-> TRUE, followerActivity |-> FALSE,
     emailFrequency |-> "WEEKLY", digestDay |-> "MONDAY",
     unsubscribedAll |-> FALSE]

\* The columns with their defaults.
ColumnDefaults ==
    [contestUpdates |-> TRUE, submissionUpdates |-> TRUE,
     discussionReplies |-> TRUE, upvoteNotifications |-> FALSE,
     leaderboardUpdates |-> TRUE, followerActivity |-> FALSE,
     emailFrequency |-> "WEEKLY", digestDay |-> "MONDAY",
     unsubscribedAll |-> FALSE]

ASSUME EmailAssumption ==
    /\ MaxStalls \in Nat /\ MaxCrashes \in Nat
    /\ {"WEEKLY", "MONDAY"} \subseteq Texts
    /\ None \notin Mails \cup Workers /\ None \notin Preferences
    /\ \A change \in Changes : \A c \in DOMAIN change :
           /\ c \in DOMAIN ColumnDefaults
           /\ [ColumnDefaults EXCEPT ![c] = change[c]] \in Preferences

VARIABLES
    answer,     \* answer[m]: what the caller was told
    pc,         \* pc[w]: the call the worker makes next
    at,         \* at[w]: its mail
    sent,       \* sent[m]: times the SMTP server accepted m
    recorded,   \* recorded[m]: rows of m in email_history
    crashes,
    jobState, made, stalls, owner   \* email-queue

VARIABLES
    prefs,      \* the user's row in email_preferences, or None
    update      \* update[u]: where the request is, and the entity it holds

\* History: mails whose worker died while it was handling them; mails that were
\* recorded by a save that threw; requests that overlapped with another one; and
\* what the user was told of each column.
VARIABLES orphaned, unanswered, overlapped, promised

Queue == INSTANCE BullQueue
    WITH Jobs <- Mails, NoWorker <- None, Attempts <- 1, LockLoss <- FALSE

queueVars == <<jobState, made, stalls, owner>>
mailVars == <<answer, sent, recorded, unanswered>>
prefVars == <<prefs, update, overlapped, promised>>
vars == <<mailVars, pc, at, crashes, queueVars, orphaned, prefVars>>

\* The answer for a user without a row.
DefaultPreferences ==
    [contestUpdates |-> TRUE, submissionUpdates |-> TRUE,
     discussionReplies |-> TRUE, emailFrequency |-> "WEEKLY"]

\* Object.assign
Overwritten(row, change) ==
    [c \in DOMAIN row |-> IF c \in DOMAIN change THEN change[c] ELSE row[c]]

GetEmailPreferences == IF prefs # None THEN prefs ELSE DefaultPreferences

Waiting == [at |-> "find", change |-> <<>>, entity |-> None, diff |-> {}]

Init ==
    /\ answer = [m \in Mails |-> None]
    /\ pc = [w \in Workers |-> "idle"]
    /\ at = [w \in Workers |-> None]
    /\ sent = [m \in Mails |-> 0]
    /\ recorded = [m \in Mails |-> 0]
    /\ crashes = 0
    /\ orphaned = {}
    /\ unanswered = {}
    /\ Queue!QueueInit
    /\ prefs = None
    /\ update = [u \in Updates |-> Waiting]
    /\ overlapped = {}
    /\ promised = Overwritten(ColumnDefaults, DefaultPreferences)

-----------------------------------------------------------------------------
\* queueVerificationEmail, queueResetPasswordEmail, queueContestReminder

\* Mutant: the request is answered without a job.
QueueMailForgets(m) ==
    /\ answer[m] = None
    /\ answer' = [answer EXCEPT ![m] = "queued"]
    /\ UNCHANGED <<pc, at, sent, recorded, crashes, queueVars, orphaned,
                   unanswered, prefVars>>

QueueMail(m) ==
    /\ answer[m] = None
    /\ answer' = [answer EXCEPT ![m] = "queued"]
    /\ Queue!Add(m)
    /\ UNCHANGED <<pc, at, sent, recorded, crashes, orphaned, unanswered,
                   prefVars>>

\* Redis is away: the request is answered with an error, there is no job.
QueueFails(m) ==
    /\ answer[m] = None
    /\ answer' = [answer EXCEPT ![m] = "error"]
    /\ UNCHANGED <<pc, at, sent, recorded, crashes, queueVars, orphaned,
                   unanswered, prefVars>>

-----------------------------------------------------------------------------
\* EmailProcessor.process and EmailService.sendMail

TakeJob(m, w) ==
    /\ pc[w] = "idle"
    /\ Queue!Take(m, w)
    /\ pc' = [pc EXCEPT ![w] = "send"]
    /\ at' = [at EXCEPT ![w] = m]
    /\ UNCHANGED <<mailVars, crashes, orphaned, prefVars>>

Goto(w, l) == pc' = [pc EXCEPT ![w] = l] /\ UNCHANGED at
Leave(w) == pc' = [pc EXCEPT ![w] = "idle"] /\ at' = [at EXCEPT ![w] = None]

Send(w) ==
    /\ pc[w] = "send"
    /\ sent' = [sent EXCEPT ![at[w]] = @ + 1]
    /\ Goto(w, "record")
    /\ UNCHANGED <<answer, recorded, crashes, queueVars, orphaned, unanswered,
                   prefVars>>

Record(w) ==
    /\ pc[w] = "record"
    /\ recorded' = [recorded EXCEPT ![at[w]] = @ + 1]
    /\ Goto(w, "finish")
    /\ UNCHANGED <<answer, sent, crashes, queueVars, orphaned, unanswered,
                   prefVars>>

\* Mutant: an SMTP error is logged and sendMail goes on.
SendFailsSilently(w) ==
    /\ pc[w] = "send"
    /\ sent' \in {sent, [sent EXCEPT ![at[w]] = @ + 1]}
    /\ Goto(w, "record")
    /\ UNCHANGED <<answer, recorded, crashes, queueVars, orphaned, unanswered,
                   prefVars>>

\* Either call throws.  An SMTP error may come after the mail was accepted, and
\* an error of the save after the row was committed.
SendFails(w) ==
    /\ pc[w] = "send"
    /\ sent' \in {sent, [sent EXCEPT ![at[w]] = @ + 1]}
    /\ Goto(w, "throw")
    /\ UNCHANGED <<answer, recorded, crashes, queueVars, orphaned, unanswered,
                   prefVars>>

RecordFails(w) ==
    /\ pc[w] = "record"
    /\ \/ UNCHANGED <<recorded, unanswered>>
       \/ /\ recorded' = [recorded EXCEPT ![at[w]] = @ + 1]
          /\ unanswered' = unanswered \cup {at[w]}
    /\ Goto(w, "throw")
    /\ UNCHANGED <<answer, sent, crashes, queueVars, orphaned, prefVars>>

Finish(w) ==
    /\ pc[w] = "finish"
    /\ Queue!Complete(at[w], w)
    /\ Leave(w)
    /\ UNCHANGED <<mailVars, crashes, orphaned, prefVars>>

\* sendMail logs the error and throws it again: the job fails.
Rethrow(w) ==
    /\ pc[w] = "throw"
    /\ Queue!Fail(at[w], w)
    /\ Leave(w)
    /\ UNCHANGED <<mailVars, crashes, orphaned, prefVars>>

Crash(w) ==
    /\ pc[w] # "idle"
    /\ crashes < MaxCrashes
    /\ crashes' = crashes + 1
    /\ orphaned' = orphaned \cup {at[w]}
    /\ Queue!Abandon(at[w], w)
    /\ Leave(w)
    /\ UNCHANGED <<mailVars, prefVars>>

StallCheck(m) ==
    /\ Queue!Stall(m)
    /\ UNCHANGED <<mailVars, pc, at, crashes, orphaned, prefVars>>

-----------------------------------------------------------------------------
\* updateEmailPreferences: a select; then an insert, or save's own select and
\* an update of the columns in which the entity differs from what it read.

UnderWay(u) == update[u].at \in {"insert", "compare", "write"}

FindPreferences(u, change) ==
    /\ update[u].at = "find"
    /\ update' = [update EXCEPT ![u] =
           IF prefs = None
           THEN [Waiting EXCEPT !.at = "insert", !.change = change]
           ELSE [Waiting EXCEPT !.at = "compare", !.change = change,
                                !.entity = Overwritten(prefs, change)]]
    /\ LET others == {v \in Updates : UnderWay(v)}
       IN  overlapped' = overlapped \cup others
                             \cup {v \in {u} : others # {}}
    /\ UNCHANGED <<prefs, promised>>

\* The request's last statement wrote `row`: it answers success.
Saved(u, row) ==
    /\ prefs' = row
    /\ update' = [update EXCEPT ![u].at = "success"]
    /\ promised' = IF u \in overlapped
                   THEN row
                   ELSE Overwritten(promised, update[u].change)
    /\ UNCHANGED overlapped

InsertPreferences(u) ==
    /\ update[u].at = "insert"
    /\ prefs = None
    /\ Saved(u, Overwritten(ColumnDefaults, update[u].change))

\* userId is unique: another request of the user inserted its row first.
InsertRefused(u) ==
    /\ update[u].at = "insert"
    /\ prefs # None
    /\ update' = [update EXCEPT ![u].at = "error"]
    /\ UNCHANGED <<prefs, overlapped, promised>>

ComparePreferences(u) ==
    /\ update[u].at = "compare"
    /\ update' = [update EXCEPT
           ![u].at = "write",
           ![u].diff = {c \in DOMAIN prefs :
                           update[u].entity[c] # prefs[c]}]
    /\ UNCHANGED <<prefs, overlapped, promised>>

WritePreferences(u) ==
    /\ update[u].at = "write"
    /\ Saved(u, [c \in DOMAIN prefs |->
                    IF c \in update[u].diff THEN update[u].entity[c]
                    ELSE prefs[c]])

UpdateStep(u) ==
    /\ \/ \E change \in Changes : FindPreferences(u, change)
       \/ InsertPreferences(u)
       \/ InsertRefused(u)
       \/ ComparePreferences(u)
       \/ WritePreferences(u)
    /\ UNCHANGED <<mailVars, pc, at, crashes, queueVars, orphaned>>

Idle ==
    /\ \A m \in Mails : answer[m] # None /\ Queue!Ended(m)
    /\ \A u \in Updates : update[u].at \in {"success", "error"}
    /\ UNCHANGED vars

WorkerStep(w) ==
    \/ \E m \in Mails : TakeJob(m, w)
    \/ Send(w)
    \/ SendFails(w)
    \/ Record(w)
    \/ RecordFails(w)
    \/ Finish(w)
    \/ Rethrow(w)

Next ==
    \/ \E m \in Mails : QueueMail(m) \/ QueueFails(m) \/ StallCheck(m)
    \/ \E w \in Workers : WorkerStep(w) \/ Crash(w)
    \/ \E u \in Updates : UpdateStep(u)
    \/ Idle

\* Workers take jobs and their calls settle; the stalled check runs on a timer.
Spec ==
    /\ Init /\ [][Next]_vars
    /\ \A w \in Workers : WF_vars(WorkerStep(w))
    /\ \A m \in Mails : WF_vars(StallCheck(m))

-----------------------------------------------------------------------------
\* Type correctness of the mails, the workers, the queue and the preferences.
TypeOK ==
    /\ answer \in [Mails -> {None, "queued", "error"}]
    /\ pc \in [Workers -> {"idle", "send", "record", "finish", "throw"}]
    /\ at \in [Workers -> Mails \cup {None}]
    /\ sent \in [Mails -> Nat] /\ recorded \in [Mails -> Nat]
    /\ crashes \in 0 .. MaxCrashes
    /\ orphaned \subseteq Mails /\ unanswered \subseteq Mails
    /\ Queue!QueueTypeOK
    /\ prefs \in Preferences \cup {None}
    /\ \A u \in Updates :
           /\ update[u].at \in {"find", "insert", "compare", "write",
                               "success", "error"}
           /\ update[u].at \in {"compare", "write"} =>
                  update[u].entity \in Preferences /\ prefs # None
           /\ update[u].diff \subseteq DOMAIN ColumnDefaults
    /\ overlapped \subseteq Updates
    /\ promised \in Preferences

\* Nobody gets a mail twice because of an error: a mail is handed to the SMTP
\* server more than once only if a worker died while handling it, and never
\* more often than the stalled check allows.
SentOnce ==
    \A m \in Mails :
        /\ sent[m] <= 1 + MaxStalls
        /\ m \notin orphaned => sent[m] <= 1

\* email_history never claims a mail that the server did not accept, and the
\* queue never reports one as done that is not in it.
HistoryIsTrue ==
    \A m \in Mails :
        /\ recorded[m] <= sent[m]
        /\ jobState[m] = "done" => recorded[m] > 0

\* A job is reported as failed only if the mail has no record, unless its
\* worker died or the save that recorded it threw (a mail may then be in the
\* history and its job fail), and it has one record at most unless its worker
\* died: an error is not answered by a second run that records the mail again.
FailedIsUnrecorded ==
    \A m \in Mails : (jobState[m] = "failed" /\ m \notin orphaned) =>
        /\ recorded[m] <= 1
        /\ m \notin unanswered => recorded[m] = 0

\* What errors and crashes may do to a mail and its record.
DeliveryIsTrue == SentOnce /\ HistoryIsTrue /\ FailedIsUnrecorded

\* An update that was answered with success stays until the next one, and it
\* changes no column it does not name: the first one, which creates the row,
\* leaves the others at what a user without a row was shown.  (Updates of one
\* user that overlap may undo each other's columns: save writes back what it
\* read; after them the user is told what is in the row.)
PreferencesAreKept ==
    \A c \in DOMAIN GetEmailPreferences : GetEmailPreferences[c] = promised[c]

\* "queued: true" is kept: the mail is sent and recorded, or its job ends as
\* failed, where an operator finds it; it is never forgotten in the queue.
QueuedIsSettled ==
    \A m \in Mails :
        (answer[m] = "queued")
            ~> (jobState[m] = "failed" \/ (jobState[m] = "done" /\ sent[m] > 0))
=============================================================================
