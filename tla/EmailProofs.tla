---------------------------- MODULE EmailProofs ----------------------------
(***************************************************************************)
(* Proofs about Email, for any mails, workers, stalls and deaths, and any  *)
(* updates of a user's preferences.                                        *)
(*                                                                         *)
(* Mails: a mail is handed out once, and once more for each time it was    *)
(* found stalled, which takes a dead worker; what was sent and recorded is *)
(* bounded by that count.  Preferences: an update that overlaps no other   *)
(* one finds the row as it read it, and writes exactly what it was asked.  *)
(***************************************************************************)
EXTENDS Email, TLAPS

-----------------------------------------------------------------------------
(* The inductive invariant *)

MailShapes ==
    /\ answer \in [Mails -> {None, "queued", "error"}]
    /\ pc \in [Workers -> {"idle", "send", "record", "finish", "throw"}]
    /\ at \in [Workers -> Mails \cup {None}]
    /\ sent \in [Mails -> Nat] /\ recorded \in [Mails -> Nat]
    /\ crashes \in 0 .. MaxCrashes
    /\ orphaned \subseteq Mails /\ unanswered \subseteq Mails
    /\ Queue!QueueTypeOK

\* A busy worker holds the lock of an active job; a lock has a busy worker.
Locks ==
    /\ \A w \in Workers :
           pc[w] # "idle" => /\ at[w] \in Mails /\ owner[at[w]] = w
                             /\ jobState[at[w]] = "active"
    /\ \A m \in Mails :
           owner[m] # None => /\ owner[m] \in Workers /\ at[owner[m]] = m
                              /\ pc[owner[m]] # "idle"
    /\ \A m \in Mails : jobState[m] \in {"none", "waiting", "active"} => made[m] = 0

\* Only a death leaves a job without a worker.
Orphans ==
    \A m \in Mails :
        /\ stalls[m] > 0 => m \in orphaned
        /\ jobState[m] = "active" /\ owner[m] = None => m \in orphaned

\* A mail was accepted once for each time its job was handed out, at most; the
\* present run has not sent it yet while it is before the call.
Handed ==
    /\ \A m \in Mails : sent[m] <= stalls[m] + 1
    /\ \A m \in Mails : jobState[m] \in {"none", "waiting"} => sent[m] <= stalls[m]
    /\ \A w \in Workers : pc[w] = "send" => sent[at[w]] <= stalls[at[w]]

\* The history has no more rows than the server accepted mails.
History ==
    /\ \A m \in Mails : recorded[m] <= sent[m]
    /\ \A w \in Workers : pc[w] = "record" => recorded[at[w]] < sent[at[w]]
    /\ \A w \in Workers : pc[w] = "finish" => recorded[at[w]] > 0
    /\ \A m \in Mails : jobState[m] = "done" => recorded[m] > 0

\* A run of a job that nobody died on has no record before the call, and after
\* an error only that of a save that threw.
Unrecorded ==
    /\ \A w \in Workers :
           pc[w] = "record" /\ at[w] \notin orphaned => recorded[at[w]] = 0
    /\ \A w \in Workers :
           pc[w] = "throw" /\ at[w] \notin orphaned \cup unanswered => recorded[at[w]] = 0
    /\ \A m \in Mails :
           jobState[m] = "failed" /\ m \notin orphaned \cup unanswered => recorded[m] = 0

MailInv == MailShapes /\ Locks /\ Orphans /\ Handed /\ History /\ Unrecorded

Columns == DOMAIN ColumnDefaults

Request ==
    [at : {"find", "insert", "compare", "write", "success", "error"},
     change : Changes \cup {<<>>}, entity : Preferences \cup {None}, diff : SUBSET Columns]

PrefShapes ==
    /\ prefs \in Preferences \cup {None}
    /\ update \in [Updates -> Request]
    /\ overlapped \subseteq Updates
    /\ promised \in Preferences
    /\ \A u \in Updates : update[u].at \in {"compare", "write"} =>
           prefs # None /\ update[u].entity \in Preferences

\* The row, or the answer without one, is what the user was told.
Told == promised = IF prefs = None THEN ColumnDefaults ELSE prefs

\* An update that was not seen to overlap is the only one under way, ...
Alone ==
    \A u, v \in Updates :
        UnderWay(u) /\ UnderWay(v) /\ u \notin overlapped => u = v

\* ... and the row is still the one it read.
Fresh ==
    \A u \in Updates \ overlapped :
        /\ update[u].at \in {"compare", "write"} =>
               update[u].entity = Overwritten(prefs, update[u].change)
        /\ update[u].at = "write" =>
               update[u].diff = {c \in Columns : update[u].entity[c] # prefs[c]}

PrefInv == PrefShapes /\ Told /\ Alone /\ Fresh

\* The inductive invariant.
IInv == MailInv /\ PrefInv

LEMMA NoneIsNew == None \notin Mails /\ None \notin Workers /\ None \notin Preferences
BY EmailAssumption

-----------------------------------------------------------------------------
(* Lemmas about rows of preferences *)

LEMMA ColumnNames ==
    /\ Columns = {"contestUpdates", "submissionUpdates", "discussionReplies",
                  "upvoteNotifications", "leaderboardUpdates", "followerActivity",
                  "emailFrequency", "digestDay", "unsubscribedAll"}
    /\ ColumnDefaults \in Preferences
    /\ \A row \in Preferences : DOMAIN row = Columns /\ row = [c \in Columns |-> row[c]]
<1>1. Columns = {"contestUpdates", "submissionUpdates", "discussionReplies",
                 "upvoteNotifications", "leaderboardUpdates", "followerActivity",
                 "emailFrequency", "digestDay", "unsubscribedAll"}
  BY DEF Columns, ColumnDefaults
<1>2. ColumnDefaults \in Preferences
  BY EmailAssumption DEF ColumnDefaults, Preferences
<1>3. ASSUME NEW row \in Preferences
      PROVE  DOMAIN row = Columns /\ row = [c \in Columns |-> row[c]]
  BY <1>1 DEF Preferences
<1> QED BY <1>1, <1>2, <1>3

\* A function on the columns whose values each fit their column is a row.
LEMMA RowByColumns ==
    ASSUME NEW f,
           \A c \in Columns : [ColumnDefaults EXCEPT ![c] = f[c]] \in Preferences
    PROVE  [c \in Columns |-> f[c]] \in Preferences
<1>1. \A c \in Columns : [ColumnDefaults EXCEPT ![c] = f[c]][c] = f[c]
  BY DEF Columns
<1>2. /\ f["contestUpdates"] \in BOOLEAN /\ f["submissionUpdates"] \in BOOLEAN
      /\ f["discussionReplies"] \in BOOLEAN /\ f["upvoteNotifications"] \in BOOLEAN
      /\ f["leaderboardUpdates"] \in BOOLEAN /\ f["followerActivity"] \in BOOLEAN
      /\ f["emailFrequency"] \in Texts /\ f["digestDay"] \in Texts
      /\ f["unsubscribedAll"] \in BOOLEAN
  BY <1>1, ColumnNames DEF Preferences
<1> QED BY <1>2, ColumnNames DEF Preferences

\* Overwriting a row with a change gives a row.
LEMMA OverwrittenIsRow ==
    ASSUME NEW row \in Preferences, NEW change \in Changes
    PROVE  Overwritten(row, change) \in Preferences
<1> DEFINE new == Overwritten(row, change)
<1>1. DOMAIN row = Columns
  BY ColumnNames
<1>2. \A c \in Columns : [ColumnDefaults EXCEPT ![c] = row[c]] \in Preferences
  BY ColumnNames DEF Preferences
<1>3. \A c \in Columns : new[c] = IF c \in DOMAIN change THEN change[c] ELSE row[c]
  BY <1>1 DEF Overwritten
<1>4. \A c \in DOMAIN change : [ColumnDefaults EXCEPT ![c] = change[c]] \in Preferences
  BY EmailAssumption
<1>5. \A c \in Columns : [ColumnDefaults EXCEPT ![c] = new[c]] \in Preferences
  BY <1>2, <1>3, <1>4
<1>6. new = [c \in Columns |-> new[c]]
  BY <1>1 DEF Overwritten
<1> HIDE DEF new
<1> QED BY <1>5, <1>6, RowByColumns DEF new

\* Writing some columns of one row into another gives a row.
LEMMA MixedIsRow ==
    ASSUME NEW row \in Preferences, NEW entity \in Preferences, NEW diff \in SUBSET Columns
    PROVE  [c \in DOMAIN row |-> IF c \in diff THEN entity[c] ELSE row[c]] \in Preferences
<1> DEFINE new == [c \in Columns |-> IF c \in diff THEN entity[c] ELSE row[c]]
<1>1. \A r \in Preferences, c \in Columns : [ColumnDefaults EXCEPT ![c] = r[c]] \in Preferences
  BY ColumnNames DEF Preferences
<1>2. \A c \in Columns : [ColumnDefaults EXCEPT ![c] = new[c]] \in Preferences
  BY <1>1
<1>3. new = [c \in Columns |-> new[c]] /\ DOMAIN row = Columns
  BY ColumnNames
<1> HIDE DEF new
<1>4. new \in Preferences
  BY <1>2, <1>3, RowByColumns
<1> QED BY <1>3, <1>4 DEF new

\* What a user without a row is shown agrees with the row an update creates.
LEMMA DefaultsAgree ==
    /\ Overwritten(ColumnDefaults, DefaultPreferences) = ColumnDefaults
    /\ \A c \in DOMAIN DefaultPreferences : DefaultPreferences[c] = ColumnDefaults[c]
<1>0. DOMAIN DefaultPreferences =
          {"contestUpdates", "submissionUpdates", "discussionReplies", "emailFrequency"}
  BY DEF DefaultPreferences
<1>a. /\ DefaultPreferences["contestUpdates"] = ColumnDefaults["contestUpdates"]
      /\ DefaultPreferences["submissionUpdates"] = ColumnDefaults["submissionUpdates"]
      /\ DefaultPreferences["discussionReplies"] = ColumnDefaults["discussionReplies"]
      /\ DefaultPreferences["emailFrequency"] = ColumnDefaults["emailFrequency"]
  BY DEF DefaultPreferences, ColumnDefaults
<1>1. \A c \in DOMAIN DefaultPreferences : DefaultPreferences[c] = ColumnDefaults[c]
  BY <1>0, <1>a
<1>2. ColumnDefaults = [c \in Columns |-> ColumnDefaults[c]]
  BY ColumnNames
<1> QED BY <1>1, <1>2 DEF Overwritten, Columns

-----------------------------------------------------------------------------
(* Mails: every step of a worker, of the queue or of a caller *)

LEMMA InitEstablishesIInv == Init => IInv
<1> SUFFICES ASSUME Init PROVE IInv
  OBVIOUS
<1>1. MailShapes
  BY EmailAssumption DEF Init, MailShapes, Queue!QueueInit, Queue!QueueTypeOK, Queue!JobStates
<1>2. Locks /\ Orphans /\ Handed /\ History /\ Unrecorded
  BY EmailAssumption DEF Init, Locks, Orphans, Handed, History, Unrecorded, Queue!QueueInit
<1>3. PrefShapes
  BY ColumnNames, DefaultsAgree DEF Init, PrefShapes, Waiting, Request
<1>4. Told /\ Alone /\ Fresh
  BY DefaultsAgree DEF Init, Told, Alone, Fresh, Waiting, UnderWay
<1> QED BY <1>1, <1>2, <1>3, <1>4 DEF IInv, MailInv, PrefInv

\* Each action keeps what is known of the mails; one step per action.
LEMMA StepKeepsMailInv ==
    ASSUME MailInv, [Next]_vars
    PROVE  MailInv'
<1> USE DEF MailInv, mailVars, queueVars
<1>s. MailShapes
  OBVIOUS
<1>n. \A m \in Mails : sent[m] \in Nat /\ stalls[m] \in Nat /\ recorded[m] \in Nat
  BY EmailAssumption DEF MailShapes, Queue!QueueTypeOK
<1>1. ASSUME NEW m \in Mails, QueueMail(m) PROVE MailInv'
  <2>1. MailShapes'
    BY <1>1, NoneIsNew, EmailAssumption
       DEF QueueMail, MailShapes, Queue!QueueTypeOK, Queue!JobStates, Queue!Add
  <2>2. Locks'
    BY <1>1, NoneIsNew
       DEF QueueMail, Locks, MailShapes, Queue!QueueTypeOK, Queue!JobStates, Queue!Add
  <2>3. Orphans'
    BY <1>1, NoneIsNew, <1>n
       DEF QueueMail, Orphans, MailShapes, Queue!QueueTypeOK, Queue!JobStates, Queue!Add,
           Locks
  <2>4. Handed'
    BY <1>1, NoneIsNew, <1>n
       DEF QueueMail, Handed, MailShapes, Queue!QueueTypeOK, Queue!JobStates, Queue!Add,
           Locks
  <2>5. History'
    BY <1>1, NoneIsNew, <1>n
       DEF QueueMail, History, MailShapes, Queue!QueueTypeOK, Queue!JobStates, Queue!Add,
           Locks
  <2>6. Unrecorded'
    BY <1>1, NoneIsNew, <1>n
       DEF QueueMail, Unrecorded, MailShapes, Queue!QueueTypeOK, Queue!JobStates, Queue!Add,
           Locks, Orphans, Handed, History
  <2> QED BY <2>1, <2>2, <2>3, <2>4, <2>5, <2>6
<1>2. ASSUME NEW m \in Mails, QueueFails(m) PROVE MailInv'
  <2>1. MailShapes'
    BY <1>2, NoneIsNew, EmailAssumption
       DEF QueueFails, MailShapes, Queue!QueueTypeOK, Queue!JobStates
  <2>2. Locks'
    BY <1>2, NoneIsNew DEF QueueFails, Locks, MailShapes, Queue!QueueTypeOK, Queue!JobStates
  <2>3. Orphans'
    BY <1>2, NoneIsNew, <1>n
       DEF QueueFails, Orphans, MailShapes, Queue!QueueTypeOK, Queue!JobStates, Locks
  <2>4. Handed'
    BY <1>2, NoneIsNew, <1>n
       DEF QueueFails, Handed, MailShapes, Queue!QueueTypeOK, Queue!JobStates, Locks
  <2>5. History'
    BY <1>2, NoneIsNew, <1>n
       DEF QueueFails, History, MailShapes, Queue!QueueTypeOK, Queue!JobStates, Locks
  <2>6. Unrecorded'
    BY <1>2, NoneIsNew, <1>n
       DEF QueueFails, Unrecorded, MailShapes, Queue!QueueTypeOK, Queue!JobStates, Locks,
           Orphans, Handed, History
  <2> QED BY <2>1, <2>2, <2>3, <2>4, <2>5, <2>6
<1>3. ASSUME NEW m \in Mails, StallCheck(m) PROVE MailInv'
  <2>1. MailShapes'
    BY <1>3, NoneIsNew, EmailAssumption
       DEF StallCheck, MailShapes, Queue!QueueTypeOK, Queue!JobStates, Queue!Stall
  <2>2. Locks'
    BY <1>3, NoneIsNew
       DEF StallCheck, Locks, MailShapes, Queue!QueueTypeOK, Queue!JobStates, Queue!Stall
  <2>3. Orphans'
    BY <1>3, NoneIsNew, <1>n
       DEF StallCheck, Orphans, MailShapes, Queue!QueueTypeOK, Queue!JobStates, Queue!Stall,
           Locks
  <2>4. Handed'
    BY <1>3, NoneIsNew, <1>n
       DEF StallCheck, Handed, MailShapes, Queue!QueueTypeOK, Queue!JobStates, Queue!Stall,
           Locks
  <2>5. History'
    BY <1>3, NoneIsNew, <1>n
       DEF StallCheck, History, MailShapes, Queue!QueueTypeOK, Queue!JobStates, Queue!Stall,
           Locks
  <2>6. Unrecorded'
    BY <1>3, NoneIsNew, <1>n
       DEF StallCheck, Unrecorded, MailShapes, Queue!QueueTypeOK, Queue!JobStates,
           Queue!Stall, Locks, Orphans, Handed, History
  <2> QED BY <2>1, <2>2, <2>3, <2>4, <2>5, <2>6
<1>4. ASSUME NEW w \in Workers, NEW m \in Mails, TakeJob(m, w) PROVE MailInv'
  <2>1. MailShapes'
    BY <1>4, NoneIsNew, EmailAssumption
       DEF TakeJob, MailShapes, Queue!QueueTypeOK, Queue!JobStates, Queue!Take
  <2>2. Locks'
    BY <1>4, NoneIsNew
       DEF TakeJob, Locks, MailShapes, Queue!QueueTypeOK, Queue!JobStates, Queue!Take
  <2>3. Orphans'
    BY <1>4, NoneIsNew, <1>n
       DEF TakeJob, Orphans, MailShapes, Queue!QueueTypeOK, Queue!JobStates, Queue!Take,
           Locks
  <2>4. Handed'
    BY <1>4, NoneIsNew, <1>n
       DEF TakeJob, Handed, MailShapes, Queue!QueueTypeOK, Queue!JobStates, Queue!Take,
           Locks
  <2>5. History'
    BY <1>4, NoneIsNew, <1>n
       DEF TakeJob, History, MailShapes, Queue!QueueTypeOK, Queue!JobStates, Queue!Take,
           Locks
  <2>6. Unrecorded'
    BY <1>4, NoneIsNew, <1>n
       DEF TakeJob, Unrecorded, MailShapes, Queue!QueueTypeOK, Queue!JobStates, Queue!Take,
           Locks, Orphans, Handed, History
  <2> QED BY <2>1, <2>2, <2>3, <2>4, <2>5, <2>6
<1>5. ASSUME NEW w \in Workers, Send(w) PROVE MailInv'
  <2>1. MailShapes'
    BY <1>5, NoneIsNew, EmailAssumption
       DEF Send, MailShapes, Queue!QueueTypeOK, Queue!JobStates, Goto, Locks
  <2>2. Locks'
    BY <1>5, NoneIsNew DEF Send, Locks, MailShapes, Queue!QueueTypeOK, Queue!JobStates, Goto
  <2>3. Orphans'
    BY <1>5, NoneIsNew, <1>n
       DEF Send, Orphans, MailShapes, Queue!QueueTypeOK, Queue!JobStates, Goto, Locks
  <2>4. Handed'
    BY <1>5, NoneIsNew, <1>n
       DEF Send, Handed, MailShapes, Queue!QueueTypeOK, Queue!JobStates, Goto, Locks
  <2>5. History'
    BY <1>5, NoneIsNew, <1>n
       DEF Send, History, MailShapes, Queue!QueueTypeOK, Queue!JobStates, Goto, Locks
  <2>6. Unrecorded'
    BY <1>5, NoneIsNew, <1>n
       DEF Send, Unrecorded, MailShapes, Queue!QueueTypeOK, Queue!JobStates, Goto, Locks,
           Orphans, Handed, History
  <2> QED BY <2>1, <2>2, <2>3, <2>4, <2>5, <2>6
<1>6. ASSUME NEW w \in Workers, SendFails(w) PROVE MailInv'
  <2>1. MailShapes'
    BY <1>6, NoneIsNew, EmailAssumption
       DEF SendFails, MailShapes, Queue!QueueTypeOK, Queue!JobStates, Goto, Locks
  <2>2. Locks'
    BY <1>6, NoneIsNew
       DEF SendFails, Locks, MailShapes, Queue!QueueTypeOK, Queue!JobStates, Goto
  <2>3. Orphans'
    BY <1>6, NoneIsNew, <1>n
       DEF SendFails, Orphans, MailShapes, Queue!QueueTypeOK, Queue!JobStates, Goto, Locks
  <2>4. Handed'
    BY <1>6, NoneIsNew, <1>n
       DEF SendFails, Handed, MailShapes, Queue!QueueTypeOK, Queue!JobStates, Goto, Locks
  <2>5. History'
    BY <1>6, NoneIsNew, <1>n
       DEF SendFails, History, MailShapes, Queue!QueueTypeOK, Queue!JobStates, Goto, Locks
  <2>6. Unrecorded'
    BY <1>6, NoneIsNew, <1>n
       DEF SendFails, Unrecorded, MailShapes, Queue!QueueTypeOK, Queue!JobStates, Goto,
           Locks, Orphans, Handed, History
  <2> QED BY <2>1, <2>2, <2>3, <2>4, <2>5, <2>6
<1>7. ASSUME NEW w \in Workers, Record(w) PROVE MailInv'
  <2>1. MailShapes'
    BY <1>7, NoneIsNew, EmailAssumption
       DEF Record, MailShapes, Queue!QueueTypeOK, Queue!JobStates, Goto, Locks
  <2>2. Locks'
    BY <1>7, NoneIsNew
       DEF Record, Locks, MailShapes, Queue!QueueTypeOK, Queue!JobStates, Goto
  <2>3. Orphans'
    BY <1>7, NoneIsNew, <1>n
       DEF Record, Orphans, MailShapes, Queue!QueueTypeOK, Queue!JobStates, Goto, Locks
  <2>4. Handed'
    BY <1>7, NoneIsNew, <1>n
       DEF Record, Handed, MailShapes, Queue!QueueTypeOK, Queue!JobStates, Goto, Locks
  <2>5. History'
    BY <1>7, NoneIsNew, <1>n
       DEF Record, History, MailShapes, Queue!QueueTypeOK, Queue!JobStates, Goto, Locks
  <2>6. Unrecorded'
    BY <1>7, NoneIsNew, <1>n
       DEF Record, Unrecorded, MailShapes, Queue!QueueTypeOK, Queue!JobStates, Goto, Locks,
           Orphans, Handed, History
  <2> QED BY <2>1, <2>2, <2>3, <2>4, <2>5, <2>6
<1>8. ASSUME NEW w \in Workers, RecordFails(w) PROVE MailInv'
  <2>1. MailShapes'
    BY <1>8, NoneIsNew, EmailAssumption
       DEF RecordFails, MailShapes, Queue!QueueTypeOK, Queue!JobStates, Goto, Locks
  <2>2. Locks'
    BY <1>8, NoneIsNew
       DEF RecordFails, Locks, MailShapes, Queue!QueueTypeOK, Queue!JobStates, Goto
  <2>3. Orphans'
    BY <1>8, NoneIsNew, <1>n
       DEF RecordFails, Orphans, MailShapes, Queue!QueueTypeOK, Queue!JobStates, Goto, Locks
  <2>4. Handed'
    BY <1>8, NoneIsNew, <1>n
       DEF RecordFails, Handed, MailShapes, Queue!QueueTypeOK, Queue!JobStates, Goto, Locks
  <2>5. History'
    BY <1>8, NoneIsNew, <1>n
       DEF RecordFails, History, MailShapes, Queue!QueueTypeOK, Queue!JobStates, Goto, Locks
  <2>6. Unrecorded'
    BY <1>8, NoneIsNew, <1>n
       DEF RecordFails, Unrecorded, MailShapes, Queue!QueueTypeOK, Queue!JobStates, Goto,
           Locks, Orphans, Handed, History
  <2> QED BY <2>1, <2>2, <2>3, <2>4, <2>5, <2>6
<1>9. ASSUME NEW w \in Workers, Finish(w) PROVE MailInv'
  <2>1. MailShapes'
    BY <1>9, NoneIsNew, EmailAssumption
       DEF Finish, MailShapes, Queue!QueueTypeOK, Queue!JobStates, Leave, Queue!Complete,
           Locks
  <2>2. Locks'
    BY <1>9, NoneIsNew
       DEF Finish, Locks, MailShapes, Queue!QueueTypeOK, Queue!JobStates, Leave,
           Queue!Complete
  <2>3. Orphans'
    BY <1>9, NoneIsNew, <1>n
       DEF Finish, Orphans, MailShapes, Queue!QueueTypeOK, Queue!JobStates, Leave,
           Queue!Complete, Locks
  <2>4. Handed'
    BY <1>9, NoneIsNew, <1>n
       DEF Finish, Handed, MailShapes, Queue!QueueTypeOK, Queue!JobStates, Leave,
           Queue!Complete, Locks
  <2>5. History'
    BY <1>9, NoneIsNew, <1>n
       DEF Finish, History, MailShapes, Queue!QueueTypeOK, Queue!JobStates, Leave,
           Queue!Complete, Locks
  <2>6. Unrecorded'
    BY <1>9, NoneIsNew, <1>n
       DEF Finish, Unrecorded, MailShapes, Queue!QueueTypeOK, Queue!JobStates, Leave,
           Queue!Complete, Locks, Orphans, Handed, History
  <2> QED BY <2>1, <2>2, <2>3, <2>4, <2>5, <2>6
<1>10. ASSUME NEW w \in Workers, Rethrow(w) PROVE MailInv'
  <2>1. MailShapes'
    BY <1>10, NoneIsNew, EmailAssumption
       DEF Rethrow, MailShapes, Queue!QueueTypeOK, Queue!JobStates, Leave, Queue!Fail, Locks
  <2>2. Locks'
    BY <1>10, NoneIsNew
       DEF Rethrow, Locks, MailShapes, Queue!QueueTypeOK, Queue!JobStates, Leave, Queue!Fail
  <2>3. Orphans'
    BY <1>10, NoneIsNew, <1>n
       DEF Rethrow, Orphans, MailShapes, Queue!QueueTypeOK, Queue!JobStates, Leave,
           Queue!Fail, Locks
  <2>4. Handed'
    BY <1>10, NoneIsNew, <1>n
       DEF Rethrow, Handed, MailShapes, Queue!QueueTypeOK, Queue!JobStates, Leave,
           Queue!Fail, Locks
  <2>5. History'
    BY <1>10, NoneIsNew, <1>n
       DEF Rethrow, History, MailShapes, Queue!QueueTypeOK, Queue!JobStates, Leave,
           Queue!Fail, Locks
  <2>6. Unrecorded'
    BY <1>10, NoneIsNew, <1>n
       DEF Rethrow, Unrecorded, MailShapes, Queue!QueueTypeOK, Queue!JobStates, Leave,
           Queue!Fail, Locks, Orphans, Handed, History
  <2> QED BY <2>1, <2>2, <2>3, <2>4, <2>5, <2>6
<1>11. ASSUME NEW w \in Workers, Crash(w) PROVE MailInv'
  <2>1. MailShapes'
    BY <1>11, NoneIsNew, EmailAssumption
       DEF Crash, MailShapes, Queue!QueueTypeOK, Queue!JobStates, Leave, Queue!Abandon,
           Locks
  <2>2. Locks'
    BY <1>11, NoneIsNew
       DEF Crash, Locks, MailShapes, Queue!QueueTypeOK, Queue!JobStates, Leave,
           Queue!Abandon
  <2>3. Orphans'
    BY <1>11, NoneIsNew, <1>n
       DEF Crash, Orphans, MailShapes, Queue!QueueTypeOK, Queue!JobStates, Leave,
           Queue!Abandon, Locks
  <2>4. Handed'
    BY <1>11, NoneIsNew, <1>n
       DEF Crash, Handed, MailShapes, Queue!QueueTypeOK, Queue!JobStates, Leave,
           Queue!Abandon, Locks
  <2>5. History'
    BY <1>11, NoneIsNew, <1>n
       DEF Crash, History, MailShapes, Queue!QueueTypeOK, Queue!JobStates, Leave,
           Queue!Abandon, Locks
  <2>6. Unrecorded'
    BY <1>11, NoneIsNew, <1>n
       DEF Crash, Unrecorded, MailShapes, Queue!QueueTypeOK, Queue!JobStates, Leave,
           Queue!Abandon, Locks, Orphans, Handed, History
  <2> QED BY <2>1, <2>2, <2>3, <2>4, <2>5, <2>6
<1>12. ASSUME UNCHANGED <<mailVars, pc, at, crashes, queueVars, orphaned>> PROVE MailInv'
  BY <1>12 DEF Queue!QueueTypeOK, MailShapes, Locks, Orphans, Handed, History, Unrecorded
<1>13. (\E u \in Updates : UpdateStep(u)) \/ Idle \/ UNCHANGED vars =>
          UNCHANGED <<mailVars, pc, at, crashes, queueVars, orphaned>>
  BY DEF UpdateStep, Idle, vars
<1> QED
  BY <1>1, <1>2, <1>3, <1>4, <1>5, <1>6, <1>7, <1>8, <1>9, <1>10, <1>11, <1>12, <1>13
     DEF Next, WorkerStep
-----------------------------------------------------------------------------
(* Preferences: every step of an update *)

\* A request starts: it sees the row, or that there is none.
LEMMA FindKeepsPrefInv ==
    ASSUME PrefInv, NEW u \in Updates, NEW change \in Changes, FindPreferences(u, change)
    PROVE  PrefInv'
<1> USE DEF PrefInv
<1> DEFINE found == IF prefs = None
                    THEN [Waiting EXCEPT !.at = "insert", !.change = change]
                    ELSE [Waiting EXCEPT !.at = "compare", !.change = change,
                                         !.entity = Overwritten(prefs, change)]
<1>1. prefs # None => prefs \in Preferences /\ Overwritten(prefs, change) \in Preferences
  BY OverwrittenIsRow DEF PrefShapes
<1>2. /\ found \in Request /\ found.change = change
      /\ prefs = None => found.at = "insert"
      /\ prefs # None => found.at = "compare" /\ found.entity = Overwritten(prefs, change)
  BY <1>1 DEF Waiting, Request
<1> HIDE DEF found
<1>3. /\ update' \in [Updates -> Request] /\ update'[u] = found
      /\ \A v \in Updates : v # u => update'[v] = update[v]
      /\ UNCHANGED <<prefs, promised>> /\ ~UnderWay(u)
  BY <1>2 DEF FindPreferences, PrefShapes, UnderWay, found
<1>4. /\ overlapped \subseteq overlapped' /\ overlapped' \subseteq Updates
      /\ \A v \in Updates : UnderWay(v) => v \in overlapped' /\ u \in overlapped'
  BY DEF FindPreferences, PrefShapes
<1>5. PrefShapes'
  BY <1>1, <1>2, <1>3, <1>4 DEF PrefShapes
<1>6. Told'
  BY <1>3 DEF Told
<1>7. Alone'
  <2>1. \A v \in Updates : v # u => (UnderWay(v)' <=> UnderWay(v))
    BY <1>3 DEF UnderWay
  <2> QED BY <1>4, <2>1 DEF Alone
<1>8. Fresh'
  BY <1>2, <1>3, <1>4 DEF Fresh
<1> QED BY <1>5, <1>6, <1>7, <1>8

\* The request's last statement writes `row`: nobody else is under way, unless
\* the request was seen to overlap.
LEMMA SavedKeepsPrefInv ==
    ASSUME PrefInv, NEW u \in Updates, UnderWay(u), NEW row \in Preferences, Saved(u, row),
           u \notin overlapped =>
               row = Overwritten(IF prefs = None THEN ColumnDefaults ELSE prefs, update[u].change)
    PROVE  PrefInv'
<1> USE DEF PrefInv
<1>1. /\ prefs' = row /\ row # None /\ UNCHANGED overlapped
      /\ update' \in [Updates -> Request] /\ update'[u].at = "success"
      /\ \A v \in Updates : v # u => update'[v] = update[v]
  BY NoneIsNew DEF Saved, PrefShapes, Request
<1>2. promised' = row
  <2>1. CASE u \in overlapped
    BY <2>1 DEF Saved
  <2>2. CASE u \notin overlapped
    BY <2>2 DEF Saved, Told
  <2> QED BY <2>1, <2>2
<1>3. \A v \in Updates : UnderWay(v)' => v # u /\ UnderWay(v)
  BY <1>1 DEF UnderWay
<1>4. \A v \in Updates : UnderWay(v)' => v \in overlapped
  BY <1>3 DEF Alone
<1>5. PrefShapes' /\ Told'
  BY <1>1, <1>2 DEF PrefShapes, Told
<1>6. Alone'
  BY <1>1, <1>4 DEF Alone
<1>7. Fresh'
  BY <1>1, <1>4 DEF Fresh, UnderWay
<1> QED BY <1>5, <1>6, <1>7

\* A step that changes neither the row nor what was told, and makes no request
\* that is over or waiting go on.
LEMMA QuietKeepsPrefInv ==
    ASSUME PrefInv, NEW u \in Updates, UNCHANGED <<prefs, overlapped, promised>>,
           update' \in [Updates -> Request],
           \A v \in Updates : v # u => update'[v] = update[v],
           \/ update'[u].at = "error"
           \/ /\ update[u].at = "compare" /\ update'[u].at = "write"
              /\ update'[u].change = update[u].change /\ update'[u].entity = update[u].entity
              /\ update'[u].diff = {c \in Columns : update[u].entity[c] # prefs[c]}
    PROVE  PrefInv'
<1> USE DEF PrefInv
<1>1. \A v \in Updates : UnderWay(v)' => UnderWay(v)
  BY DEF UnderWay
<1>2. PrefShapes' /\ Told'
  BY DEF PrefShapes, Told
<1>3. Alone'
  BY <1>1 DEF Alone
<1>4. Fresh'
  BY DEF Fresh
<1> QED BY <1>2, <1>3, <1>4

LEMMA StepKeepsPrefInv ==
    ASSUME PrefInv, [Next]_vars
    PROVE  PrefInv'
<1> USE DEF PrefInv
<1>1. ASSUME NEW u \in Updates, UpdateStep(u) PROVE PrefInv'
  <2>1. ASSUME NEW change \in Changes, FindPreferences(u, change) PROVE PrefInv'
    BY <2>1, FindKeepsPrefInv
  <2>2. ASSUME InsertPreferences(u) PROVE PrefInv'
    <3>1. /\ prefs = None /\ UnderWay(u)
          /\ Saved(u, Overwritten(ColumnDefaults, update[u].change))
      BY <2>2 DEF InsertPreferences, UnderWay
    <3>2. Overwritten(ColumnDefaults, update[u].change) \in Preferences
      <4>1. update[u].change \in Changes \/ update[u].change = <<>>
        BY DEF PrefShapes, Request
      <4>2. Overwritten(ColumnDefaults, <<>>) = ColumnDefaults
        <5>1. ColumnDefaults = [c \in DOMAIN ColumnDefaults |-> ColumnDefaults[c]]
          BY ColumnNames DEF Columns
        <5> QED BY <5>1 DEF Overwritten
      <4> QED BY <4>1, <4>2, OverwrittenIsRow, ColumnNames
    <3> QED BY <3>1, <3>2, SavedKeepsPrefInv
  <2>3. ASSUME InsertRefused(u) PROVE PrefInv'
    <3>1. /\ UNCHANGED <<prefs, overlapped, promised>> /\ update' \in [Updates -> Request]
          /\ \A v \in Updates : v # u => update'[v] = update[v]
          /\ update'[u].at = "error"
      BY <2>3 DEF InsertRefused, PrefShapes, Request
    <3> QED BY <3>1, QuietKeepsPrefInv
  <2>4. ASSUME ComparePreferences(u) PROVE PrefInv'
    <3>1. prefs \in Preferences /\ DOMAIN prefs = Columns /\ update[u].at = "compare"
      BY <2>4, ColumnNames DEF ComparePreferences, PrefShapes
    <3>2. {c \in Columns : update[u].entity[c] # prefs[c]} \in SUBSET Columns
      OBVIOUS
    <3>3. /\ UNCHANGED <<prefs, overlapped, promised>> /\ update' \in [Updates -> Request]
          /\ \A v \in Updates : v # u => update'[v] = update[v]
          /\ update'[u].at = "write"
          /\ update'[u].change = update[u].change /\ update'[u].entity = update[u].entity
          /\ update'[u].diff = {c \in Columns : update[u].entity[c] # prefs[c]}
      BY <2>4, <3>1, <3>2 DEF ComparePreferences, PrefShapes, Request
    <3> QED BY <3>1, <3>3, QuietKeepsPrefInv
  <2>5. ASSUME WritePreferences(u) PROVE PrefInv'
    <3> DEFINE row == [c \in DOMAIN prefs |->
                          IF c \in update[u].diff THEN update[u].entity[c] ELSE prefs[c]]
    <3>1. update[u].at = "write" /\ UnderWay(u) /\ Saved(u, row)
      BY <2>5 DEF WritePreferences, UnderWay
    <3>2. /\ prefs \in Preferences /\ prefs # None /\ DOMAIN prefs = Columns
          /\ update[u].entity \in Preferences /\ update[u].diff \in SUBSET Columns
      BY <3>1, ColumnNames DEF PrefShapes, Request
    <3>3. row \in Preferences
      BY <3>2, MixedIsRow
    <3>4. ASSUME u \notin overlapped PROVE row = Overwritten(prefs, update[u].change)
      <4>1. /\ update[u].entity = Overwritten(prefs, update[u].change)
            /\ update[u].diff = {c \in Columns : update[u].entity[c] # prefs[c]}
        BY <3>1, <3>4 DEF Fresh
      <4>2. \A c \in Columns : row[c] = update[u].entity[c]
        BY <3>2, <4>1
      <4>3. update[u].entity = [c \in Columns |-> update[u].entity[c]]
        BY <3>2, ColumnNames
      <4> QED BY <3>2, <4>1, <4>2, <4>3
    <3> HIDE DEF row
    <3> QED BY <3>1, <3>2, <3>3, <3>4, SavedKeepsPrefInv
  <2> QED BY <1>1, <2>1, <2>2, <2>3, <2>4, <2>5 DEF UpdateStep
<1>2. ASSUME UNCHANGED prefVars PROVE PrefInv'
  <2>1. \A v \in Updates : UnderWay(v)' <=> UnderWay(v)
    BY <1>2 DEF prefVars, UnderWay
  <2> QED BY <1>2, <2>1 DEF prefVars, PrefShapes, Told, Alone, Fresh
<1>3. (\E u \in Updates : UpdateStep(u)) \/ UNCHANGED prefVars
  BY DEF Next, WorkerStep, QueueMail, QueueFails, StallCheck, TakeJob, Send, SendFails, Record,
     RecordFails, Finish, Rethrow, Crash, Idle, vars
<1> QED BY <1>1, <1>2, <1>3

-----------------------------------------------------------------------------
(* The theorems *)

LEMMA Invariance == Spec => []IInv
<1>1. IInv /\ [Next]_vars => IInv'
  BY StepKeepsMailInv, StepKeepsPrefInv DEF IInv
<1> QED BY InitEstablishesIInv, <1>1, PTL DEF Spec

\* Mails, workers, the queue, the row and the requests have their shapes.
THEOREM TypeCorrect == Spec => []TypeOK
<1>1. IInv => TypeOK
  BY DEF IInv, MailInv, MailShapes, PrefInv, PrefShapes, Request, Columns, TypeOK
<1> QED BY Invariance, <1>1, PTL

\* A mail is handed to the server at most once for each time its job is handed
\* out; the history and the queue never claim more than the server accepted.
THEOREM DeliveriesAreTrue == Spec => []DeliveryIsTrue
<1>1. ASSUME IInv PROVE DeliveryIsTrue
  <2> USE <1>1 DEF IInv, MailInv
  <2>1. \A m \in Mails : /\ sent[m] \in Nat /\ stalls[m] \in 0 .. MaxStalls
                         /\ sent[m] <= stalls[m] + 1
    BY DEF MailShapes, Queue!QueueTypeOK, Handed
  <2>2. \A m \in Mails : m \notin orphaned => stalls[m] = 0
    BY <2>1, EmailAssumption DEF Orphans
  <2>3. SentOnce
    <3>1. MaxStalls \in Nat
      BY EmailAssumption
    <3>2. ASSUME NEW m \in Mails
          PROVE  sent[m] <= 1 + MaxStalls /\ (m \notin orphaned => sent[m] <= 1)
      <4>1. /\ sent[m] \in Nat /\ stalls[m] \in Nat /\ stalls[m] <= MaxStalls
            /\ sent[m] <= stalls[m] + 1
        BY <2>1, <3>1
      <4> QED BY <2>2, <3>1, <4>1
    <3> QED BY <3>2 DEF SentOnce
  <2>4. HistoryIsTrue
    BY DEF History, HistoryIsTrue
  <2>5. FailedIsUnrecorded
    <3>1. ASSUME NEW m \in Mails, jobState[m] = "failed", m \notin orphaned
          PROVE  recorded[m] <= 1 /\ (m \notin unanswered => recorded[m] = 0)
      <4>1. recorded[m] <= sent[m] /\ sent[m] <= 1 /\ recorded[m] \in Nat /\ sent[m] \in Nat
        BY <2>3, <2>4, <3>1 DEF SentOnce, HistoryIsTrue, MailShapes
      <4>2. m \notin unanswered => recorded[m] = 0
        BY <3>1 DEF Unrecorded
      <4> QED BY <4>1, <4>2
    <3> QED BY <3>1 DEF FailedIsUnrecorded
  <2> QED BY <2>3, <2>4, <2>5 DEF DeliveryIsTrue
<1> QED BY Invariance, <1>1, PTL

\* What the user was told of each column is what the row, or the answer
\* without a row, says.
THEOREM PreferencesStay == Spec => []PreferencesAreKept
<1>1. IInv => PreferencesAreKept
  BY DefaultsAgree DEF IInv, PrefInv, Told, PreferencesAreKept, GetEmailPreferences
<1> QED BY Invariance, <1>1, PTL
=============================================================================
