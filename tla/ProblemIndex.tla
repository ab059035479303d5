---------------------------- MODULE ProblemIndex ----------------------------
(***************************************************************************)
(* The problems of the problem-service, the events it publishes about them *)
(* and the search index.  Every operation of ProblemService is a           *)
(* transaction: it reads, decides, publishes an event on Redis while it is *)
(* still open, and its UPDATE or DELETE reaches the database when it       *)
(* commits (a new row gets its id, and is inserted, at save()).  The       *)
(* listener of the search-service turns every event it receives into an    *)
(* HTTP request to Meilisearch without waiting for the one before.         *)
(*                                                                         *)
(* Isolation is READ COMMITTED: a transaction sees what is committed when  *)
(* it reads, and waits where it meets an uncommitted row with its title.   *)
(* A row of problems is [title, content]; content stands for difficulty,   *)
(* description, examples and published.  Hibernate writes every column of  *)
(* a row when one has changed, and none when none has.  The tags of a      *)
(* problem are rows of a table of their own, problem_tags: they are        *)
(* rewritten when the request gives them, whatever happens to the row, and *)
(* read when the event is made, not when the problem is loaded.  A test    *)
(* case is an id and its problem.  A flush and its commit are one step, so *)
(* that two of them never mix.                                             *)
(***************************************************************************)
EXTENDS Naturals, FiniteSets

CONSTANTS
    Workers,    \* transactions that can be open at a time
    Titles, Contents, Tags,
    NoRow,      \* "there is no row", "there is no document"
    NotGiven,   \* the request says nothing about the tags
    MaxId,      \* bound: ids handed out
    MaxTransactions,    \* bound: transactions in one behaviour
    MaxTests    \* bound: test cases ever added

ASSUME IndexAssumption ==
    /\ MaxId \in Nat \ {0}
    /\ MaxTransactions \in Nat
    /\ MaxTests \in Nat
    /\ NoRow \notin [title: Titles, content: Contents]
    /\ NoRow \notin [title: Titles, content: Contents, tags: SUBSET Tags]
    /\ \A given \in SUBSET Tags : given # NotGiven

Ids == 1 .. MaxId
Row == [title: Titles, content: Contents]
Documents == [title: Titles, content: Contents, tags: SUBSET Tags] \cup {NoRow}

VARIABLES
    rows,       \* rows[i]: the committed row, NoRow when there is none
    tags,       \* tags[i]: the committed tags of problem i
    tests,      \* committed test cases, as <<id, problem id>>
    nextId, nextTest,
    tx,         \* tx[w]: the transaction of worker w
    begun,      \* transactions so far
    requests,   \* requests to Meilisearch not yet applied (two that are
                \* equal are one: each says all there is to say)
    index       \* index[i]: the document Meilisearch has for i

\* History: heard[i] is what the last event about i said of it; behind[i] that
\* this need not be what the tables say, until a later transaction publishes
\* and commits alone; alone[w] that no other transaction of the problem was
\* open since w read it.
VARIABLES heard, behind, alone

tables == <<rows, tags, tests, nextId, nextTest>>
history == <<heard, behind, alone>>
vars == <<tables, tx, begun, requests, index, history>>

Idle == [step |-> "idle"]
Steps == {"idle", "insert", "tests", "index", "commit"}

\* The transaction has a problem (one that is being created gets it at save()).
OnProblem == {"tests", "index", "commit"}
On(w, i) == tx[w].step \in OnProblem /\ tx[w].id = i
Others(w, i) == {v \in Workers \ {w} : On(v, i)}
TestsOf(i) == {t \in tests : t[2] = i}

\* A title is taken by a committed row, or by a row inserted but not committed.
Taken(t, i) == \E j \in Ids \ {i} : rows[j] # NoRow /\ rows[j].title = t
Locked(t, w) ==
    \E v \in Workers \ {w} : /\ tx[v].step \in {"index", "commit"}
                             /\ tx[v].op = "create"
                             /\ tx[v].row.title = t

\* A problem as others see it: its row with its tags.
Joined(row, t) ==
    IF row = NoRow THEN NoRow
    ELSE [title |-> row.title, content |-> row.content, tags |-> t]
Saved(i) == Joined(rows[i], tags[i])

\* The table is empty, or holds a problem that was created and published before
\* (and that the index refused: see Published).
Init ==
    /\ \E first \in Row \cup {NoRow} :
           /\ rows = [i \in Ids |-> IF i = 1 THEN first ELSE NoRow]
           /\ nextId = IF first = NoRow THEN 1 ELSE 2
    /\ tags = [i \in Ids |-> {}]
    /\ tests = {}
    /\ nextTest = 1
    /\ tx = [w \in Workers |-> Idle]
    /\ begun = 0
    /\ requests = {}
    /\ index = [i \in Ids |-> NoRow]
    /\ heard = [i \in Ids |-> Saved(i)]
    /\ behind = [i \in Ids |-> FALSE]
    /\ alone = [w \in Workers |-> FALSE]

\* getProblemById: without a row the request is answered 404.
Exists(i) == rows[i] # NoRow

Begin(w, t) ==
    /\ tx[w] = Idle
    /\ begun < MaxTransactions
    /\ begun' = begun + 1
    /\ tx' = [tx EXCEPT ![w] = t]

\* w has read problem i.
Meets(w, i) ==
    alone' = [v \in Workers |-> IF v = w THEN Others(w, i) = {}
                               ELSE alone[v] /\ ~On(v, i)]

End(w) ==
    /\ tx' = [tx EXCEPT ![w] = Idle]
    /\ alone' = [alone EXCEPT ![w] = FALSE]

-----------------------------------------------------------------------------
\* createProblem

\* The row the controller makes from the request (not published, no tags).
NewProblem(t, c) == [title |-> t, content |-> c]

\* existsByTitle finds nothing.
CreateBegin(w, t, c) ==
    /\ ~Taken(t, 0)
    /\ Begin(w, [step |-> "insert", op |-> "create", row |-> NewProblem(t, c)])
    /\ UNCHANGED <<tables, requests, index, history>>

\* DuplicateTitleException: 409, nothing has changed.
CreateRefused(w, t) ==
    /\ tx[w] = Idle
    /\ Taken(t, 0)
    /\ UNCHANGED vars

\* Mutant: the event is made with the next id of the sequence.
CreateInsertNextId(w) ==
    /\ tx[w].step = "insert"
    /\ nextId <= MaxId
    /\ tx' = [tx EXCEPT ![w] = [step |-> "index", op |-> "create",
                  id |-> nextId + 1, row |-> @.row, read |-> NoRow,
                  tags |-> {}, gone |-> {}, added |-> {}]]
    /\ nextId' = nextId + 1
    /\ UNCHANGED <<rows, tags, tests, nextTest, begun, requests, index, history>>

\* save(): the INSERT takes an id; the unique index on title may refuse it.
\* The test cases of the request are inserted with it.
CreateInsert(w) ==
    /\ tx[w].step = "insert"
    /\ nextId <= MaxId
    /\ ~Taken(tx[w].row.title, 0)
    /\ ~Locked(tx[w].row.title, w)
    /\ \E more \in BOOLEAN :
        /\ more => nextTest <= MaxTests
        /\ tx' = [tx EXCEPT ![w] = [step |-> "index", op |-> "create",
                      id |-> nextId, row |-> @.row, read |-> NoRow,
                      tags |-> {}, gone |-> {},
                      added |-> IF more THEN {<<nextTest, nextId>>} ELSE {}]]
        /\ nextTest' = IF more THEN nextTest + 1 ELSE nextTest
    /\ nextId' = nextId + 1
    /\ alone' = [alone EXCEPT ![w] = TRUE]
    /\ UNCHANGED <<rows, tags, tests, begun, requests, index, heard, behind>>

-----------------------------------------------------------------------------
\* updateProblem, deleteProblem

\* The loaded row with the fields that the request gives set.
Changed(t, c) == [title |-> t, content |-> c]

\* Without test cases the fields are all there is to save; with them (the list
\* may be empty) the problem is published before the transaction commits.
UpdateBegin(w, i, t, c, given, withTests) ==
    /\ Exists(i)
    /\ Begin(w, [step |-> IF withTests THEN "tests" ELSE "commit",
                 op |-> "update", id |-> i, row |-> Changed(t, c),
                 read |-> rows[i], tags |-> given, gone |-> {}, added |-> {},
                 event |-> "none"])
    /\ Meets(w, i)
    /\ UNCHANGED <<tables, requests, index, heard, behind>>

\* Some test cases are marked for removal (saving the problem may cascade to
\* them and keep them) and a new one may be inserted, which needs the problem
\* to exist and, until the commit, keeps it from being deleted.
RewriteTests(w) ==
    /\ tx[w].step = "tests"
    /\ \E gone \in SUBSET TestsOf(tx[w].id), more \in BOOLEAN :
        /\ more => nextTest <= MaxTests /\ rows[tx[w].id] # NoRow
        /\ tx' = [tx EXCEPT ![w].step = "index", ![w].gone = gone,
               ![w].added = IF more THEN {<<nextTest, tx[w].id>>} ELSE {}]
        /\ nextTest' = IF more THEN nextTest + 1 ELSE nextTest
    /\ UNCHANGED <<rows, tags, tests, nextId, begun, requests, index, history>>

\* The problem and its test cases are loaded and marked for removal; its tags
\* go with the row.
DeleteBegin(w, i) ==
    /\ Exists(i)
    /\ Begin(w, [step |-> "index", op |-> "delete", id |-> i, row |-> NoRow,
                 read |-> rows[i], tags |-> {}, gone |-> TestsOf(i),
                 added |-> {}])
    /\ Meets(w, i)
    /\ UNCHANGED <<tables, requests, index, heard, behind>>

-----------------------------------------------------------------------------
\* SearchService.indexProblem and deleteProblem, and the listener

\* Hibernate writes a row only when a field differs from what was read.
Dirty(w) == tx[w].row # tx[w].read

\* The tags as w will leave them, or as they are now: they are loaded when
\* they are asked for.
TagsLeft(w) == IF tx[w].tags = NotGiven THEN tags[tx[w].id] ELSE tx[w].tags

\* Mutant: the event carries the row as it was read.
DocumentAsRead(w) == Joined(tx[w].read, TagsLeft(w))

\* What the event says of the problem: the row as this transaction will leave
\* it, and its tags.
Document(w) == Joined(tx[w].row, TagsLeft(w))

\* GenericJackson2JsonRedisSerializer names the class of a Long: an id is
\* published as ["java.lang.Long", i], and is an array for the listener too.
Published(i) == [json |-> "array", value |-> i]

\* event is "sent" when the listener receives it, "lost" when nobody does.
Publish(w, event) ==
    tx' = [tx EXCEPT ![w] =
        [step |-> "commit", op |-> @.op, id |-> @.id, row |-> @.row,
         read |-> @.read, tags |-> @.tags, gone |-> @.gone, added |-> @.added,
         event |-> event]]

\* The event reaches the listener, which sends its request.
IndexSent(w) ==
    /\ tx[w].step = "index"
    /\ requests' = requests \cup
           {[id |-> Published(tx[w].id), doc |-> Document(w)]}
    /\ heard' = [heard EXCEPT ![tx[w].id] = Document(w)]
    /\ Publish(w, "sent")
    /\ UNCHANGED <<tables, begun, index, behind, alone>>

\* Redis is away (the exception is swallowed), or nobody is subscribed.
IndexLost(w) ==
    /\ tx[w].step = "index"
    /\ Publish(w, "lost")
    /\ UNCHANGED <<tables, begun, requests, index, history>>

\* addDocuments, deleteDocument: any request in flight may be the next.
\* Meilisearch takes integers and strings for ids, and refuses the others.
Apply(q) ==
    /\ q \in requests
    /\ requests' = requests \ {q}
    /\ index' = IF q.id.json \in {"number", "string"}
                THEN [index EXCEPT ![q.id.value] = q.doc] ELSE index
    /\ UNCHANGED <<tables, tx, begun, history>>

\* Meilisearch is away: the listener logs it.
ApplyFails(q) ==
    /\ q \in requests
    /\ requests' = requests \ {q}
    /\ UNCHANGED <<tables, tx, begun, index, history>>

\* searchProblems: the documents with the title that is asked for and the
\* difficulty and tags of the filters.
SearchProblems(title, content, t) ==
    {i \in Ids : index[i] = [title |-> title, content |-> content, tags |-> t]}

-----------------------------------------------------------------------------
\* The end of a transaction

\* Mutant: no foreign key from the test cases to the problems.
AcceptedUnchecked(w) ==
    LET i == tx[w].id IN
    /\ rows[i] = NoRow => tx[w].tags \in {NotGiven, {}} \/ tx[w].op = "create"
    /\ \/ tx[w].op = "create"
       \/ tx[w].op = "update" /\ ~Dirty(w)
       \/ /\ tx[w].op = "update" /\ Dirty(w)
          /\ rows[i] # NoRow
          /\ ~Taken(tx[w].row.title, i)
          /\ ~Locked(tx[w].row.title, w)
       \/ tx[w].op = "delete" /\ rows[i] # NoRow

\* What the database accepts when the changes of w are flushed: a new title is
\* still free; the row, and each test case to delete, is still there; tags and
\* test cases have a problem and none would lose it, not one that is yet to be
\* committed either.
Accepted(w) ==
    LET i == tx[w].id IN
    /\ tx[w].gone \subseteq tests
    /\ \/ tx[w].op = "create"
       \/ /\ tx[w].op = "update"
          /\ rows[i] = NoRow => ~Dirty(w) /\ tx[w].tags \in {NotGiven, {}}
          /\ Dirty(w) => /\ ~Taken(tx[w].row.title, i)
                         /\ ~Locked(tx[w].row.title, w)
       \/ /\ tx[w].op = "delete"
          /\ rows[i] # NoRow
          /\ TestsOf(i) \subseteq tx[w].gone
          /\ \A v \in Others(w, i) : tx[v].added = {}

\* The commit of a transaction that was alone and whose event was received is
\* what the event said; one that changes the tables otherwise, or whose event
\* overlapped with another transaction, leaves the event behind.
Commit(w) ==
    LET i == tx[w].id
        changes == Dirty(w) \/ TagsLeft(w) # tags[i]
    IN
    /\ tx[w].step = "commit"
    /\ Accepted(w)
    /\ rows' = IF Dirty(w) THEN [rows EXCEPT ![i] = tx[w].row] ELSE rows
    /\ tags' = [tags EXCEPT ![i] = TagsLeft(w)]
    /\ tests' = (tests \ tx[w].gone) \cup tx[w].added
    /\ behind' = [behind EXCEPT ![i] =
           IF tx[w].event = "sent" THEN ~alone[w] ELSE @ \/ changes]
    /\ End(w)
    /\ UNCHANGED <<nextId, nextTest, begun, requests, index, heard>>

\* Any exception: a title taken at INSERT, a test case that is not found, a
\* flush that is refused, a lost connection.  The event cannot be taken back.
Rollback(w) ==
    /\ tx[w] # Idle
    /\ behind' = IF tx[w].step = "commit"
                 THEN [behind EXCEPT ![tx[w].id] = @ \/ tx[w].event = "sent"]
                 ELSE behind
    /\ End(w)
    /\ UNCHANGED <<tables, begun, requests, index, heard>>

-----------------------------------------------------------------------------
\* addTestCase: the foreign key holds the problem until the commit.
AddTestCase(i) ==
    /\ Exists(i)
    /\ nextTest <= MaxTests
    /\ tests' = tests \cup {<<nextTest, i>>}
    /\ nextTest' = nextTest + 1
    /\ UNCHANGED <<rows, tags, nextId, tx, begun, requests, index, history>>

DeleteTestCase(t) ==
    /\ t \in tests
    /\ tests' = tests \ {t}
    /\ UNCHANGED <<rows, tags, nextId, nextTest, tx, begun, requests, index,
                   history>>

-----------------------------------------------------------------------------
\* No more transactions are begun.
Over ==
    /\ begun = MaxTransactions
    /\ \A w \in Workers : tx[w] = Idle
    /\ UNCHANGED vars

Next ==
    \/ \E w \in Workers :
        \/ \E t \in Titles :
            \/ \E c \in Contents : CreateBegin(w, t, c)
            \/ CreateRefused(w, t)
        \/ CreateInsert(w)
        \/ \E i \in Ids :
            \/ \E t \in Titles, c \in Contents, b \in BOOLEAN,
                  given \in (SUBSET Tags) \cup {NotGiven} :
                   UpdateBegin(w, i, t, c, given, b)
            \/ DeleteBegin(w, i)
        \/ RewriteTests(w)
        \/ IndexSent(w)
        \/ IndexLost(w)
        \/ Commit(w)
        \/ Rollback(w)
    \/ \E q \in requests : Apply(q) \/ ApplyFails(q)
    \/ \E i \in Ids : AddTestCase(i)
    \/ \E t \in tests : DeleteTestCase(t)
    \/ Over

Spec == Init /\ [][Next]_vars

-----------------------------------------------------------------------------
\* Type correctness of the tables, the transactions and the index.
TypeOK ==
    /\ rows \in [Ids -> Row \cup {NoRow}]
    /\ tags \in [Ids -> SUBSET Tags]
    /\ index \in [Ids -> Documents] /\ heard \in [Ids -> Documents]
    /\ tests \subseteq (1 .. MaxTests) \X Ids
    /\ nextId \in 1 .. MaxId + 1 /\ nextTest \in 1 .. MaxTests + 1
    /\ begun \in 0 .. MaxTransactions
    /\ requests \subseteq [id: {Published(i) : i \in Ids}, doc: Documents]
    /\ behind \in [Ids -> BOOLEAN] /\ alone \in [Workers -> BOOLEAN]
    /\ \A w \in Workers :
           /\ tx[w].step \in Steps
           /\ tx[w].step \in OnProblem =>
                  /\ tx[w].id \in 1 .. nextId - 1
                  /\ {tx[w].row, tx[w].read} \subseteq Row \cup {NoRow}

\* No two problems have one title, although createProblem looks it up long
\* before it inserts, and updateProblem does not look it up at all.
TitlesAreUnique ==
    \A i, j \in Ids :
        (i # j /\ rows[i] # NoRow /\ rows[j] # NoRow)
            => rows[i].title # rows[j].title

\* No test case is left without its problem when one is added while the
\* problem is being deleted: deleteProblem removes the ones it has loaded.
NoOrphanTests ==
    \A t \in tests : rows[t[2]] # NoRow

\* Nor are tags, which an update writes without writing the row.
NoOrphanTags ==
    \A i \in Ids : tags[i] # {} => rows[i] # NoRow

\* What the constraints of the tables are for.
TablesAreConsistent == TitlesAreUnique /\ NoOrphanTests /\ NoOrphanTags

\* When no transaction of a problem is open, the last event that the search-
\* service received about it says of it what the tables say: its columns, its
\* tags, or that it was deleted.  The event is published before the commit and
\* made of the row as it was read, of the fields of the request and of the
\* tags as they are later, so that this needs all three to agree with what is
\* committed.  The exceptions are the ones `behind` records, and no others: a
\* change that was committed and not received, an event whose transaction was
\* rolled back, and one whose transaction overlapped with another of the same
\* problem; each lasts until a transaction publishes and commits alone.
EventsFollowTable ==
    \A i \in Ids :
        (~behind[i] /\ \A w \in Workers : ~On(w, i)) => heard[i] = Saved(i)

\* A document whose request Meilisearch has answered is found by a search for
\* what it says.
EventsAreIndexed ==
    [][\A q \in requests :
          (Apply(q) /\ q.doc # NoRow) =>
              (q.id.value \in SearchProblems(q.doc.title, q.doc.content, q.doc.tags))']_vars

\* An update that succeeds has called indexProblem, whatever fields the request
\* gives, as the unit test of a metadata-only update expects.
UpdatesAreIndexed ==
    [][\A w \in Workers :
          (/\ tx[w].step = "commit" /\ tx[w].op = "update"
           /\ <<rows, tags>>' # <<rows, tags>> /\ tx'[w] = Idle)
              => tx[w].event # "none"]_vars
=============================================================================
