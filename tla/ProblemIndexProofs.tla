------------------------- MODULE ProblemIndexProofs -------------------------
(***************************************************************************)
(* Proofs about ProblemIndex, for any number of problems, titles, tags,    *)
(* open transactions and test cases.                                       *)
(*                                                                         *)
(* The tables: a transaction that creates a problem holds its id and its   *)
(* title until it ends, and one that adds a test case holds the problem.   *)
(*                                                                         *)
(* The events: what a transaction that is alone has read is still there,   *)
(* and once its event was received, the event says what the transaction    *)
(* will leave.  A problem that is not behind, and has no event of an open  *)
(* transaction, is what its last event says.                               *)
(***************************************************************************)
EXTENDS ProblemIndex, TLAPS

Known == Row \cup {NoRow}
Given == (SUBSET Tags) \cup {NotGiven}
TestRows == (1 .. MaxTests) \X Ids

\* What a transaction remembers of its problem.
Carries(t) ==
    /\ t.op \in {"create", "update", "delete"}
    /\ t.id \in Ids
    /\ t.row \in Known /\ t.read \in Known /\ t.tags \in Given
    /\ t.gone \subseteq TestRows
    /\ t.added \subseteq (1 .. MaxTests) \X {t.id}
    /\ t.op = "delete" <=> t.row = NoRow
    /\ t.op = "delete" => t.added = {}
    /\ t.op = "create" => t.read = NoRow
    /\ t.op # "update" => t.tags = {}

TxOK(t) ==
    /\ t.step \in Steps /\ (t.step = "idle" => t = Idle)
    /\ t.step = "insert" => t.row \in Row
    /\ t.step \in OnProblem => Carries(t)
    /\ t.step = "tests" => t.op = "update"

Shapes ==
    /\ rows \in [Ids -> Known] /\ tags \in [Ids -> SUBSET Tags]
    /\ index \in [Ids -> Documents] /\ heard \in [Ids -> Documents]
    /\ tests \subseteq TestRows
    /\ nextId \in 1 .. MaxId + 1 /\ nextTest \in 1 .. MaxTests + 1
    /\ begun \in 0 .. MaxTransactions
    /\ requests \subseteq [id: {Published(i) : i \in Ids}, doc: Documents]
    /\ behind \in [Ids -> BOOLEAN] /\ alone \in [Workers -> BOOLEAN]
    /\ DOMAIN tx = Workers
    /\ \A w \in Workers : TxOK(tx[w])

Creating(w) == tx[w].step \in {"index", "commit"} /\ tx[w].op = "create"

\* An id that was not handed out has no row and nobody at work on it.
IdsAreFresh ==
    /\ \A i \in Ids : rows[i] # NoRow => i < nextId
    /\ \A w \in Workers : tx[w].step \in OnProblem => tx[w].id < nextId

\* A problem that is being created has no row, and is its creator's alone.
CreatesAreAlone ==
    \A w \in Workers : Creating(w) =>
        /\ rows[tx[w].id] = NoRow
        /\ \A v \in Workers \ {w} : ~On(v, tx[w].id)

\* The title of a problem that is being created is its creator's.
TitlesAreHeld ==
    \A w \in Workers : Creating(w) =>
        /\ \A j \in Ids : rows[j] # NoRow => rows[j].title # tx[w].row.title
        /\ \A v \in Workers \ {w} : Creating(v) => tx[v].row.title # tx[w].row.title

\* A test case that is being added to a problem keeps it.
TestsHoldTheirProblem ==
    \A w \in Workers :
        (/\ tx[w].step \in OnProblem /\ tx[w].op = "update"
         /\ tx[w].added # {}) => rows[tx[w].id] # NoRow

\* A transaction whose event was received.
Sent(w) == tx[w].step = "commit" /\ tx[w].event = "sent"

\* A transaction that is alone is; what it has read is still there, and its
\* event, if one was received, says what it will leave.
AloneIsAlone ==
    \A w \in Workers : alone[w] =>
        /\ tx[w].step \in OnProblem
        /\ \A v \in Workers \ {w} : ~On(v, tx[w].id)
        /\ rows[tx[w].id] = tx[w].read
        /\ Sent(w) => heard[tx[w].id] = Document(w)

\* With no event of an open transaction, a problem that is not behind is what
\* the last event says.
TableIsHeard ==
    \A i \in Ids :
        (~behind[i] /\ \A w \in Workers : On(w, i) => ~Sent(w)) => heard[i] = Saved(i)

\* The inductive invariant.
TablesInv ==
    /\ IdsAreFresh /\ CreatesAreAlone /\ TitlesAreHeld /\ TestsHoldTheirProblem
    /\ TablesAreConsistent
EventsInv == AloneIsAlone /\ TableIsHeard
IInv == Shapes /\ TablesInv /\ EventsInv

-----------------------------------------------------------------------------
(* Lemmas about one transaction's step *)

LEMMA RowsAreRecords ==
    /\ NoRow \notin Row /\ MaxId \in Nat \ {0} /\ MaxTransactions \in Nat /\ MaxTests \in Nat
    /\ \A r \in Row : r.title \in Titles
BY IndexAssumption DEF Row

LEMMA JoinedType ==
    ASSUME NEW row \in Known, NEW t \in SUBSET Tags
    PROVE  Joined(row, t) \in Documents
BY DEF Joined, Known, Row, Documents

\* The only transaction that moves is w.
Moves(w) == DOMAIN tx' = Workers /\ \A v \in Workers \ {w} : tx'[v] = tx[v]

LEMMA SetTx ==
    ASSUME Shapes, NEW w \in Workers, NEW t, tx' = [tx EXCEPT ![w] = t]
    PROVE  Moves(w) /\ tx'[w] = t
BY DEF Shapes, Moves

\* A transaction that keeps what it holds, or lets go of it, disturbs nobody
\* while the tables stay as they are but for test cases that go.
LEMMA LettingGo ==
    ASSUME Shapes, TablesInv, NEW w \in Workers, Moves(w),
           rows' = rows, tags' = tags, nextId' = nextId, tests' \subseteq tests,
           tx'[w].step \in OnProblem =>
               /\ tx[w].step \in OnProblem /\ (Creating(w)' => Creating(w))
               /\ tx'[w].id = tx[w].id /\ tx'[w].row = tx[w].row
               /\ tx'[w].op = tx[w].op /\ tx'[w].added = tx[w].added
    PROVE  TablesInv'
<1>1. IdsAreFresh'
  BY DEF TablesInv, IdsAreFresh, Moves
<1>2. CreatesAreAlone'
  BY DEF TablesInv, CreatesAreAlone, Creating, On, Moves, OnProblem
<1>3. TitlesAreHeld'
  BY DEF TablesInv, TitlesAreHeld, Creating, Moves, OnProblem
<1>4. TestsHoldTheirProblem'
  BY DEF TablesInv, TestsHoldTheirProblem, Moves
<1>5. TablesAreConsistent'
  BY DEF TablesInv, TablesAreConsistent, TitlesAreUnique, NoOrphanTests, NoOrphanTags
<1> QED BY <1>1, <1>2, <1>3, <1>4, <1>5 DEF TablesInv

-----------------------------------------------------------------------------
(* The inductive invariant: types *)

\* The initial states satisfy it.
LEMMA InitEstablishesIInv == Init => IInv
<1> SUFFICES ASSUME Init PROVE IInv
  OBVIOUS
<1>1. /\ rows \in [Ids -> Known] /\ tags = [i \in Ids |-> {}] /\ tests = {} /\ requests = {}
      /\ \A i \in Ids : rows[i] # NoRow => i = 1 /\ nextId = 2
      /\ nextId \in 1 .. 2 /\ nextTest = 1 /\ begun = 0
      /\ tx = [w \in Workers |-> Idle]
      /\ index = [i \in Ids |-> NoRow] /\ heard = [i \in Ids |-> Saved(i)]
      /\ behind = [i \in Ids |-> FALSE] /\ alone = [w \in Workers |-> FALSE]
  BY RowsAreRecords DEF Init, Known, Ids
<1>2. /\ \A w \in Workers : tx[w] = Idle /\ tx[w].step = "idle" /\ ~alone[w]
      /\ Idle.step = "idle" /\ DOMAIN tx = Workers
  BY <1>1 DEF Idle
<1>3. Shapes
  <2>1. nextId \in 1 .. MaxId + 1 /\ nextTest \in 1 .. MaxTests + 1 /\ begun \in 0 .. MaxTransactions
    BY <1>1, RowsAreRecords
  <2>2. \A w \in Workers : TxOK(tx[w])
    BY <1>2 DEF TxOK, Steps, OnProblem
  <2>3. index \in [Ids -> Documents] /\ heard \in [Ids -> Documents]
    <3>1. \A i \in Ids : Saved(i) \in Documents
      BY <1>1, JoinedType DEF Saved
    <3> QED BY <1>1, <3>1 DEF Documents
  <2> QED BY <1>1, <1>2, <2>1, <2>2, <2>3 DEF Shapes
<1>4. TablesInv
  <2>1. IdsAreFresh
    BY <1>1, <1>2 DEF IdsAreFresh, OnProblem, Ids
  <2>2. CreatesAreAlone /\ TitlesAreHeld /\ TestsHoldTheirProblem
    BY <1>2 DEF CreatesAreAlone, TitlesAreHeld, TestsHoldTheirProblem, Creating, OnProblem
  <2>3. TablesAreConsistent
    BY <1>1 DEF TablesAreConsistent, TitlesAreUnique, NoOrphanTests, NoOrphanTags
  <2> QED BY <2>1, <2>2, <2>3 DEF TablesInv
<1>5. EventsInv
  BY <1>1, <1>2 DEF EventsInv, AloneIsAlone, TableIsHeard
<1> QED BY <1>3, <1>4, <1>5 DEF IInv

\* A transaction that moves to a state of the right shape.
LEMMA TxKeepsShape ==
    ASSUME Shapes, NEW w \in Workers, Moves(w), TxOK(tx'[w])
    PROVE  DOMAIN tx' = Workers /\ \A v \in Workers : TxOK(tx'[v])
BY DEF Shapes, Moves

LEMMA EndOfTx ==
    ASSUME Shapes, NEW w \in Workers, End(w)
    PROVE  /\ Moves(w) /\ TxOK(tx'[w]) /\ tx'[w].step = "idle"
           /\ alone' \in [Workers -> BOOLEAN]
           /\ ~alone'[w] /\ \A v \in Workers \ {w} : alone'[v] = alone[v]
<1>1. Moves(w) /\ tx'[w] = Idle
  BY SetTx DEF End
<1> QED BY <1>1 DEF End, Shapes, TxOK, Idle, Steps, OnProblem

LEMMA BeginOfTx ==
    ASSUME Shapes, NEW w \in Workers, NEW t, Begin(w, t)
    PROVE  /\ Moves(w) /\ tx[w] = Idle /\ tx'[w] = t /\ tx[w].step = "idle"
           /\ begun' \in 0 .. MaxTransactions
<1>1. tx[w] = Idle /\ tx' = [tx EXCEPT ![w] = t]
  BY DEF Begin
<1>2. Moves(w) /\ tx'[w] = t
  BY <1>1, SetTx
<1>3. begun' \in 0 .. MaxTransactions
  BY RowsAreRecords DEF Begin, Shapes
<1> QED BY <1>1, <1>2, <1>3 DEF Idle

LEMMA MeetsOne ==
    ASSUME Shapes, NEW w \in Workers, NEW i \in Ids, Meets(w, i)
    PROVE  /\ alone' \in [Workers -> BOOLEAN]
           /\ alone'[w] <=> \A v \in Workers \ {w} : ~On(v, i)
           /\ \A v \in Workers \ {w} : alone'[v] <=> alone[v] /\ ~On(v, i)
BY DEF Meets, Shapes, Others

LEMMA DocumentType ==
    ASSUME Shapes, NEW w \in Workers, tx[w].step \in OnProblem
    PROVE  TagsLeft(w) \in SUBSET Tags /\ Document(w) \in Documents
<1>1. Carries(tx[w])
  BY DEF Shapes, TxOK
<1>2. TagsLeft(w) \in SUBSET Tags
  <2>1. tags[tx[w].id] \in SUBSET Tags
    BY <1>1 DEF Carries, Shapes
  <2>2. tx[w].tags \in SUBSET Tags \/ tx[w].tags = NotGiven
    <3>1. tx[w].tags \in Given
      BY <1>1 DEF Carries
    <3> QED BY <3>1 DEF Given
  <2> QED BY <2>1, <2>2 DEF TagsLeft
<1>3. tx[w].row \in Known
  BY <1>1 DEF Carries
<1> QED BY <1>2, <1>3, JoinedType DEF Document

\* What a transaction holds when its event is published.
LEMMA PublishOfTx ==
    ASSUME Shapes, NEW w \in Workers, NEW event \in {"sent", "lost"},
           tx[w].step = "index", Publish(w, event)
    PROVE  /\ Moves(w) /\ TxOK(tx'[w])
           /\ tx'[w].step = "commit" /\ tx'[w].event = event
           /\ tx'[w].op = tx[w].op /\ tx'[w].id = tx[w].id /\ tx'[w].row = tx[w].row
           /\ tx'[w].read = tx[w].read /\ tx'[w].tags = tx[w].tags
           /\ tx'[w].added = tx[w].added
           /\ tx[w].id \in Ids
<1> DEFINE t == [step |-> "commit", op |-> tx[w].op, id |-> tx[w].id, row |-> tx[w].row,
                 read |-> tx[w].read, tags |-> tx[w].tags, gone |-> tx[w].gone,
                 added |-> tx[w].added, event |-> event]
<1>1. Carries(tx[w])
  BY DEF Shapes, TxOK, OnProblem
<1>2. Moves(w) /\ tx'[w] = t
  <2>1. tx' = [tx EXCEPT ![w] = t]
    BY DEF Publish, Shapes
  <2> QED BY <2>1, SetTx
<1>3. TxOK(t)
  BY <1>1 DEF TxOK, Carries, Steps, OnProblem
<1>4. tx[w].id \in Ids
  BY <1>1 DEF Carries
<1> QED BY <1>2, <1>3, <1>4

LEMMA StepKeepsShapes ==
    ASSUME Shapes, [Next]_vars
    PROVE  Shapes'
<1> DEFINE Rest == /\ rows' \in [Ids -> Known] /\ tags' \in [Ids -> SUBSET Tags]
                   /\ index' \in [Ids -> Documents] /\ heard' \in [Ids -> Documents]
                   /\ tests' \subseteq TestRows
                   /\ nextId' \in 1 .. MaxId + 1 /\ nextTest' \in 1 .. MaxTests + 1
                   /\ begun' \in 0 .. MaxTransactions
                   /\ requests' \subseteq [id: {Published(i) : i \in Ids}, doc: Documents]
                   /\ behind' \in [Ids -> BOOLEAN] /\ alone' \in [Workers -> BOOLEAN]
<1>a. ASSUME NEW w \in Workers, Moves(w), TxOK(tx'[w]), Rest PROVE Shapes'
  BY <1>a, TxKeepsShape DEF Shapes
<1>b. ASSUME NEW w \in Workers, tx[w].step \in OnProblem
      PROVE  Carries(tx[w]) /\ tx[w].id \in Ids
  BY <1>b DEF Shapes, TxOK, Carries
<1>1. CASE UNCHANGED vars
  BY <1>1 DEF vars, tables, history, Shapes, TxOK, Carries, Published
<1>2. ASSUME NEW w \in Workers, NEW t \in Titles, NEW c \in Contents, CreateBegin(w, t, c)
      PROVE  Shapes'
  <2>1. /\ Moves(w) /\ tx'[w] = [step |-> "insert", op |-> "create", row |-> NewProblem(t, c)]
    BY <1>2, BeginOfTx DEF CreateBegin
  <2>2. TxOK(tx'[w])
    BY <2>1 DEF TxOK, NewProblem, Row, Steps, OnProblem
  <2>3. Rest
    BY <1>2, BeginOfTx DEF CreateBegin, Shapes, tables, history
  <2> QED BY <1>a, <2>1, <2>2, <2>3
<1>3. ASSUME NEW w \in Workers, CreateInsert(w) PROVE Shapes'
  <2>1. PICK more \in BOOLEAN :
          /\ more => nextTest <= MaxTests
          /\ tx' = [tx EXCEPT ![w] = [step |-> "index", op |-> "create",
                        id |-> nextId, row |-> tx[w].row, read |-> NoRow,
                        tags |-> {}, gone |-> {},
                        added |-> IF more THEN {<<nextTest, nextId>>} ELSE {}]]
          /\ nextTest' = IF more THEN nextTest + 1 ELSE nextTest
    BY <1>3 DEF CreateInsert, Shapes
  <2>2. /\ Moves(w) /\ tx'[w].step = "index" /\ tx'[w].op = "create" /\ tx'[w].id = nextId
        /\ tx'[w].row = tx[w].row /\ tx'[w].read = NoRow /\ tx'[w].tags = {}
        /\ tx'[w].gone = {} /\ tx'[w].added = IF more THEN {<<nextTest, nextId>>} ELSE {}
    BY <2>1 DEF Shapes, Moves
  <2>3. nextId \in Ids /\ nextId + 1 \in 1 .. MaxId + 1 /\ tx[w].row \in Row
    BY <1>3, RowsAreRecords DEF CreateInsert, Shapes, TxOK, Ids
  <2>4. nextTest' \in 1 .. MaxTests + 1 /\ (more => nextTest \in 1 .. MaxTests)
    BY <2>1, RowsAreRecords DEF Shapes
  <2>5. TxOK(tx'[w])
    BY <2>2, <2>3, <2>4, RowsAreRecords DEF TxOK, Carries, Steps, OnProblem, Known, Given
  <2>6. Rest
    BY <1>3, <2>3, <2>4 DEF CreateInsert, Shapes
  <2> QED BY <1>a, <2>2, <2>5, <2>6
<1>4. ASSUME NEW w \in Workers, NEW i \in Ids, NEW t \in Titles, NEW c \in Contents,
             NEW given \in (SUBSET Tags) \cup {NotGiven}, NEW b \in BOOLEAN,
             UpdateBegin(w, i, t, c, given, b)
      PROVE  Shapes'
  <2>1. /\ Moves(w) /\ tx'[w].step \in {"tests", "commit"} /\ tx'[w].op = "update"
        /\ tx'[w].id = i /\ tx'[w].row = Changed(t, c) /\ tx'[w].read = rows[i]
        /\ tx'[w].tags = given /\ tx'[w].gone = {} /\ tx'[w].added = {}
        /\ begun' \in 0 .. MaxTransactions
    BY <1>4, BeginOfTx DEF UpdateBegin
  <2>2. rows[i] \in Known /\ Changed(t, c) \in Row
    BY DEF Shapes, Changed, Row
  <2>3. TxOK(tx'[w])
    BY <2>1, <2>2, RowsAreRecords DEF TxOK, Carries, Steps, OnProblem, Known, Given
  <2>4. Rest
    BY <1>4, <2>1, MeetsOne DEF UpdateBegin, Shapes, tables
  <2> QED BY <1>a, <2>1, <2>3, <2>4
<1>5. ASSUME NEW w \in Workers, NEW i \in Ids, DeleteBegin(w, i) PROVE Shapes'
  <2>1. /\ Moves(w) /\ tx'[w].step = "index" /\ tx'[w].op = "delete" /\ tx'[w].id = i
        /\ tx'[w].row = NoRow /\ tx'[w].read = rows[i] /\ tx'[w].tags = {}
        /\ tx'[w].gone = TestsOf(i) /\ tx'[w].added = {}
        /\ begun' \in 0 .. MaxTransactions
    BY <1>5, BeginOfTx DEF DeleteBegin
  <2>2. rows[i] \in Known /\ TestsOf(i) \subseteq TestRows
    BY DEF Shapes, TestsOf
  <2>3. TxOK(tx'[w])
    BY <2>1, <2>2 DEF TxOK, Carries, Steps, OnProblem, Known, Given
  <2>4. Rest
    BY <1>5, <2>1, MeetsOne DEF DeleteBegin, Shapes, tables
  <2> QED BY <1>a, <2>1, <2>3, <2>4
<1>6. ASSUME NEW w \in Workers, RewriteTests(w) PROVE Shapes'
  <2>1. Carries(tx[w]) /\ tx[w].id \in Ids /\ tx[w].op = "update" /\ w \in DOMAIN tx
    BY <1>6, <1>b DEF RewriteTests, OnProblem, Shapes, TxOK
  <2>2. PICK gone \in SUBSET TestsOf(tx[w].id), more \in BOOLEAN :
          /\ more => nextTest <= MaxTests
          /\ tx' = [tx EXCEPT ![w].step = "index", ![w].gone = gone,
                 ![w].added = IF more THEN {<<nextTest, tx[w].id>>} ELSE {}]
          /\ nextTest' = IF more THEN nextTest + 1 ELSE nextTest
    BY <1>6 DEF RewriteTests
  <2>3. /\ Moves(w) /\ tx'[w].step = "index" /\ tx'[w].gone = gone
        /\ tx'[w].added = IF more THEN {<<nextTest, tx[w].id>>} ELSE {}
        /\ tx'[w].op = tx[w].op /\ tx'[w].id = tx[w].id /\ tx'[w].row = tx[w].row
        /\ tx'[w].read = tx[w].read /\ tx'[w].tags = tx[w].tags
    BY <2>1, <2>2 DEF Moves, Shapes
  <2>4. gone \subseteq TestRows
    BY DEF Shapes, TestsOf
  <2>5. nextTest \in Nat /\ nextTest' \in 1 .. MaxTests + 1 /\ (more => nextTest \in 1 .. MaxTests)
    BY <2>2, RowsAreRecords DEF Shapes
  <2>6. TxOK(tx'[w])
    BY <2>1, <2>3, <2>4, <2>5 DEF TxOK, Carries, Steps, OnProblem
  <2>7. Rest
    BY <1>6, <2>5 DEF RewriteTests, Shapes, history
  <2> QED BY <1>a, <2>3, <2>6, <2>7
<1>7. ASSUME NEW w \in Workers, IndexSent(w) PROVE Shapes'
  <2>1. Moves(w) /\ TxOK(tx'[w]) /\ tx[w].id \in Ids
    BY <1>7, PublishOfTx DEF IndexSent
  <2>2. Document(w) \in Documents
    BY <1>7, DocumentType DEF IndexSent, OnProblem
  <2>3. requests' \subseteq [id: {Published(i) : i \in Ids}, doc: Documents]
    BY <1>7, <2>1, <2>2 DEF IndexSent, Shapes
  <2>4. Rest
    BY <1>7, <2>1, <2>2, <2>3 DEF IndexSent, Shapes, tables
  <2> QED BY <1>a, <2>1, <2>4
<1>8. ASSUME NEW w \in Workers, IndexLost(w) PROVE Shapes'
  <2>1. Moves(w) /\ TxOK(tx'[w])
    BY <1>8, PublishOfTx DEF IndexLost
  <2>2. Rest
    BY <1>8, <2>1 DEF IndexLost, Shapes, tables, history
  <2> QED BY <1>a, <2>1, <2>2
<1>9. ASSUME NEW w \in Workers, Commit(w) PROVE Shapes'
  <2>1. Moves(w) /\ TxOK(tx'[w]) /\ alone' \in [Workers -> BOOLEAN]
    BY <1>9, EndOfTx DEF Commit
  <2>2. Carries(tx[w]) /\ tx[w].id \in Ids
    BY <1>9, <1>b DEF Commit, OnProblem
  <2>3. rows' \in [Ids -> Known]
    BY <1>9, <2>2 DEF Commit, Carries, Shapes
  <2>4. tests' \subseteq TestRows
    BY <1>9, <2>2 DEF Commit, Carries, Shapes, TestRows
  <2>5. behind' \in [Ids -> BOOLEAN]
    BY <1>9, <2>2 DEF Commit, Shapes
  <2>6. tags' \in [Ids -> SUBSET Tags]
    BY <1>9, DocumentType DEF Commit, Shapes, OnProblem
  <2>7. Rest
    BY <1>9, <2>1, <2>3, <2>4, <2>5, <2>6 DEF Commit, Shapes
  <2> QED BY <1>a, <2>1, <2>7
<1>10. ASSUME NEW w \in Workers, Rollback(w) PROVE Shapes'
  <2>1. Moves(w) /\ TxOK(tx'[w]) /\ alone' \in [Workers -> BOOLEAN]
    BY <1>10, EndOfTx DEF Rollback
  <2>2. behind' \in [Ids -> BOOLEAN]
    BY <1>10 DEF Rollback, Shapes
  <2>3. Rest
    BY <1>10, <2>1, <2>2 DEF Rollback, Shapes, tables
  <2> QED BY <1>a, <2>1, <2>3
<1>11. ASSUME NEW q \in requests, Apply(q) \/ ApplyFails(q) PROVE Shapes'
  <2>1. q.id.value \in Ids /\ q.doc \in Documents
    BY DEF Shapes, Published
  <2>2. /\ index' \in [Ids -> Documents] /\ requests' \subseteq requests
        /\ UNCHANGED <<rows, tags, tests, nextId, nextTest, tx, begun, heard, behind, alone>>
    BY <1>11, <2>1 DEF Apply, ApplyFails, Shapes, tables, history
  <2> QED BY <2>2 DEF Shapes, Published
<1>12. ASSUME NEW i \in Ids, AddTestCase(i) PROVE Shapes'
  <2>1. nextTest \in 1 .. MaxTests /\ nextTest + 1 \in 1 .. MaxTests + 1
    BY <1>12, RowsAreRecords DEF AddTestCase, Shapes
  <2>2. tests' \subseteq TestRows /\ nextTest' \in 1 .. MaxTests + 1
    BY <1>12, <2>1 DEF AddTestCase, Shapes, TestRows
  <2> QED BY <1>12, <2>2 DEF AddTestCase, Shapes, history
<1>13. ASSUME NEW t \in tests, DeleteTestCase(t) PROVE Shapes'
  BY <1>13 DEF DeleteTestCase, Shapes, history
<1>14. ASSUME NEW w \in Workers, NEW t \in Titles, CreateRefused(w, t) PROVE Shapes'
  BY <1>1, <1>14 DEF CreateRefused
<1>15. CASE Over
  BY <1>1, <1>15 DEF Over
<1> QED BY <1>1, <1>2, <1>3, <1>4, <1>5, <1>6, <1>7, <1>8, <1>9, <1>10, <1>11, <1>12,
           <1>13, <1>14, <1>15 DEF Next

-----------------------------------------------------------------------------
(* The inductive invariant: tables *)

LEMMA StepKeepsTables ==
    ASSUME Shapes, TablesInv, [Next]_vars
    PROVE  TablesInv'
<1> USE DEF TablesInv
<1>a. ASSUME NEW w \in Workers, tx[w].step \in OnProblem
      PROVE  Carries(tx[w]) /\ tx[w].id \in Ids /\ tx[w].row \in Known
  BY <1>a DEF Shapes, TxOK, Carries
<1>b. nextId \in Nat /\ \A w \in Workers : tx[w].step \in OnProblem => tx[w].id \in Nat
  BY <1>a, RowsAreRecords DEF Shapes, Ids
<1>c. ASSUME UNCHANGED <<rows, tags, nextId, tx>>, tests' \subseteq tests
      PROVE  TablesInv'
  BY <1>c DEF IdsAreFresh, CreatesAreAlone, TitlesAreHeld, TestsHoldTheirProblem,
     TablesAreConsistent, TitlesAreUnique, NoOrphanTests, NoOrphanTags, Creating, On
\* A transaction that opens a problem that has a row.
<1>d. ASSUME NEW w \in Workers, NEW i \in Ids, Moves(w), Exists(i),
             tx'[w].op # "create", tx'[w].id = i, tx'[w].added = {},
             UNCHANGED <<rows, tags, tests, nextId>>
      PROVE  TablesInv'
  <2>1. IdsAreFresh'
    BY <1>d DEF IdsAreFresh, Moves, Exists
  <2>2. CreatesAreAlone'
    BY <1>d DEF CreatesAreAlone, Creating, On, Moves, Exists
  <2>3. TitlesAreHeld'
    BY <1>d DEF TitlesAreHeld, Creating, Moves
  <2>4. TestsHoldTheirProblem'
    BY <1>d DEF TestsHoldTheirProblem, Moves
  <2>5. TablesAreConsistent'
    BY <1>d DEF TablesAreConsistent, TitlesAreUnique, NoOrphanTests, NoOrphanTags
  <2> QED BY <2>1, <2>2, <2>3, <2>4, <2>5
<1>1. CASE UNCHANGED vars
  BY <1>1, <1>c DEF vars, tables
<1>2. ASSUME NEW w \in Workers, NEW t \in Titles, NEW c \in Contents, CreateBegin(w, t, c)
      PROVE  TablesInv'
  <2>1. Moves(w) /\ tx'[w].step \notin OnProblem
    BY <1>2, BeginOfTx DEF CreateBegin, OnProblem
  <2>2. UNCHANGED <<rows, tags, tests, nextId>>
    BY <1>2 DEF CreateBegin, tables
  <2> QED BY <2>1, <2>2, LettingGo
<1>3. ASSUME NEW w \in Workers, CreateInsert(w) PROVE TablesInv'
  <2>1. /\ Moves(w) /\ tx'[w].step = "index" /\ tx'[w].op = "create" /\ tx'[w].id = nextId
        /\ tx'[w].row = tx[w].row
    <3>1. PICK added : tx' = [tx EXCEPT ![w] = [step |-> "index", op |-> "create",
                        id |-> nextId, row |-> tx[w].row, read |-> NoRow,
                        tags |-> {}, gone |-> {}, added |-> added]]
      BY <1>3 DEF CreateInsert, Shapes
    <3> QED BY <3>1 DEF Shapes, Moves
  <2>2. UNCHANGED <<rows, tags, tests>> /\ nextId' = nextId + 1 /\ nextId \in Ids
    BY <1>3, RowsAreRecords DEF CreateInsert, Shapes, Ids
  <2>3. rows[nextId] = NoRow /\ \A v \in Workers : ~On(v, nextId)
    BY <1>b, <2>2 DEF IdsAreFresh, On
  <2>4. IdsAreFresh'
    <3>1. \A i \in Ids : i \in Nat
      BY RowsAreRecords DEF Ids
    <3> QED BY <1>b, <2>1, <2>2, <3>1 DEF IdsAreFresh, Moves
  <2>5. CreatesAreAlone'
    <3>1. ASSUME NEW v \in Workers \ {w} PROVE ~On(v, tx[w].id)'
      BY <2>1, <2>3 DEF Moves, On
    <3>2. ASSUME NEW v \in Workers \ {w}, Creating(v)
          PROVE  /\ rows[tx[v].id] = NoRow /\ tx[v].id # nextId
                 /\ \A u \in Workers \ {v} : ~On(u, tx[v].id)'
      <4>1. tx[v].id # nextId
        BY <2>3, <3>2 DEF On, Creating, OnProblem
      <4> QED BY <2>1, <3>2, <4>1 DEF CreatesAreAlone, On, Moves
    <3> QED BY <2>1, <2>2, <2>3, <3>1, <3>2 DEF CreatesAreAlone, Creating, Moves
  <2>6. TitlesAreHeld'
    <3>1. \A j \in Ids : rows[j] # NoRow => rows[j].title # tx[w].row.title
      BY <1>3, RowsAreRecords DEF CreateInsert, Taken, Ids
    <3>2. \A v \in Workers \ {w} : Creating(v) => tx[v].row.title # tx[w].row.title
      BY <1>3 DEF CreateInsert, Locked, Creating
    <3>3. \A v \in Workers \ {w} : Creating(v)' <=> Creating(v)
      BY <2>1 DEF Creating, Moves
    <3> QED BY <2>1, <2>2, <3>1, <3>2, <3>3 DEF TitlesAreHeld, Moves
  <2>7. TestsHoldTheirProblem'
    BY <2>1, <2>2 DEF TestsHoldTheirProblem, Moves
  <2>8. TablesAreConsistent'
    BY <2>2 DEF TablesAreConsistent, TitlesAreUnique, NoOrphanTests, NoOrphanTags
  <2> QED BY <2>4, <2>5, <2>6, <2>7, <2>8
<1>4. ASSUME NEW w \in Workers, NEW i \in Ids, NEW t \in Titles, NEW c \in Contents,
             NEW given \in (SUBSET Tags) \cup {NotGiven}, NEW b \in BOOLEAN,
             UpdateBegin(w, i, t, c, given, b)
      PROVE  TablesInv'
  <2>1. Moves(w) /\ tx'[w].op # "create" /\ tx'[w].id = i /\ tx'[w].added = {}
    BY <1>4, BeginOfTx DEF UpdateBegin
  <2> QED BY <1>4, <1>d, <2>1 DEF UpdateBegin, tables
<1>5. ASSUME NEW w \in Workers, NEW i \in Ids, DeleteBegin(w, i) PROVE TablesInv'
  <2>1. Moves(w) /\ tx'[w].op # "create" /\ tx'[w].id = i /\ tx'[w].added = {}
    BY <1>5, BeginOfTx DEF DeleteBegin
  <2> QED BY <1>5, <1>d, <2>1 DEF DeleteBegin, tables
<1>6. ASSUME NEW w \in Workers, RewriteTests(w) PROVE TablesInv'
  <2>1. w \in DOMAIN tx /\ tx[w].step = "tests" /\ tx[w].op = "update"
    BY <1>6 DEF RewriteTests, Shapes, TxOK
  <2>2. PICK gone \in SUBSET TestsOf(tx[w].id), more \in BOOLEAN :
          /\ more => rows[tx[w].id] # NoRow
          /\ tx' = [tx EXCEPT ![w].step = "index", ![w].gone = gone,
                 ![w].added = IF more THEN {<<nextTest, tx[w].id>>} ELSE {}]
    BY <1>6 DEF RewriteTests
  <2>3. /\ Moves(w) /\ tx'[w].id = tx[w].id /\ tx'[w].op = "update"
        /\ tx'[w].added # {} => rows[tx[w].id] # NoRow
    BY <2>1, <2>2 DEF Moves, Shapes
  <2>4. UNCHANGED <<rows, tags, tests, nextId>>
    BY <1>6 DEF RewriteTests
  <2>5. IdsAreFresh'
    BY <2>1, <2>3, <2>4 DEF IdsAreFresh, Moves, OnProblem
  <2>6. CreatesAreAlone'
    <3>1. \A v \in Workers : Creating(v)' => Creating(v) /\ v # w
      BY <2>3 DEF Creating, Moves
    <3>2. \A u \in Workers, i \in Ids : On(u, i)' => On(u, i)
      BY <2>1, <2>3 DEF On, Moves, OnProblem
    <3>3. \A v \in Workers : Creating(v) => tx[v].id \in Ids
      BY <1>a DEF Creating, OnProblem
    <3> QED BY <2>3, <2>4, <3>1, <3>2, <3>3 DEF CreatesAreAlone, Moves
  <2>7. TitlesAreHeld'
    BY <2>3, <2>4 DEF TitlesAreHeld, Creating, Moves
  <2>8. TestsHoldTheirProblem'
    BY <2>3, <2>4 DEF TestsHoldTheirProblem, Moves
  <2>9. TablesAreConsistent'
    BY <2>4 DEF TablesAreConsistent, TitlesAreUnique, NoOrphanTests, NoOrphanTags
  <2> QED BY <2>5, <2>6, <2>7, <2>8, <2>9
<1>7. ASSUME NEW w \in Workers, IndexSent(w) \/ IndexLost(w) PROVE TablesInv'
  <2>1. tx[w].step = "index" /\ UNCHANGED <<rows, tags, tests, nextId>>
        /\ (Publish(w, "sent") \/ Publish(w, "lost"))
    BY <1>7 DEF IndexSent, IndexLost, tables
  <2>2. /\ Moves(w) /\ tx'[w].step = "commit" /\ tx'[w].op = tx[w].op /\ tx'[w].id = tx[w].id
        /\ tx'[w].row = tx[w].row /\ tx'[w].added = tx[w].added
    BY <2>1, PublishOfTx
  <2>3. Creating(w)' => Creating(w)
    BY <2>1, <2>2 DEF Creating
  <2> QED BY <2>1, <2>2, <2>3, LettingGo DEF OnProblem
<1>8. ASSUME NEW w \in Workers, Commit(w) PROVE TablesInv'
  <2> DEFINE i == tx[w].id
  <2>1. /\ Moves(w) /\ tx'[w].step = "idle" /\ ~Creating(w)' /\ \A j \in Ids : ~On(w, j)'
    BY <1>8, EndOfTx DEF Commit, Creating, On, OnProblem
  <2>2. Carries(tx[w]) /\ i \in Ids /\ tx[w].row \in Known /\ tx[w].step = "commit" /\ On(w, i)
    BY <1>8, <1>a DEF Commit, OnProblem, On
  <2>3. /\ nextId' = nextId /\ Accepted(w)
        /\ \A j \in Ids : rows'[j] = IF Dirty(w) /\ j = i THEN tx[w].row ELSE rows[j]
        /\ \A j \in Ids : tags'[j] = IF j = i THEN TagsLeft(w) ELSE tags[j]
        /\ tests' = (tests \ tx[w].gone) \cup tx[w].added
    BY <1>8, <2>2 DEF Commit, Shapes
  <2>4. ASSUME NEW v \in Workers, v # w
        PROVE  /\ tx'[v] = tx[v] /\ (Creating(v)' <=> Creating(v))
               /\ \A j : On(v, j)' <=> On(v, j)
    BY <2>1, <2>4 DEF Moves, Creating, On
  <2>5. IdsAreFresh'
    BY <2>1, <2>2, <2>3, <2>4 DEF IdsAreFresh, OnProblem
  <2>6. ASSUME NEW v \in Workers, v # w, Creating(v) PROVE tx[v].id # i /\ tx[v].id \in Ids
    BY <1>a, <2>2, <2>6 DEF CreatesAreAlone, Creating, OnProblem
  <2>7. CreatesAreAlone'
    BY <2>1, <2>3, <2>4, <2>6 DEF CreatesAreAlone
  \* What the database has accepted: a title that is free, ...
  <2>8. ASSUME Dirty(w), tx[w].row # NoRow
        PROVE  /\ \A j \in Ids \ {i} : rows[j] # NoRow => rows[j].title # tx[w].row.title
               /\ \A v \in Workers \ {w} : Creating(v) => tx[v].row.title # tx[w].row.title
    <3>1. CASE tx[w].op = "create"
      <4>1. Creating(w)
        BY <2>2, <3>1 DEF Creating
      <4> QED BY <4>1 DEF TitlesAreHeld
    <3>2. CASE tx[w].op = "update"
      <4>1. ~Taken(tx[w].row.title, i) /\ ~Locked(tx[w].row.title, w)
        BY <2>3, <2>8, <3>2 DEF Accepted
      <4> QED BY <4>1 DEF Taken, Locked, Creating
    <3>3. CASE tx[w].op = "delete"
      <4>1. rows[i] # NoRow
        BY <2>3, <3>3 DEF Accepted
      <4> QED BY <2>2, <2>8, <3>3 DEF Carries
    <3> QED BY <2>2, <3>1, <3>2, <3>3 DEF Carries
  <2>9. TitlesAreHeld'
    BY <2>1, <2>3, <2>4, <2>8 DEF TitlesAreHeld
  <2>10. TitlesAreUnique'
    BY <2>3, <2>8 DEF TablesAreConsistent, TitlesAreUnique
  \* ... and a row that goes takes its test cases with it.
  <2>11. ASSUME rows[i] # NoRow, rows'[i] = NoRow
         PROVE  /\ tx[w].op = "delete" /\ TestsOf(i) \subseteq tx[w].gone
                /\ \A v \in Workers \ {w} : On(v, i) => tx[v].added = {}
    <3>1. tx[w].op = "delete"
      BY <2>2, <2>3, <2>11 DEF Carries
    <3> QED BY <2>3, <3>1 DEF Accepted, Others
  <2>12. TestsHoldTheirProblem'
    <3> SUFFICES ASSUME NEW v \in Workers, v # w, tx[v].step \in OnProblem,
                        tx[v].op = "update", tx[v].added # {}
                 PROVE  rows'[tx[v].id] # NoRow
      BY <2>1, <2>4 DEF TestsHoldTheirProblem, OnProblem
    <3>1. tx[v].id \in Ids /\ rows[tx[v].id] # NoRow /\ On(v, tx[v].id)
      BY <1>a DEF TestsHoldTheirProblem, On
    <3> QED BY <2>3, <2>11, <3>1
  <2>13. NoOrphanTests'
    <3> SUFFICES ASSUME NEW t \in tests' PROVE rows'[t[2]] # NoRow
      BY DEF NoOrphanTests
    <3>1. CASE t \in tests /\ t \notin tx[w].gone
      <4>1. t[2] \in Ids /\ rows[t[2]] # NoRow
        BY <3>1 DEF Shapes, TestRows, TablesAreConsistent, NoOrphanTests
      <4>2. t[2] = i => ~(TestsOf(i) \subseteq tx[w].gone)
        BY <3>1 DEF TestsOf
      <4> QED BY <2>2, <2>3, <2>11, <4>1, <4>2
    <3>2. CASE t \in tx[w].added
      <4>1. t[2] = i /\ tx[w].op \in {"create", "update"} /\ tx[w].row # NoRow
        BY <2>2, <3>2 DEF Carries
      <4>2. CASE tx[w].op = "update"
        <5>1. rows[i] # NoRow
          BY <2>2, <3>2, <4>2 DEF TestsHoldTheirProblem, OnProblem
        <5> QED BY <2>2, <2>3, <4>1, <5>1
      <4>3. CASE tx[w].op = "create"
        BY <2>2, <2>3, <4>1, <4>3 DEF Carries, Dirty
      <4> QED BY <4>1, <4>2, <4>3
    <3> QED BY <2>3, <3>1, <3>2
  \* ... as it does its tags.
  <2>14. NoOrphanTags'
    <3> SUFFICES ASSUME rows'[i] = NoRow PROVE TagsLeft(w) = {}
      BY <2>2, <2>3 DEF TablesAreConsistent, NoOrphanTags
    <3>1. CASE tx[w].op # "update"
      BY <2>2, <3>1, RowsAreRecords, IndexAssumption DEF Carries, TagsLeft
    <3>2. CASE tx[w].op = "update"
      <4>1. tx[w].row # NoRow
        BY <2>2, <3>2 DEF Carries
      <4>2. rows[i] = NoRow
        BY <2>2, <2>3, <4>1
      <4>3. tx[w].tags \in {NotGiven, {}} /\ tags[i] = {}
        BY <2>2, <2>3, <3>2, <4>2 DEF Accepted, TablesAreConsistent, NoOrphanTags
      <4> QED BY <4>3 DEF TagsLeft
    <3> QED BY <3>1, <3>2
  <2> QED BY <2>5, <2>7, <2>9, <2>10, <2>12, <2>13, <2>14 DEF TablesAreConsistent
<1>9. ASSUME NEW w \in Workers, Rollback(w) PROVE TablesInv'
  <2>1. Moves(w) /\ tx'[w].step \notin OnProblem
    BY <1>9, EndOfTx DEF Rollback, OnProblem
  <2>2. UNCHANGED <<rows, tags, tests, nextId>>
    BY <1>9 DEF Rollback, tables
  <2> QED BY <2>1, <2>2, LettingGo
<1>10. ASSUME NEW q \in requests, Apply(q) \/ ApplyFails(q) PROVE TablesInv'
  BY <1>10, <1>c DEF Apply, ApplyFails, tables
<1>11. ASSUME NEW i \in Ids, AddTestCase(i) PROVE TablesInv'
  <2>1. NoOrphanTests'
    BY <1>11 DEF AddTestCase, Exists, TablesAreConsistent, NoOrphanTests
  <2> QED BY <1>11, <2>1 DEF AddTestCase, IdsAreFresh, CreatesAreAlone, TitlesAreHeld,
      TestsHoldTheirProblem, TablesAreConsistent, TitlesAreUnique, NoOrphanTags, Creating, On
<1>12. ASSUME NEW t \in tests, DeleteTestCase(t) PROVE TablesInv'
  BY <1>12, <1>c DEF DeleteTestCase
<1>13. ASSUME NEW w \in Workers, NEW t \in Titles, CreateRefused(w, t) PROVE TablesInv'
  BY <1>1, <1>13 DEF CreateRefused
<1>14. CASE Over
  BY <1>1, <1>14 DEF Over
<1> QED BY <1>1, <1>2, <1>3, <1>4, <1>5, <1>6, <1>7, <1>8, <1>9, <1>10, <1>11, <1>12,
           <1>13, <1>14 DEF Next

-----------------------------------------------------------------------------
(* The inductive invariant: events *)

\* A transaction that is not alone, before or after, and has no event, and that
\* leaves the tables and the events as they are, disturbs nobody it does not
\* join.
LEMMA Unheard ==
    ASSUME Shapes, EventsInv, NEW w \in Workers, Moves(w), ~Sent(w), ~Sent(w)',
           UNCHANGED <<rows, tags, heard, behind>>,
           alone'[w] => /\ tx'[w].step \in OnProblem
                        /\ \A v \in Workers \ {w} : ~On(v, tx'[w].id)
                        /\ rows[tx'[w].id] = tx'[w].read,
           \A v \in Workers \ {w} : alone'[v] => alone[v] /\ ~On(w, tx[v].id)'
    PROVE  EventsInv'
<1>1. ASSUME NEW v \in Workers \ {w}
      PROVE  /\ tx'[v] = tx[v] /\ (Sent(v)' <=> Sent(v)) /\ Document(v)' = Document(v)
             /\ \A j : On(v, j)' <=> On(v, j)
  BY <1>1 DEF Moves, Sent, On, Document, TagsLeft
<1>2. AloneIsAlone'
  <2>1. ASSUME NEW v \in Workers \ {w}, alone'[v]
        PROVE  /\ tx[v].step \in OnProblem /\ rows[tx[v].id] = tx[v].read
               /\ \A u \in Workers \ {v} : ~On(u, tx[v].id)'
               /\ Sent(v) => heard[tx[v].id] = Document(v)
    BY <1>1, <2>1 DEF EventsInv, AloneIsAlone
  <2>2. alone'[w] => \A v \in Workers \ {w} : ~(tx'[v].step \in OnProblem /\ tx'[v].id = tx'[w].id)
    BY DEF Moves, On
  <2>3. ASSUME NEW v \in Workers, alone'[v], v = w
        PROVE  /\ tx'[v].step \in OnProblem /\ rows'[tx'[v].id] = tx'[v].read
               /\ \A u \in Workers \ {v} : ~(tx'[u].step \in OnProblem /\ tx'[u].id = tx'[v].id)
    BY <2>2, <2>3
  <2>4. ASSUME NEW v \in Workers, alone'[v], v # w
        PROVE  /\ tx'[v].step \in OnProblem /\ rows'[tx'[v].id] = tx'[v].read
               /\ \A u \in Workers \ {v} : ~(tx'[u].step \in OnProblem /\ tx'[u].id = tx'[v].id)
    BY <1>1, <2>1, <2>4 DEF On
  <2>5. \A v \in Workers : alone'[v] /\ Sent(v)' => heard'[tx'[v].id] = Document(v)'
    BY <1>1, <2>1
  <2> QED BY <2>3, <2>4, <2>5 DEF AloneIsAlone, On
<1>3. TableIsHeard'
  <2> SUFFICES ASSUME NEW i \in Ids, ~behind[i], \A v \in Workers : On(v, i)' => ~Sent(v)'
               PROVE  heard[i] = Saved(i)
    BY DEF TableIsHeard, Saved
  <2>1. \A v \in Workers : On(v, i) => ~Sent(v)
    BY <1>1
  <2> QED BY <2>1 DEF EventsInv, TableIsHeard
<1> QED BY <1>2, <1>3 DEF EventsInv

\* A transaction that ends, and leaves its problem behind, or as the last event
\* says, or as it was.
LEMMA EndKeepsEvents ==
    ASSUME Shapes, EventsInv, NEW w \in Workers, NEW i \in Ids, On(w, i), End(w),
           heard' = heard,
           \A j \in Ids : j # i =>
               /\ rows'[j] = rows[j] /\ tags'[j] = tags[j] /\ (behind'[j] <=> behind[j]),
           \/ behind'[i]
           \/ heard[i] = Saved(i)'
           \/ ~Sent(w) /\ ~behind[i] /\ rows'[i] = rows[i] /\ tags'[i] = tags[i]
    PROVE  EventsInv'
<1>1. /\ Moves(w) /\ tx'[w].step = "idle" /\ ~alone'[w] /\ tx[w].id = i
      /\ \A v \in Workers \ {w} : alone'[v] = alone[v]
  BY EndOfTx DEF On
<1>2. ~Sent(w)' /\ \A j : ~On(w, j)'
  BY <1>1 DEF Sent, On, OnProblem
<1>3. ASSUME NEW v \in Workers \ {w}
      PROVE  /\ tx'[v] = tx[v] /\ (Sent(v)' <=> Sent(v)) /\ \A j : On(v, j)' <=> On(v, j)
  BY <1>1, <1>3 DEF Moves, Sent, On
<1>4. AloneIsAlone'
  <2>1. ASSUME NEW v \in Workers \ {w}, alone[v]
        PROVE  /\ tx[v].step \in OnProblem /\ rows'[tx[v].id] = tx[v].read
               /\ \A u \in Workers \ {v} : ~On(u, tx[v].id)'
               /\ Sent(v) => heard[tx[v].id] = Document(v)'
    <3>1. /\ tx[v].step \in OnProblem /\ rows[tx[v].id] = tx[v].read
          /\ \A u \in Workers \ {v} : ~On(u, tx[v].id)
          /\ Sent(v) => heard[tx[v].id] = Document(v)
      BY <2>1 DEF EventsInv, AloneIsAlone
    <3>2. tx[v].id \in Ids /\ tx[v].id # i
      BY <3>1 DEF Shapes, TxOK, Carries
    <3>3. Document(v)' = Document(v)
      BY <1>3, <3>2 DEF Document, TagsLeft
    <3>4. \A u \in Workers \ {v} : ~On(u, tx[v].id)'
      BY <1>2, <1>3, <3>1
    <3> QED BY <3>1, <3>2, <3>3, <3>4
  <2> QED BY <1>1, <1>3, <2>1 DEF AloneIsAlone
<1>5. TableIsHeard'
  <2> SUFFICES ASSUME NEW j \in Ids, ~behind'[j], \A v \in Workers : On(v, j)' => ~Sent(v)'
               PROVE  heard[j] = Saved(j)'
    BY DEF TableIsHeard
  <2>1. \A v \in Workers \ {w} : On(v, j) => ~Sent(v)
    BY <1>3
  <2>2. CASE j # i
    <3>1. \A v \in Workers : On(v, j) => ~Sent(v)
      BY <1>1, <2>1, <2>2 DEF On
    <3> QED BY <2>2, <3>1 DEF EventsInv, TableIsHeard, Saved
  <2>3. CASE j = i
    <3>1. \/ heard[i] = Saved(i)'
          \/ ~Sent(w) /\ ~behind[i] /\ rows'[i] = rows[i] /\ tags'[i] = tags[i]
      BY <2>3
    <3>2. ASSUME ~Sent(w), ~behind[i], rows'[i] = rows[i], tags'[i] = tags[i]
          PROVE  heard[i] = Saved(i)'
      <4>1. heard[i] = Saved(i)
        BY <2>1, <2>3, <3>2 DEF EventsInv, TableIsHeard
      <4> QED BY <3>2, <4>1 DEF Saved
    <3> QED BY <2>3, <3>1, <3>2
  <2> QED BY <2>2, <2>3
<1> QED BY <1>4, <1>5 DEF EventsInv

LEMMA StepKeepsEvents ==
    ASSUME Shapes, TablesInv, EventsInv, [Next]_vars
    PROVE  EventsInv'
<1>a. ASSUME NEW w \in Workers, tx[w].step \in OnProblem
      PROVE  Carries(tx[w]) /\ tx[w].id \in Ids
  BY <1>a DEF Shapes, TxOK, Carries
<1>b. ASSUME NEW w \in Workers, alone[w]
      PROVE  /\ tx[w].step \in OnProblem /\ tx[w].id \in Ids
             /\ rows[tx[w].id] = tx[w].read
             /\ \A v \in Workers \ {w} : ~On(v, tx[w].id)
             /\ Sent(w) => heard[tx[w].id] = Document(w)
  BY <1>a, <1>b DEF EventsInv, AloneIsAlone
<1>c. ASSUME UNCHANGED <<rows, tags, tx, heard, behind, alone>> PROVE EventsInv'
  BY <1>c DEF EventsInv, AloneIsAlone, TableIsHeard, Saved, Sent, On, Document, TagsLeft
<1>1. CASE UNCHANGED vars
  BY <1>1, <1>c DEF vars, tables, history
<1>2. ASSUME NEW w \in Workers, NEW t \in Titles, NEW c \in Contents, CreateBegin(w, t, c)
      PROVE  EventsInv'
  <2>1. /\ Moves(w) /\ ~Sent(w) /\ ~Sent(w)' /\ tx[w].step = "idle" /\ tx'[w].step = "insert"
    BY <1>2, BeginOfTx DEF CreateBegin, Sent
  <2>2. UNCHANGED <<rows, tags, heard, behind, alone>>
    BY <1>2 DEF CreateBegin, tables, history
  <2>3. ~alone[w] /\ \A j : ~On(w, j)'
    BY <1>b, <2>1 DEF OnProblem, On
  <2> QED BY <2>1, <2>2, <2>3, Unheard
<1>3. ASSUME NEW w \in Workers, CreateInsert(w) PROVE EventsInv'
  <2>1. /\ Moves(w) /\ tx'[w].step = "index" /\ tx'[w].id = nextId /\ tx'[w].read = NoRow
    <3>1. PICK added : tx' = [tx EXCEPT ![w] = [step |-> "index", op |-> "create",
                        id |-> nextId, row |-> tx[w].row, read |-> NoRow,
                        tags |-> {}, gone |-> {}, added |-> added]]
      BY <1>3 DEF CreateInsert, Shapes
    <3> QED BY <3>1 DEF Shapes, Moves
  <2>2. /\ UNCHANGED <<rows, tags, heard, behind>> /\ tx[w].step = "insert"
        /\ \A v \in Workers \ {w} : alone'[v] = alone[v]
    BY <1>3 DEF CreateInsert, Shapes
  <2>3. nextId \in Ids /\ nextId \in Nat
    BY <1>3, RowsAreRecords DEF CreateInsert, Shapes, Ids
  <2>4. rows[nextId] = NoRow /\ \A v \in Workers : ~On(v, nextId)
    BY <2>3 DEF TablesInv, IdsAreFresh, On
  <2>5. ~Sent(w) /\ ~Sent(w)'
    BY <2>1, <2>2 DEF Sent
  <2>6. \A v \in Workers \ {w} : alone'[v] => alone[v] /\ ~On(w, tx[v].id)'
    <3> SUFFICES ASSUME NEW v \in Workers \ {w}, alone[v] PROVE ~On(w, tx[v].id)'
      BY <2>2
    <3>1. tx[v].id # nextId
      BY <1>b, <2>4 DEF On
    <3> QED BY <2>1, <3>1 DEF On, Moves
  <2> QED BY <2>1, <2>2, <2>4, <2>5, <2>6, Unheard DEF OnProblem
\* A transaction that reads a problem.
<1>d. ASSUME NEW w \in Workers, NEW i \in Ids, Moves(w), tx[w].step = "idle", Meets(w, i),
             tx'[w].step \in OnProblem, ~Sent(w)', tx'[w].id = i, tx'[w].read = rows[i],
             UNCHANGED <<rows, tags, heard, behind>>
      PROVE  EventsInv'
  <2>1. /\ alone'[w] <=> \A v \in Workers \ {w} : ~On(v, i)
        /\ \A v \in Workers \ {w} : alone'[v] <=> alone[v] /\ ~On(v, i)
    BY <1>d, MeetsOne
  <2>2. ~Sent(w)
    BY <1>d DEF Sent
  <2>3. \A v \in Workers \ {w} : alone'[v] => alone[v] /\ ~On(w, tx[v].id)'
    <3> SUFFICES ASSUME NEW v \in Workers \ {w}, alone'[v] PROVE ~On(w, tx[v].id)'
      BY <2>1
    <3>1. tx[v].id # i
      BY <1>b, <2>1 DEF On
    <3> QED BY <1>d, <3>1 DEF On, Moves
  <2> QED BY <1>d, <2>1, <2>2, <2>3, Unheard
<1>4. ASSUME NEW w \in Workers, NEW i \in Ids, NEW t \in Titles, NEW c \in Contents,
             NEW given \in (SUBSET Tags) \cup {NotGiven}, NEW b \in BOOLEAN,
             UpdateBegin(w, i, t, c, given, b)
      PROVE  EventsInv'
  <2>1. /\ Moves(w) /\ tx[w].step = "idle" /\ tx'[w].step \in OnProblem /\ ~Sent(w)'
        /\ tx'[w].id = i /\ tx'[w].read = rows[i]
    BY <1>4, BeginOfTx DEF UpdateBegin, Sent, OnProblem
  <2> QED BY <1>4, <1>d, <2>1 DEF UpdateBegin, tables
<1>5. ASSUME NEW w \in Workers, NEW i \in Ids, DeleteBegin(w, i) PROVE EventsInv'
  <2>1. /\ Moves(w) /\ tx[w].step = "idle" /\ tx'[w].step \in OnProblem /\ ~Sent(w)'
        /\ tx'[w].id = i /\ tx'[w].read = rows[i]
    BY <1>5, BeginOfTx DEF DeleteBegin, Sent, OnProblem
  <2> QED BY <1>5, <1>d, <2>1 DEF DeleteBegin, tables
\* A transaction that goes on with its problem, and sends nothing.
<1>e. ASSUME NEW w \in Workers, Moves(w), tx[w].step \in OnProblem, tx'[w].step \in OnProblem,
             ~Sent(w), ~Sent(w)', tx'[w].id = tx[w].id, tx'[w].read = tx[w].read,
             UNCHANGED <<rows, tags, heard, behind, alone>>
      PROVE  EventsInv'
  <2>1. alone[w] => /\ \A v \in Workers \ {w} : ~On(v, tx'[w].id)
                    /\ rows[tx'[w].id] = tx'[w].read
    BY <1>b, <1>e
  <2>2. \A v \in Workers \ {w} : alone[v] => ~On(w, tx[v].id)'
    BY <1>b, <1>e DEF On, Moves
  <2> QED BY <1>e, <2>1, <2>2, Unheard
<1>6. ASSUME NEW w \in Workers, RewriteTests(w) PROVE EventsInv'
  <2>1. w \in DOMAIN tx /\ tx[w].step = "tests"
    BY <1>6 DEF RewriteTests, Shapes
  <2>2. /\ Moves(w) /\ tx'[w].step = "index" /\ tx'[w].id = tx[w].id /\ tx'[w].read = tx[w].read
    BY <1>6, <2>1 DEF RewriteTests, Shapes, Moves
  <2>3. ~Sent(w) /\ ~Sent(w)'
    BY <2>1, <2>2 DEF Sent
  <2> QED BY <1>6, <1>e, <2>1, <2>2, <2>3 DEF RewriteTests, history, OnProblem
<1>7. ASSUME NEW w \in Workers, IndexSent(w) PROVE EventsInv'
  <2> PICK i : i = tx[w].id
    OBVIOUS
  <2>1. /\ Moves(w) /\ tx'[w].step = "commit" /\ tx'[w].event = "sent"
        /\ tx'[w].id = i /\ tx'[w].row = tx[w].row /\ tx'[w].read = tx[w].read
        /\ tx'[w].tags = tx[w].tags /\ i \in Ids
    BY <1>7, PublishOfTx DEF IndexSent
  <2>2. /\ UNCHANGED <<rows, tags, behind, alone>> /\ tx[w].step = "index"
        /\ heard'[i] = Document(w) /\ \A j \in Ids : j # i => heard'[j] = heard[j]
    BY <1>7, <2>1 DEF IndexSent, Shapes, tables
  <2>3. /\ Sent(w)' /\ Document(w)' = Document(w) /\ On(w, i) /\ On(w, i)'
        /\ \A j : On(w, j)' <=> On(w, j)
    BY <2>1, <2>2 DEF Sent, On, OnProblem, Document, TagsLeft
  <2>4. ASSUME NEW v \in Workers \ {w}
        PROVE  /\ tx'[v] = tx[v] /\ (Sent(v)' <=> Sent(v)) /\ Document(v)' = Document(v)
               /\ \A j : On(v, j)' <=> On(v, j)
    BY <2>1, <2>2, <2>4 DEF Moves, Sent, On, Document, TagsLeft
  <2>5. AloneIsAlone'
    <3>1. ASSUME alone[w]
          PROVE  /\ rows[i] = tx[w].read /\ \A v \in Workers \ {w} : ~On(v, i)'
      BY <1>b, <2>4, <3>1
    <3>2. ASSUME NEW v \in Workers \ {w}, alone[v]
          PROVE  /\ tx[v].step \in OnProblem /\ rows[tx[v].id] = tx[v].read
                 /\ \A u \in Workers \ {v} : ~On(u, tx[v].id)'
                 /\ Sent(v) => heard'[tx[v].id] = Document(v)
      <4>1. /\ tx[v].step \in OnProblem /\ rows[tx[v].id] = tx[v].read /\ tx[v].id \in Ids
            /\ \A u \in Workers \ {v} : ~On(u, tx[v].id)
            /\ Sent(v) => heard[tx[v].id] = Document(v)
        BY <1>b, <3>2
      <4>2. tx[v].id # i
        BY <2>3, <4>1
      <4>3. \A u \in Workers \ {v} : ~On(u, tx[v].id)'
        BY <2>3, <2>4, <4>1
      <4> QED BY <2>2, <4>1, <4>2, <4>3
    <3> QED BY <2>1, <2>2, <2>3, <2>4, <3>1, <3>2 DEF AloneIsAlone, OnProblem
  <2>6. TableIsHeard'
    <3> SUFFICES ASSUME NEW j \in Ids, ~behind[j], \A v \in Workers : On(v, j)' => ~Sent(v)'
                 PROVE  heard'[j] = Saved(j)
      BY <2>2 DEF TableIsHeard, Saved
    <3>1. j # i
      BY <2>3
    <3>2. \A v \in Workers : On(v, j) => ~Sent(v)
      BY <2>1, <2>2, <2>4, <3>1 DEF Sent
    <3> QED BY <2>2, <3>1, <3>2 DEF EventsInv, TableIsHeard
  <2> QED BY <2>5, <2>6 DEF EventsInv
<1>8. ASSUME NEW w \in Workers, IndexLost(w) PROVE EventsInv'
  <2>1. /\ Moves(w) /\ tx'[w].step = "commit" /\ tx'[w].event = "lost"
        /\ tx'[w].id = tx[w].id /\ tx'[w].read = tx[w].read /\ tx[w].step = "index"
    BY <1>8, PublishOfTx DEF IndexLost
  <2>2. ~Sent(w) /\ ~Sent(w)'
    BY <2>1 DEF Sent
  <2>3. UNCHANGED <<rows, tags, heard, behind, alone>>
    BY <1>8 DEF IndexLost, tables, history
  <2> QED BY <1>e, <2>1, <2>2, <2>3 DEF OnProblem
<1>9. ASSUME NEW w \in Workers, Commit(w) PROVE EventsInv'
  <2> PICK i : i = tx[w].id
    OBVIOUS
  <2> DEFINE changes == Dirty(w) \/ TagsLeft(w) # tags[i]
  <2>1. Carries(tx[w]) /\ i \in Ids /\ On(w, i) /\ tx[w].step = "commit"
    BY <1>9, <1>a DEF Commit, OnProblem, On
  <2>2. /\ End(w) /\ heard' = heard
        /\ \A j \in Ids : rows'[j] = IF Dirty(w) /\ j = i THEN tx[w].row ELSE rows[j]
        /\ \A j \in Ids : tags'[j] = IF j = i THEN TagsLeft(w) ELSE tags[j]
        /\ \A j \in Ids : j # i => (behind'[j] <=> behind[j])
    BY <1>9, <2>1 DEF Commit, Shapes
  <2>3. behind'[i] <=> IF tx[w].event = "sent" THEN ~alone[w] ELSE behind[i] \/ changes
    BY <1>9, <2>1 DEF Commit, Shapes
  <2>4. CASE tx[w].event = "sent" /\ alone[w]
    <3>1. heard[i] = Document(w) /\ rows[i] = tx[w].read
      BY <1>b, <2>1, <2>4 DEF Sent
    <3>2. rows'[i] = tx[w].row /\ tags'[i] = TagsLeft(w)
      BY <2>1, <2>2, <3>1 DEF Dirty
    <3>3. heard[i] = Saved(i)'
      BY <3>1, <3>2 DEF Document, Saved, Joined
    <3> QED BY <2>1, <2>2, <3>3, EndKeepsEvents
  <2>5. CASE tx[w].event = "sent" /\ ~alone[w]
    BY <2>1, <2>2, <2>3, <2>5, EndKeepsEvents
  <2>6. CASE tx[w].event # "sent"
    <3>1. ~Sent(w)
      BY <2>6 DEF Sent
    <3>2. ~behind'[i] => ~behind[i] /\ rows'[i] = rows[i] /\ tags'[i] = tags[i]
      BY <2>1, <2>2, <2>3, <2>6
    <3> QED BY <2>1, <2>2, <3>1, <3>2, EndKeepsEvents
  <2> QED BY <2>4, <2>5, <2>6
<1>10. ASSUME NEW w \in Workers, Rollback(w) PROVE EventsInv'
  <2>1. UNCHANGED <<rows, tags, heard>> /\ End(w)
    BY <1>10 DEF Rollback, tables
  <2>2. CASE tx[w].step \in OnProblem
    <3> PICK i : i = tx[w].id
      OBVIOUS
    <3>1. i \in Ids /\ On(w, i)
      BY <1>a, <2>2 DEF On
    <3>2. /\ \A j \in Ids : j # i => (behind'[j] <=> behind[j])
          /\ behind'[i] <=> behind[i] \/ Sent(w)
      BY <1>10, <3>1 DEF Rollback, Sent, Shapes
    <3> QED BY <2>1, <3>1, <3>2, EndKeepsEvents
  <2>3. CASE tx[w].step \notin OnProblem
    <3>1. /\ Moves(w) /\ tx'[w].step = "idle" /\ ~alone'[w]
          /\ \A v \in Workers \ {w} : alone'[v] = alone[v]
      BY <2>1, EndOfTx
    <3>2. ~Sent(w) /\ ~Sent(w)' /\ \A j : ~On(w, j)'
      BY <2>3, <3>1 DEF Sent, On, OnProblem
    <3>3. behind' = behind
      BY <1>10, <2>3 DEF Rollback, OnProblem
    <3> QED BY <2>1, <3>1, <3>2, <3>3, Unheard
  <2> QED BY <2>2, <2>3
<1>11. ASSUME NEW q \in requests, Apply(q) \/ ApplyFails(q) PROVE EventsInv'
  BY <1>11, <1>c DEF Apply, ApplyFails, tables, history
<1>12. ASSUME NEW i \in Ids, AddTestCase(i) PROVE EventsInv'
  BY <1>12, <1>c DEF AddTestCase, history
<1>13. ASSUME NEW t \in tests, DeleteTestCase(t) PROVE EventsInv'
  BY <1>13, <1>c DEF DeleteTestCase, history
<1>14. ASSUME NEW w \in Workers, NEW t \in Titles, CreateRefused(w, t) PROVE EventsInv'
  BY <1>1, <1>14 DEF CreateRefused
<1>15. CASE Over
  BY <1>1, <1>15 DEF Over
<1> QED BY <1>1, <1>2, <1>3, <1>4, <1>5, <1>6, <1>7, <1>8, <1>9, <1>10, <1>11, <1>12,
           <1>13, <1>14, <1>15 DEF Next

-----------------------------------------------------------------------------
(* What holds in every state *)

LEMMA Invariance == Spec => []IInv
<1>1. IInv /\ [Next]_vars => IInv'
  BY StepKeepsShapes, StepKeepsTables, StepKeepsEvents DEF IInv
<1> QED BY <1>1, InitEstablishesIInv, PTL DEF Spec

\* The tables, the transactions and the index keep their types, and a
\* transaction works on an id that was handed out.
THEOREM TypeCorrect == Spec => []TypeOK
<1>1. IInv => TypeOK
  <2> SUFFICES ASSUME IInv PROVE TypeOK
    OBVIOUS
  <2>1. ASSUME NEW w \in Workers, tx[w].step \in OnProblem
        PROVE  tx[w].id \in 1 .. nextId - 1 /\ {tx[w].row, tx[w].read} \subseteq Row \cup {NoRow}
    <3>1. Carries(tx[w]) /\ tx[w].id < nextId /\ nextId \in Nat
      BY <2>1, RowsAreRecords DEF IInv, Shapes, TxOK, TablesInv, IdsAreFresh
    <3> QED BY <3>1, RowsAreRecords DEF Carries, Known, Ids
  <2>2. \A w \in Workers : tx[w].step \in Steps
    BY DEF IInv, Shapes, TxOK
  <2> QED BY <2>1, <2>2 DEF IInv, Shapes, TypeOK, Known, TestRows
<1> QED BY <1>1, Invariance, PTL

\* No two problems ever have one title and no test case is ever left without
\* its problem, whatever creations, updates and deletions overlap, and wherever
\* a transaction is rolled back.
THEOREM TablesStayConsistent == Spec => []TablesAreConsistent
<1>1. IInv => TablesAreConsistent
  BY DEF IInv, TablesInv
<1> QED BY <1>1, Invariance, PTL

\* When no transaction of a problem is open, and since the last one that
\* published alone no change was committed without its event, no event rolled
\* back and none overlapped, the last event the search-service received says of
\* the problem exactly what the tables do.
THEOREM EventsStayCurrent == Spec => []EventsFollowTable
<1>1. IInv => EventsFollowTable
  BY DEF IInv, EventsInv, TableIsHeard, EventsFollowTable
<1> QED BY <1>1, Invariance, PTL
=============================================================================
