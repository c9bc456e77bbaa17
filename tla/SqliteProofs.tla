---------------------------- MODULE SqliteProofs ----------------------------
(* Theorems about Sqlite for every set of processes, ids, values and orders. *)
EXTENDS Sqlite, TLAPS

IInv == TypeOK /\ Progress /\ NoOrderStored

\* What Progress says of one process.
ProgressOf(p) ==
    /\ pc[p] = "create" => call[p] \in {"products", "orders", "load products"}
    /\ pc[p] \in {"begin", "delete", "insert"} => call[p] \in {"products", "orders"}
    /\ pc[p] \in {"delete", "insert"} => writer = p
    /\ pc[p] = "insert" /\ call[p] = "products" =>
        /\ rows[p] \subseteq Id
        /\ draft.products = [i \in Id |-> IF i \in rows[p] THEN Absent ELSE inv[p][i]]
    /\ pc[p] = "insert" /\ call[p] = "orders" => rows[p] \subseteq Order
    /\ pc[p] \in {"delete", "insert"} /\ call[p] = "products" => draft.orders = {}

LEMMA EachProgress == Progress <=> \A p \in Proc : ProgressOf(p)
  BY DEF Progress, ProgressOf

LEMMA EmptyDraft == Nothing \in List /\ NoDraft \in Rows
  BY DEF Nothing, List, NoDraft, Rows

LEMMA InitInv == Init => IInv
<1> SUFFICES ASSUME Init PROVE IInv
  OBVIOUS
<1>1. TypeOK
  BY EmptyDraft DEF Init, TypeOK
<1>2. Progress
  BY DEF Init, Progress
<1> QED BY <1>1, <1>2 DEF Init, IInv, NoOrderStored

\* A step of p leaves q where it is, and the transaction of a q that saves.
Apart(p) ==
    \A q \in Proc \ {p} :
        /\ pc'[q] = pc[q] /\ call'[q] = call[q] /\ rows'[q] = rows[q] /\ inv'[q] = inv[q]
        /\ pc[q] \in {"delete", "insert"} => writer' = writer /\ draft' = draft

\* The release of a transaction of p is none of another's.
LEMMA ReleaseApart ==
    ASSUME IInv, NEW p \in Proc, NEW q \in Proc \ {p}, pc[q] \in {"delete", "insert"}, Release(p)
    PROVE  writer' = writer /\ draft' = draft
<1>1. writer = q
  BY DEF IInv, Progress
<1> QED BY <1>1 DEF Release

LEMMA ReleaseType ==
    ASSUME IInv, NEW p \in Proc, Release(p)
    PROVE  /\ writer' \in Proc \cup {None} /\ draft' \in Rows
           /\ writer' = None => draft' = NoDraft
           /\ writer' # p
           /\ \A q \in Proc : writer # q => writer' # q
  BY EmptyDraft, SqliteAssumption DEF Release, IInv, TypeOK

\* A step that leaves every transaction alone or ends that of p, after which p
\* is in no transaction, keeps what Progress says of all the others.
LEMMA ApartKeeps ==
    ASSUME IInv, NEW p \in Proc, Apart(p), ProgressOf(p)'
    PROVE  Progress'
<1> SUFFICES ASSUME NEW q \in Proc \ {p} PROVE ProgressOf(q)'
  BY DEF Progress, ProgressOf
<1>1. ProgressOf(q)
  BY EachProgress DEF IInv
<1> QED BY <1>1 DEF ProgressOf, Apart
\* The steps that no transaction is concerned by.
Quiet(p) ==
    \/ Change(p) \/ Call(p) \/ CreateTable(p) \/ BeginBusy(p) \/ Busy(p)
    \/ CommitAgain(p) \/ ReadProducts(p) \/ ReadOrders(p)

LEMMA KeptType ==
    ASSUME NEW mine \in List, NEW list \in List
    PROVE  Kept(mine, list) \in List
  BY DEF Kept, List

LEMMA QuietType ==
    ASSUME IInv, NEW p \in Proc, Quiet(p)
    PROVE  TypeOK'
<1> USE DEF IInv, TypeOK, db, Goto, Ends
<1>1. CASE Change(p)
  <2>1. PICK l \in List, o \in SUBSET Order :
          inv' = [inv EXCEPT ![p] = l] /\ orders' = [orders EXCEPT ![p] = o]
    BY <1>1 DEF Change
  <2> QED BY <1>1, <2>1 DEF Change
<1>2. CASE Call(p)
  BY <1>2 DEF Call, SaveProducts, SaveOrders, LoadProducts, LoadOrders, Open
<1>3. CASE CreateTable(p)
  <2>1. AfterCreate(call[p]) \in {"read", "begin"} /\ TableOf(call[p]) \in {"products", "orders"}
    BY DEF AfterCreate, TableOf
  <2> QED BY <1>3, <2>1 DEF CreateTable
<1>4. CASE BeginBusy(p) \/ Busy(p) \/ CommitAgain(p)
  BY <1>4 DEF BeginBusy, Busy, CommitAgain
<1>5. CASE ReadProducts(p)
  BY <1>5, KeptType DEF ReadProducts
<1>6. CASE ReadOrders(p)
  <2>1. CASE "orders" \in tables
    <3>1. stored \in SUBSET Order
      OBVIOUS
    <3>2. orders' = [orders EXCEPT ![p] = stored] /\ Ends(p, FALSE) /\ UNCHANGED <<db, inv>>
      BY <1>6, <2>1 DEF ReadOrders
    <3>3. orders' \in [Proc -> SUBSET Order]
      BY <3>1, <3>2
    <3> QED BY <3>2, <3>3
  <2>2. CASE "orders" \notin tables
    BY <1>6, <2>2 DEF ReadOrders
  <2> QED BY <2>1, <2>2
<1> QED BY <1>1, <1>2, <1>3, <1>4, <1>5, <1>6 DEF Quiet

LEMMA QuietStep ==
    ASSUME IInv, NEW p \in Proc, Quiet(p)
    PROVE  IInv' /\ UNCHANGED <<table, stored, writer, draft>>
<1> USE DEF IInv, TypeOK, db, Goto, Ends
<1>1. UNCHANGED <<table, stored, writer, draft>>
  BY DEF Quiet, Change, Call, SaveProducts, SaveOrders, LoadProducts, LoadOrders, Open,
         CreateTable, BeginBusy, Busy, CommitAgain, ReadProducts, ReadOrders
<1>2. Apart(p)
  BY DEF Apart, Quiet, Change, Call, SaveProducts, SaveOrders, LoadProducts, LoadOrders, Open,
         CreateTable, BeginBusy, Busy, CommitAgain, ReadProducts, ReadOrders
<1>3. ProgressOf(p)'
  <2> USE DEF ProgressOf
  <2>1. CASE Change(p)
    BY <2>1 DEF Change, Ready
  <2>2. CASE Call(p)
    BY <2>2 DEF Call, SaveProducts, SaveOrders, LoadProducts, LoadOrders, Open
  <2>3. CASE CreateTable(p)
    <3>1. /\ pc'[p] = "read" \/ (pc'[p] = "begin" /\ call[p] \in {"products", "orders"})
          /\ call' = call
      BY <2>3 DEF CreateTable, AfterCreate, Progress
    <3> QED BY <2>3, <3>1 DEF Progress
  <2>4. CASE ~Change(p) /\ ~Call(p) /\ ~CreateTable(p)
    BY <2>4 DEF Quiet, BeginBusy, Busy, CommitAgain, ReadProducts, ReadOrders
  <2> QED BY <2>1, <2>2, <2>3, <2>4
<1> QED BY <1>1, <1>2, <1>3, QuietType, ApartKeeps DEF NoOrderStored

LEMMA BeginStep ==
    ASSUME IInv, NEW p \in Proc, Begin(p)
    PROVE  IInv'
<1> USE DEF IInv, TypeOK, Goto, Begin
<1>1. [products |-> table, orders |-> stored] \in Rows
  BY DEF Rows
<1>2. TypeOK'
  BY <1>1, SqliteAssumption
<1>3. Apart(p) /\ ProgressOf(p)'
  <2>1. \A q \in Proc : pc[q] \notin {"delete", "insert"}
    BY SqliteAssumption DEF Progress
  <2> QED BY <2>1 DEF Apart, ProgressOf, Progress, NoOrderStored
<1> QED BY <1>2, <1>3, ApartKeeps DEF NoOrderStored

LEMMA DeleteStep ==
    ASSUME IInv, NEW p \in Proc, Delete(p)
    PROVE  IInv' /\ UNCHANGED <<table, stored, inv>>
<1> USE DEF IInv, TypeOK, Goto
<1>1. pc[p] = "delete" /\ writer = p /\ call[p] \in {"products", "orders"}
  BY DEF Delete, Progress
<1>2. draft' = IF call[p] = "products" THEN [draft EXCEPT !.products = Nothing]
                                       ELSE [draft EXCEPT !.orders = {}]
  BY <1>1 DEF Delete, Execute, Now
<1>3. UNCHANGED <<table, stored, tables, writer, inv, orders, call, threw>>
  BY <1>1 DEF Delete, Execute
<1>4. /\ pc' = [pc EXCEPT ![p] = "insert"]
      /\ rows' = [rows EXCEPT ![p] = IF call[p] = "products" THEN Listed(inv[p]) ELSE orders[p]]
  BY DEF Delete
<1>5. TypeOK'
  <2>1. draft' \in Rows
    BY <1>2, EmptyDraft DEF Rows
  <2> QED BY <1>1, <1>3, <1>4, <2>1, SqliteAssumption DEF Listed
<1>6. Apart(p)
  BY <1>1, <1>3, <1>4 DEF Apart, Progress
<1>7. ProgressOf(p)'
  <2>1. CASE call[p] = "products"
    <3>1. inv[p] = [i \in Id |-> IF i \in Listed(inv[p]) THEN inv[p][i] ELSE Absent]
      BY DEF List, Listed
    <3>2. draft'.products = [i \in Id |-> Absent] /\ draft'.orders = draft.orders
      BY <1>2, <2>1 DEF Rows, Nothing
    <3>3. rows'[p] = Listed(inv[p]) /\ rows'[p] \subseteq Id
      BY <1>4, <2>1 DEF Listed
    <3>4. draft'.products = [i \in Id |-> IF i \in rows'[p] THEN Absent ELSE inv'[p][i]]
      BY <1>3, <3>2, <3>3 DEF Listed
    <3>5. draft.orders = {}
      BY <1>1, <2>1 DEF Progress
    <3> QED BY <1>1, <1>3, <1>4, <2>1, <3>2, <3>3, <3>4, <3>5 DEF ProgressOf
  <2>2. CASE call[p] = "orders"
    BY <1>1, <1>3, <1>4, <2>2 DEF ProgressOf
  <2> QED BY <1>1, <2>1, <2>2
<1> QED BY <1>3, <1>5, <1>6, <1>7, ApartKeeps DEF NoOrderStored

LEMMA InsertStep ==
    ASSUME IInv, NEW p \in Proc, Insert(p)
    PROVE  IInv' /\ UNCHANGED <<table, stored, inv>>
<1> USE DEF IInv, TypeOK, Goto
<1>1. pc[p] = "insert" /\ writer = p /\ call[p] \in {"products", "orders"}
  BY DEF Insert, Progress
<1>2. PICK r \in rows[p] :
        /\ rows' = [rows EXCEPT ![p] = @ \ {r}]
        /\ draft' = IF call[p] = "products" THEN [draft EXCEPT !.products[r] = inv[p][r]]
                                            ELSE [draft EXCEPT !.orders = @ \cup {r}]
        /\ UNCHANGED <<table, stored>>
  BY <1>1 DEF Insert, Execute, Now
<1>3. UNCHANGED <<table, stored, tables, writer, inv, orders, call, threw>>
  BY <1>2 DEF Insert
<1>4. pc' = [pc EXCEPT ![p] = "insert"] /\ rows'[p] = rows[p] \ {r}
  BY <1>2 DEF Insert
<1>5. /\ call[p] = "products" => r \in Id
      /\ call[p] = "orders" => r \in Order
  BY <1>1 DEF Progress
<1>6. TypeOK'
  <2>1. draft' \in Rows
    <3>1. CASE call[p] = "products"
      <4>1. draft.products \in List /\ inv[p] \in List /\ r \in Id
        BY <1>5, <3>1 DEF Rows
      <4>2. [draft.products EXCEPT ![r] = inv[p][r]] \in List
        BY ONLY <4>1 DEF List
      <4> QED BY <1>2, <3>1, <4>2 DEF Rows
    <3>2. CASE call[p] = "orders"
      BY <1>1, <1>2, <1>5, <3>2 DEF Rows
    <3> QED BY <1>1, <3>1, <3>2
  <2> QED BY <1>1, <1>2, <1>3, <1>4, <2>1, SqliteAssumption
<1>7. Apart(p)
  BY <1>1, <1>2, <1>3, <1>4 DEF Apart, Progress
<1>8. ProgressOf(p)'
  <2>1. CASE call[p] = "products"
    <3>1. /\ draft.products = [i \in Id |-> IF i \in rows[p] THEN Absent ELSE inv[p][i]]
          /\ rows[p] \subseteq Id /\ draft.orders = {}
      BY <1>1, <2>1 DEF Progress
    <3>2. /\ draft'.products = [draft.products EXCEPT ![r] = inv[p][r]]
          /\ draft'.orders = draft.orders
      BY <1>2, <2>1 DEF Rows
    <3>3. draft'.products = [i \in Id |-> IF i \in rows'[p] THEN Absent ELSE inv'[p][i]]
      BY <1>3, <1>4, <3>1, <3>2
    <3> QED BY <1>1, <1>3, <1>4, <2>1, <3>1, <3>2, <3>3 DEF ProgressOf
  <2>2. CASE call[p] = "orders"
    BY <1>1, <1>3, <1>4, <2>2 DEF ProgressOf, Progress
  <2> QED BY <1>1, <2>1, <2>2
<1> QED BY <1>3, <1>6, <1>7, <1>8, ApartKeeps DEF NoOrderStored

\* A transaction that ends, or a failed statement that leaves it open.
Leave(p) == StatementFails(p) \/ CloseOrders(p) \/ Exit(p)

LEMMA LeaveStep ==
    ASSUME IInv, NEW p \in Proc, Leave(p)
    PROVE  IInv' /\ UNCHANGED <<table, stored>>
<1> USE DEF Leave, StatementFails, CloseOrders, Exit, Ends
<1>1. /\ UNCHANGED <<table, stored, tables>>
      /\ Release(p) \/ UNCHANGED <<writer, draft>>
      /\ pc' = [pc EXCEPT ![p] = "idle"] /\ call' = [call EXCEPT ![p] = "none"]
      /\ rows' = [rows EXCEPT ![p] = {}]
      /\ \E thrown \in BOOLEAN : threw' = [threw EXCEPT ![p] = thrown]
  OBVIOUS
<1>2. /\ inv' \in [Proc -> List] /\ orders' \in [Proc -> SUBSET Order]
      /\ \A q \in Proc \ {p} : inv'[q] = inv[q]
  <2>1. \/ inv' = inv /\ orders' = orders
        \/ inv' = [inv EXCEPT ![p] = Nothing] /\ orders' = [orders EXCEPT ![p] = {}]
    OBVIOUS
  <2>2. inv \in [Proc -> List] /\ orders \in [Proc -> SUBSET Order]
    BY DEF IInv, TypeOK
  <2> QED BY ONLY <2>1, <2>2, EmptyDraft
<1>3. TypeOK'
  BY <1>1, <1>2, ReleaseType DEF IInv, TypeOK
<1>4. Apart(p)
  BY <1>1, <1>2, ReleaseApart DEF Apart, IInv, TypeOK
<1>5. ProgressOf(p)'
  BY <1>1 DEF ProgressOf, IInv, TypeOK
<1> QED BY <1>1, <1>3, <1>4, <1>5, ApartKeeps DEF IInv, NoOrderStored

\* A commit installs the inventory of p as it is.
LEMMA CommitStep ==
    ASSUME IInv, NEW p \in Proc, Commit(p)
    PROVE  IInv' /\ table' = inv[p] /\ UNCHANGED inv
<1> USE DEF Commit, Goto
<1>1. /\ writer = p /\ draft.orders = {}
      /\ draft.products = [i \in Id |-> inv[p][i]]
  BY DEF IInv, Progress
<1>2. table' = inv[p] /\ stored' = {}
  <2>1. inv[p] = [i \in Id |-> inv[p][i]]
    BY DEF IInv, TypeOK, List
  <2> QED BY <1>1, <2>1 DEF Now
<1>3. TypeOK'
  <2>1. table' \in List /\ stored' \subseteq Order
    <3>1. inv[p] \in List
      BY DEF IInv, TypeOK
    <3> QED BY ONLY <1>2, <3>1
  <2>2. /\ Release(p) /\ UNCHANGED <<tables, inv, orders, rows, call, threw>>
        /\ pc' = [pc EXCEPT ![p] = "recommit"]
    OBVIOUS
  <2> HIDE DEF Commit
  <2> QED BY <2>1, <2>2, ReleaseType DEF IInv, TypeOK
<1>4. Apart(p) /\ ProgressOf(p)'
  BY ReleaseApart DEF Apart, ProgressOf, IInv, TypeOK
<1> QED BY <1>2, <1>3, <1>4, ApartKeeps DEF IInv, NoOrderStored

LEMMA NextInv == IInv /\ [Next]_vars => IInv'
<1> SUFFICES ASSUME IInv, [Next]_vars PROVE IInv'
  OBVIOUS
<1>1. CASE Next
  BY <1>1, QuietStep, BeginStep, DeleteStep, InsertStep, LeaveStep, CommitStep
     DEF Next, Work, Quiet, Leave
<1>2. CASE UNCHANGED vars
  BY <1>2 DEF vars, db, IInv, TypeOK, Progress, NoOrderStored
<1> QED BY <1>1, <1>2

\* Every statement of the four calls keeps the invariant, for any processes of
\* the program or of another user of the library, and any that are killed.
THEOREM Inductive == Spec => []IInv
  BY InitInv, NextInv, PTL DEF Spec

\* The variables keep their types; a draft belongs to a transaction, and none is
\* open when save_products is about to throw at its second COMMIT.
THEOREM TypeCorrect == Spec => []TypeOK
<1>1. IInv => TypeOK
  BY DEF IInv
<1> QED BY <1>1, Inductive, PTL

\* save_orders never stores an order, whatever is called and in what order.
THEOREM OrdersAreLost == Spec => []NoOrderStored
<1>1. IInv => NoOrderStored
  BY DEF IInv
<1> QED BY <1>1, Inductive, PTL

-----------------------------------------------------------------------------
\* Sqlite implements AtomicTable: whatever throws, is locked out or is killed,
\* the stored products are replaced by one inventory, whole, in one step.
THEOREM ListsStayWhole == Spec => WholeLists
<1>1. Init => Whole!Init
  BY DEF Init, Whole!Init, Whole!List, Whole!Nothing, List, Nothing
<1>2. IInv /\ [Next]_vars => [Whole!Next]_(Whole!vars)
  <2> SUFFICES ASSUME IInv, [Next]_vars PROVE [Whole!Next]_(Whole!vars)
    OBVIOUS
  <2> USE DEF Whole!vars
  <2>1. CASE UNCHANGED vars
    BY <2>1 DEF vars, db
  <2>2. ASSUME NEW p \in Proc, Change(p) \/ Exit(p)
        PROVE  Whole!Change(p)
    BY <2>2, EmptyDraft DEF Change, Exit, db, Whole!Change, Whole!List, List
  <2>3. ASSUME NEW p \in Proc, ReadProducts(p)
        PROVE  Whole!Load(p)
    BY <2>3 DEF ReadProducts, Kept, db, Whole!Load, Whole!Loaded, IInv, TypeOK
  <2>4. ASSUME NEW p \in Proc, Commit(p)
        PROVE  Whole!Save(p)
    BY <2>4, CommitStep DEF Whole!Save
  <2>5. ASSUME NEW p \in Proc,
               \/ Call(p) \/ CreateTable(p) \/ Begin(p) \/ BeginBusy(p) \/ Busy(p)
               \/ CommitAgain(p) \/ ReadOrders(p) \/ StatementFails(p) \/ CloseOrders(p)
        PROVE  UNCHANGED <<table, inv>>
    BY <2>5 DEF Call, SaveProducts, SaveOrders, LoadProducts, LoadOrders, Open, CreateTable,
                Begin, BeginBusy, Busy, CommitAgain, ReadOrders, StatementFails, CloseOrders, db
  <2>6. ASSUME NEW p \in Proc, Delete(p) \/ Insert(p)
        PROVE  UNCHANGED <<table, inv>>
    BY <2>6, DeleteStep, InsertStep
  <2> QED BY <2>1, <2>2, <2>3, <2>4, <2>5, <2>6 DEF Next, Work, Whole!Next
<1> QED BY <1>1, <1>2, Inductive, PTL DEF Spec, WholeLists, Whole!Spec
=============================================================================
