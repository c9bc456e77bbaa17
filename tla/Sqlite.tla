------------------------------- MODULE Sqlite -------------------------------
(* The SQLite backend (src/src/storage_sqlite.cpp): several processes load  *)
(* and save products and orders in one database.  Each call opens a         *)
(* connection; a call that throws leaves it open, with the transaction it   *)
(* may be in, until its process ends.                                       *)
(*                                                                          *)
(* Of SQLite itself: one connection at a time may write; a statement outside*)
(* of a transaction commits by itself; what is not committed is lost when   *)
(* the connection closes; a reader sees what was committed when it began.   *)
EXTENDS FiniteSets

CONSTANTS
    Proc,
    Cli,    \* processes that run the program: a call that throws ends them
    Id,
    Value,
    Order,  \* orders, each with its items
    Absent, \* what a list holds for an id it does not have
    None    \* no process

ASSUME SqliteAssumption ==
    /\ Cli \subseteq Proc
    /\ Absent \notin Value /\ None \notin Proc

List == [Id -> Value \cup {Absent}]
Nothing == [i \in Id |-> Absent]
Listed(l) == {i \in Id : l[i] # Absent}

VARIABLES
    table,  \* the committed rows of products
    stored, \* the committed rows of orders and order_items
    tables, \* the tables that have been created
    writer, \* the process whose connection is in a write transaction, or None
    draft,  \* the rows as that transaction has left them
    inv,    \* the inventory of each process
    orders, \* the orders of each process
    call,   \* the call it makes
    pc,     \* where it is in that call
    rows,   \* the rows it has still to insert
    threw   \* its last call ended with an exception

db == <<table, stored, tables, writer, draft>>
vars == <<db, inv, orders, call, pc, rows, threw>>

NoDraft == [products |-> Nothing, orders |-> {}]
Init ==
    /\ tables \in SUBSET {"products", "orders"}
    /\ table \in List /\ ("products" \notin tables => table = Nothing)
    /\ stored = {}
    /\ writer = None /\ draft = NoDraft
    /\ inv = [p \in Proc |-> Nothing] /\ orders = [p \in Proc |-> {}]
    /\ call = [p \in Proc |-> "none"] /\ pc = [p \in Proc |-> "idle"]
    /\ rows = [p \in Proc |-> {}]
    /\ threw = [p \in Proc |-> FALSE]

Goto(p, where) == pc' = [pc EXCEPT ![p] = where] /\ UNCHANGED <<call, threw>>
Ends(p, thrown) ==
    /\ pc' = [pc EXCEPT ![p] = "idle"]
    /\ call' = [call EXCEPT ![p] = "none"]
    /\ threw' = [threw EXCEPT ![p] = thrown]
    /\ rows' = [rows EXCEPT ![p] = {}]
\* The transaction of p, if there is one, is over.
Release(p) ==
    IF writer = p THEN writer' = None /\ draft' = NoDraft ELSE UNCHANGED <<writer, draft>>
Ready(p) == pc[p] = "idle" /\ ~(p \in Cli /\ threw[p])
MayWrite(p) == writer \in {None, p}

TableOf(c) == IF c = "orders" THEN "orders" ELSE "products"

\* A statement that finds the database locked: `exec` and `step_final` throw.
\* A transaction that an earlier call of p has left open is of another
\* connection, and keeps a new one out like any other.
Busy(p) ==
    /\ IF pc[p] = "create" THEN TableOf(call[p]) \notin tables /\ writer # None
                           ELSE pc[p] \in {"delete", "insert"} /\ ~MayWrite(p)
    /\ Ends(p, TRUE)
    /\ UNCHANGED <<db, inv, orders>>

\* The process edits its inventory and its orders.
Change(p) ==
    /\ Ready(p)
    /\ \E l \in List, o \in SUBSET Order :
        inv' = [inv EXCEPT ![p] = l] /\ orders' = [orders EXCEPT ![p] = o]
    /\ UNCHANGED <<db, call, pc, rows, threw>>

Open(p, what, where) ==
    /\ Ready(p)
    /\ call' = [call EXCEPT ![p] = what] /\ pc' = [pc EXCEPT ![p] = where]
    /\ UNCHANGED <<db, inv, orders, rows, threw>>
SaveProducts(p) == Open(p, "products", "create")
SaveOrders(p) == Open(p, "orders", "create")
LoadProducts(p) == Open(p, "load products", "create")
LoadOrders(p) == Open(p, "load orders", "read")

\* Mutant of AfterCreate: there is no BEGIN IMMEDIATE.
AfterCreateNoBegin(c) == IF c = "load products" THEN "read" ELSE "delete"

AfterCreate(c) == IF c = "load products" THEN "read" ELSE "begin"

\* CREATE TABLE IF NOT EXISTS, before the transaction.
CreateTable(p) ==
    /\ pc[p] = "create" /\ (TableOf(call[p]) \in tables \/ writer = None)
    /\ tables' = tables \cup {TableOf(call[p])}
    /\ Goto(p, AfterCreate(call[p]))
    /\ UNCHANGED <<table, stored, writer, draft, inv, orders, rows>>

\* BEGIN IMMEDIATE.
Begin(p) ==
    /\ pc[p] = "begin" /\ writer = None
    /\ writer' = p /\ draft' = [products |-> table, orders |-> stored]
    /\ Goto(p, "delete")
    /\ UNCHANGED <<table, stored, tables, inv, orders, rows>>
BeginBusy(p) ==
    /\ pc[p] = "begin" /\ writer # None
    /\ Ends(p, TRUE)
    /\ UNCHANGED <<db, inv, orders>>

\* A statement makes the rows `d`: in the transaction, or, without one, for all.
Now(p) == IF writer = p THEN draft ELSE [products |-> table, orders |-> stored]
Execute(p, d) ==
    IF writer = p
    THEN draft' = d /\ UNCHANGED <<table, stored>>
    ELSE table' = d.products /\ stored' = d.orders /\ UNCHANGED draft

Delete(p) ==
    /\ pc[p] = "delete" /\ MayWrite(p)
    /\ IF call[p] = "products"
       THEN /\ Execute(p, [Now(p) EXCEPT !.products = Nothing])
            /\ rows' = [rows EXCEPT ![p] = Listed(inv[p])]
       ELSE /\ Execute(p, [Now(p) EXCEPT !.orders = {}])
            /\ rows' = [rows EXCEPT ![p] = orders[p]]
    /\ Goto(p, "insert")
    /\ UNCHANGED <<tables, writer, inv, orders>>

Insert(p) ==
    /\ pc[p] = "insert" /\ MayWrite(p)
    /\ \E r \in rows[p] :
        /\ rows' = [rows EXCEPT ![p] = @ \ {r}]
        /\ Execute(p, IF call[p] = "products"
                      THEN [Now(p) EXCEPT !.products[r] = inv[p][r]]
                      ELSE [Now(p) EXCEPT !.orders = @ \cup {r}])
    /\ Goto(p, "insert")
    /\ UNCHANGED <<tables, writer, inv, orders>>

\* A statement of the transaction, its COMMIT included, cannot be done (a full
\* disk, two orders of one id): the call throws.  SQLite has rolled the
\* transaction back, or left it open.
StatementFails(p) ==
    /\ pc[p] \in {"delete", "insert"} /\ MayWrite(p)
    /\ pc[p] = "insert" /\ call[p] = "orders" => rows[p] # {}
    /\ Ends(p, TRUE)
    /\ Release(p) \/ UNCHANGED <<writer, draft>>
    /\ UNCHANGED <<table, stored, tables, inv, orders>>

\* Mutant of Commit: the products are not committed.
CommitNot(p) ==
    /\ pc[p] = "insert" /\ rows[p] = {} /\ call[p] = "products"
    /\ Goto(p, "recommit")
    /\ UNCHANGED <<db, inv, orders, rows>>

Commit(p) ==
    /\ pc[p] = "insert" /\ rows[p] = {} /\ call[p] = "products"
    /\ table' = Now(p).products /\ stored' = Now(p).orders
    /\ Release(p)
    /\ Goto(p, "recommit")
    /\ UNCHANGED <<tables, inv, orders, rows>>

\* The second COMMIT has no transaction to end, and throws.
CommitAgain(p) ==
    /\ pc[p] = "recommit"
    /\ Ends(p, TRUE)
    /\ UNCHANGED <<db, inv, orders>>

\* Mutant of CloseOrders: the connection stays open.
CloseOrdersNot(p) ==
    /\ pc[p] = "insert" /\ rows[p] = {} /\ call[p] = "orders"
    /\ Ends(p, FALSE)
    /\ UNCHANGED <<db, inv, orders>>

\* save_orders does not commit: sqlite3_close rolls back, and nothing is said.
CloseOrders(p) ==
    /\ pc[p] = "insert" /\ rows[p] = {} /\ call[p] = "orders"
    /\ Release(p)
    /\ Ends(p, FALSE)
    /\ UNCHANGED <<table, stored, tables, inv, orders>>

\* add_product throws for an id the inventory has; that is caught.
Kept(mine, list) == [i \in Id |-> IF mine[i] = Absent THEN list[i] ELSE mine[i]]

\* The rows are in the inventory when COMMIT, without a transaction, throws.
ReadProducts(p) ==
    /\ pc[p] = "read" /\ call[p] = "load products"
    /\ inv' = [inv EXCEPT ![p] = Kept(@, table)]
    /\ Ends(p, TRUE)
    /\ UNCHANGED <<db, orders>>

ReadOrders(p) ==
    /\ pc[p] = "read" /\ call[p] = "load orders"
    /\ IF "orders" \in tables
       THEN orders' = [orders EXCEPT ![p] = stored] /\ Ends(p, FALSE)
       ELSE orders' = [orders EXCEPT ![p] = {}] /\ Ends(p, TRUE)
    /\ UNCHANGED <<db, inv>>

\* The process ends, or is killed: its connections go with it.
Exit(p) ==
    /\ inv' = [inv EXCEPT ![p] = Nothing] /\ orders' = [orders EXCEPT ![p] = {}]
    /\ Release(p)
    /\ Ends(p, FALSE)
    /\ UNCHANGED <<table, stored, tables>>

Work(p) ==
    \/ CreateTable(p) \/ Begin(p) \/ BeginBusy(p) \/ Busy(p)
    \/ Delete(p) \/ Insert(p) \/ StatementFails(p) \/ Commit(p) \/ CommitAgain(p)
    \/ CloseOrders(p) \/ ReadProducts(p) \/ ReadOrders(p)

Call(p) == SaveProducts(p) \/ SaveOrders(p) \/ LoadProducts(p) \/ LoadOrders(p)

Next == \E p \in Proc : Change(p) \/ Call(p) \/ Work(p) \/ Exit(p)

Spec == Init /\ [][Next]_vars

\* A process that is in a call goes on; main ends when a call has thrown.
Fairness ==
    /\ \A p \in Proc : WF_vars(Work(p))
    /\ \A p \in Cli : WF_vars(threw[p] /\ Exit(p))
FairSpec == Spec /\ Fairness

-----------------------------------------------------------------------------
Rows == [products : List, orders : SUBSET Order]

\* Types of all variables; a draft belongs to a transaction, and none is open
\* when save_products is about to throw.
TypeOK ==
    /\ writer = None => draft = NoDraft
    /\ \A p \in Proc : pc[p] = "recommit" => writer # p
    /\ table \in List /\ stored \subseteq Order
    /\ tables \subseteq {"products", "orders"}
    /\ writer \in Proc \cup {None} /\ draft \in Rows
    /\ inv \in [Proc -> List] /\ orders \in [Proc -> SUBSET Order]
    /\ call \in [Proc -> {"none", "products", "orders", "load products", "load orders"}]
    /\ pc \in [Proc -> {"idle", "create", "begin", "delete", "insert", "recommit", "read"}]
    /\ rows \in [Proc -> SUBSET (Id \cup Order)]
    /\ threw \in [Proc -> BOOLEAN]

\* What the proofs add.  A save that has begun holds the write lock to its end,
\* its draft is the inventory but for the rows still to insert, and no draft
\* that will be committed holds an order.
Progress ==
    \A p \in Proc :
        /\ pc[p] = "create" => call[p] \in {"products", "orders", "load products"}
        /\ pc[p] \in {"begin", "delete", "insert"} => call[p] \in {"products", "orders"}
        /\ pc[p] \in {"delete", "insert"} => writer = p
        /\ pc[p] = "insert" /\ call[p] = "products" =>
            /\ rows[p] \subseteq Id
            /\ draft.products = [i \in Id |-> IF i \in rows[p] THEN Absent ELSE inv[p][i]]
        /\ pc[p] = "insert" /\ call[p] = "orders" => rows[p] \subseteq Order
        /\ pc[p] \in {"delete", "insert"} /\ call[p] = "products" => draft.orders = {}

\* README.md:35 says that SQLite stores.  Whatever is saved, the tables of
\* orders stay empty: save_orders begins and never commits.
NoOrderStored == stored = {}

\* CHANGELOG.md:81: whatever throws, is locked out or is killed, the products
\* that are stored change from one whole list to another.
Whole == INSTANCE AtomicTable
WholeLists == Whole!Spec

\* The program never leaves the database locked: its transactions end, for main
\* ends when a call has thrown.
LockReleased == \A p \in Cli : writer = p ~> writer # p

\* README.md:35: SQLite is a storage backend.  A save_orders that returns has
\* stored the orders.  Does not hold: its transaction is never committed.
OrdersStored ==
    [][\A p \in Proc : CloseOrders(p) => stored' = orders[p]]_vars
=============================================================================
