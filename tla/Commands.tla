------------------------------ MODULE Commands ------------------------------
(* The commands of the program that change a dataset (src/src/main.cpp),    *)
(* run one after another on one directory: what each of them checks, loads, *)
(* computes, saves and records, in that order.  Any of them may be killed.  *)
(*                                                                          *)
(* A save here is one step; modules CsvStore, DatasetTxn and Ledger take it *)
(* apart.  A product is its id and price; an order is the set of products   *)
(* its items name.  A file of rows (batch, import, patch) may have any      *)
(* length: the operators below give what such a file can lead to.           *)
EXTENDS Integers

CONSTANTS
    Id,         \* product ids
    Order,      \* order ids
    Price,
    Absent,     \* what a catalog holds for an id it does not list
    NoId,       \* the empty text, which is no id
    Clean,      \* the id without control characters, trimmed: sanitize
    Upper,      \* the id in capitals: sanitize --upper-ids
    None,       \* there is no such .new file
    Kinds,      \* the commands in use
    RecoverFirst, \* TRUE: while a journal is pending only txn recover is run
    GapFaults   \* TRUE: a command may be killed, or fail, between its two saves

Catalog == [Id -> Price \cup {Absent}]
Orders == SUBSET (Order \X Id)
Nothing == [i \in Id |-> Absent]
Listed(p) == {i \in Id : p[i] # Absent}
\* Every item of an order names a product: what `verify-all` calls refs.
Sound(p, o) == \A x \in o : x[2] \in Listed(p)

\* Commands by what they save: nothing, products.csv, products.csv and then
\* orders.csv, or both through atomic_write_dataset.
InMemory == {"add-product", "restock", "sell", "seed"}
OneFile == {"compact", "transform-products", "set-price-cas", "rename-products",
            "utf8 scrub", "normalize", "batch apply", "import products",
            "patch apply", "dedupe products", "fuzz run"}
TwoFiles == {"save", "repair-integrity", "migrate", "sanitize",
             "sanitize --upper-ids", "remove-product", "generate demo"}
Atomic == {"csv canonicalize", "policy enforce", "merge", "dedupe orders",
           "replicate push"}
Command == InMemory \cup OneFile \cup TwoFiles \cup Atomic \cup {"txn recover"}

ASSUME CommandsAssumption ==
    /\ Absent \notin Price
    /\ NoId \notin Id
    /\ Clean \in [Id -> Id \cup {NoId}]
    /\ Upper \in [Id \cup {NoId} -> Id \cup {NoId}]
    /\ \A p \in Catalog, o \in Orders : None # p /\ None # o
    /\ Kinds \subseteq Command
    /\ RecoverFirst \in BOOLEAN /\ GapFaults \in BOOLEAN

\* Commands that call must_allow_write and cas_guard.
Guarded == {"compact", "transform-products", "set-price-cas", "rename-products",
            "utf8 scrub", "batch apply", "import products", "patch apply",
            "remove-product", "generate demo", "restock"}
\* Commands that --dry-run keeps from saving; the others do not look at it.
HonorsDryRun == {"remove-product", "sanitize", "sanitize --upper-ids", "normalize",
                 "merge", "dedupe products", "dedupe orders", "policy enforce",
                 "add-product", "restock", "seed"}
\* Commands that end with audit_append.
Audited == {"add-product", "restock", "seed", "migrate", "sanitize",
            "sanitize --upper-ids", "generate demo"}
\* Commands that start from the empty inventory of the process.
StartsEmpty == InMemory \cup {"save", "repair-integrity", "generate demo"}
\* A row of `-` in a patch removes a product whatever orders name it.
Breaking == {"patch apply"}

VARIABLES
    products, \* products.csv
    orders,   \* orders.csv
    pnew,     \* products.csv.new beside a journal, or None
    onew,     \* orders.csv.new beside a journal, or None
    journal,  \* txn_journal.json exists
    wlock,    \* .neonstore/writelock exists
    pushed,   \* the .new files are those of a replicate push (auxiliary)
    worm,     \* .neonstore/worm.ini holds a date that is not past
    kind,     \* the command that runs, or "none"
    dry,      \* it has --dry-run
    dryenv,   \* it has NEONSTORE_DRYRUN=1
    named,    \* the directory that the WORM guard looks at is this dataset
    mem,      \* the inventory and the orders it holds in memory
    pc,       \* where it is; "idle": no command runs
    exit,     \* how it, or the last one, ended
    audited,  \* it has appended its entry to audit.log
    before    \* the dataset when the last command ended (auxiliary)

disk == <<products, orders>>
txn == <<pnew, onew, journal, wlock, pushed>>
command == <<kind, dry, dryenv, named>>
vars == <<disk, txn, worm, command, mem, pc, exit, audited, before>>

Data(p, o) == [products |-> p, orders |-> o]
Dataset == [products : Catalog, orders : Orders]
WellFormed == {d \in Dataset : Sound(d.products, d.orders)}

Init ==
    /\ \E d \in WellFormed : products = d.products /\ orders = d.orders
    /\ pnew = None /\ onew = None
    /\ journal = FALSE /\ wlock = FALSE /\ pushed = FALSE /\ worm = FALSE
    /\ kind = "none" /\ dry = FALSE /\ dryenv = FALSE /\ named = TRUE
    /\ mem = Data(Nothing, {})
    /\ pc = "idle" /\ exit = "ok" /\ audited = FALSE
    /\ before = Data(products, orders)

-----------------------------------------------------------------------------
(* What a command computes from a catalog p and orders o: the results its   *)
(* arguments can lead to, each Done or an early exit.                       *)
Done(p, o) == [exit |-> "ok", data |-> Data(p, o)]
Early(code) == [exit |-> code, data |-> Data(Nothing, {})]
Error == Early("error")  \* an exception: exit 2

\* update_product, which the repository does not define, is taken to replace
\* the entry of an id that is listed.
Repriced(p) == {q \in Catalog : Listed(q) = Listed(p)}
Extended(p) == {q \in Catalog : Listed(p) \subseteq Listed(q)}

\* The inventory holds an id once, so there is no duplicate row to drop.
Compact(p, o) == {Done(p, o)}
DedupeProducts(p, o) == {Done(p, o)}
\* Names are not modelled.
RenameProducts(p, o) == {Done(p, o)}
ScrubUtf8(p, o) == {Done(p, o)}
Normalize(p, o) == {Done(p, o)}

TransformProducts(p, o) == {Done(q, o) : q \in Repriced(p)}
Fuzz(p, o) == {Done(q, o) : q \in Repriced(p)}

\* --if-current is compared with the price just loaded.
SetPriceCas(p, o) ==
    {Error : i \in Id \ Listed(p)}
    \cup {Early("mismatch") : i \in Listed(p)}
    \cup {Done([p EXCEPT ![x[1]] = x[2]], o) : x \in Listed(p) \X Price}

\* set-price, set-stock, add-product; a row that throws ends the command.
BatchApply(p, o) == {Done(q, o) : q \in Extended(p)} \cup {Error}
\* A row for an id that is listed replaces its entry, another is added.
ImportProducts(p, o) == {Done(q, o) : q \in Extended(p)}
\* A row of `-` removes a product whatever orders name it.
PatchApply(p, o) == {Done(q, o) : q \in Catalog} \cup {Error}

\* Mutant of RemoveProduct: --cascade no removes a product that is in use.
RemoveInUse(p, o) ==
    {Error : i \in Id \ Listed(p)}
    \cup {Done([p EXCEPT ![i] = Absent], o) : i \in Listed(p)}

\* Not listed, or in use without --cascade yes: exit 2.
RemoveProduct(p, o) ==
    {Error : i \in (Id \ Listed(p)) \cup {x[2] : x \in o}}
    \cup {Done([p EXCEPT ![i] = Absent], {x \in o : x[2] # i}) : i \in Listed(p)}

\* The random products and orders of --seed; items are picked among the products.
GenerateDemo(p, o) == {Done(d.products, d.orders) : d \in WellFormed}

\* The id that a command gives to the product i.
Renamed(k, i) ==
    CASE k = "sanitize" -> Clean[i]
      [] k = "sanitize --upper-ids" -> Upper[Clean[i]]
      [] OTHER -> i
\* It renames no product that one of these orders names.
KeepsIds(k, o) == \A x \in o : Renamed(k, x[2]) = x[2]

\* Products are saved under their new ids, orders as they are.  add_product
\* throws at an empty id and at the second of two that are the same.
Sanitize(k, p, o) ==
    IF dry THEN {Done(p, o)}
    ELSE IF \E i, j \in Listed(p) :
                Renamed(k, i) = NoId \/ (i # j /\ Renamed(k, i) = Renamed(k, j))
    THEN {Error}
    ELSE {Done(q, o) : q \in {r \in Catalog :
            /\ Listed(r) = {Renamed(k, i) : i \in Listed(p)}
            /\ \A i \in Listed(p) : r[Renamed(k, i)] = p[i]}}

\* The inventory of the process, which these commands never load.
Save(p, o) == {Done(p, o)}
RepairIntegrity(p, o) == {Done(p, o)}
\* From another directory, whose references are taken to be intact.
Migrate(p, o) == {Done(d.products, d.orders) : d \in WellFormed}

\* This dataset is the one of --to, and takes the place of what it held.
Push(p, o) == Migrate(p, o)
Canonicalize(p, o) == {Done(p, o)}
DedupeOrders(p, o) == {Done(p, o)}
PolicyEnforce(p, o) == {Done(q, o) : q \in Repriced(p)}
\* Each entry is that of one of the two directories, as the strategy says.
Merged(p, other) ==
    {q \in Catalog : \A i \in Id :
        IF i \in Listed(p) \cup Listed(other)
        THEN q[i] \in {p[i], other[i]} \ {Absent}
        ELSE q[i] = Absent}
\* The references of the other directory are taken to be intact.
Merge(p, o) ==
    {Done(x[1], o \cup x[2].orders) :
        x \in {y \in Catalog \X WellFormed : y[1] \in Merged(p, y[2].products)}}

\* They act on the empty inventory of the process, where nothing is found.
AddProduct(p, o) == {Done([p EXCEPT ![x[1]] = x[2]], o) : x \in Id \X Price} \cup {Error}
Seed(p, o) == {Done(q, o) : q \in Extended(p)}
Restock(p, o) == {Error} \cup (IF dry THEN {Done(p, o)} ELSE {})
Sell(p, o) == {Error}

Outcome(k, p, o) ==
    CASE k = "compact" -> Compact(p, o)
      [] k = "transform-products" -> TransformProducts(p, o)
      [] k = "set-price-cas" -> SetPriceCas(p, o)
      [] k = "rename-products" -> RenameProducts(p, o)
      [] k = "utf8 scrub" -> ScrubUtf8(p, o)
      [] k = "normalize" -> Normalize(p, o)
      [] k = "batch apply" -> BatchApply(p, o)
      [] k = "import products" -> ImportProducts(p, o)
      [] k = "patch apply" -> PatchApply(p, o)
      [] k = "dedupe products" -> DedupeProducts(p, o)
      [] k = "fuzz run" -> Fuzz(p, o)
      [] k = "save" -> Save(p, o)
      [] k = "repair-integrity" -> RepairIntegrity(p, o)
      [] k = "migrate" -> Migrate(p, o)
      [] k \in {"sanitize", "sanitize --upper-ids"} -> Sanitize(k, p, o)
      [] k = "remove-product" -> RemoveProduct(p, o)
      [] k = "generate demo" -> GenerateDemo(p, o)
      [] k = "csv canonicalize" -> Canonicalize(p, o)
      [] k = "policy enforce" -> PolicyEnforce(p, o)
      [] k = "merge" -> Merge(p, o)
      [] k = "dedupe orders" -> DedupeOrders(p, o)
      [] k = "replicate push" -> Push(p, o)
      [] k = "add-product" -> AddProduct(p, o)
      [] k = "seed" -> Seed(p, o)
      [] k = "restock" -> Restock(p, o)
      [] k = "sell" -> Sell(p, o)

-----------------------------------------------------------------------------
Goto(where) == pc' = where /\ UNCHANGED <<command, exit, before>>

\* The process is gone; what it left on disk is there for the next one.
End(code) ==
    /\ pc' = "idle" /\ exit' = code
    /\ kind' = "none" /\ dry' = FALSE /\ dryenv' = FALSE /\ named' = TRUE
    /\ mem' = Data(Nothing, {}) /\ audited' = FALSE
    /\ before' = Data(products', orders')

\* A user starts a command, with --dry-run, NEONSTORE_DRYRUN=1, both or neither.
\* The dataset it writes is the one of --dir, or of NEONSTORE_DIR, of a config
\* file, or of --to (migrate, replicate push): named is FALSE for the others.
Start(k) ==
    /\ pc = "idle"
    /\ RecoverFirst /\ journal => k = "txn recover"
    /\ pc' = "dispatch" /\ kind' = k
    /\ dry' \in BOOLEAN /\ dryenv' \in BOOLEAN /\ named' \in BOOLEAN
    /\ exit' = "ok"
    /\ UNCHANGED <<disk, txn, worm, mem, audited, before>>

\* Mutant of Dispatch: import is on the list of commands that WORM lets pass.
DispatchImport ==
    /\ pc = "dispatch"
    /\ UNCHANGED <<disk, txn, worm>>
    /\ \/ (named => worm) /\ End("worm")
       \/ /\ named /\ worm => kind = "import products"
          /\ Goto("guard") /\ UNCHANGED <<mem, audited>>

\* The WORM guard: no command of this module is on its list.  It looks at --dir
\* or at the default directory, which may be frozen or not when it is another one.
Dispatch ==
    /\ pc = "dispatch"
    /\ UNCHANGED <<disk, txn, worm>>
    /\ \/ (named => worm) /\ End("worm")
       \/ /\ named => ~worm
          /\ Goto("guard") /\ UNCHANGED <<mem, audited>>

\* --read-only, or a fingerprint that is not the one of --expect-fingerprint.
Refuse ==
    /\ pc = "guard"
    /\ kind \in Guarded /\ ~(kind = "remove-product" /\ dry)
    /\ UNCHANGED <<disk, txn, worm>>
    /\ \E code \in {"readonly", "cas"} : End(code)

\* Orders are loaded by commands that save them (others do not use them).
Load ==
    /\ pc = "guard" /\ kind # "txn recover"
    /\ mem' = Data(IF kind \in StartsEmpty THEN Nothing ELSE products,
                   IF kind \in StartsEmpty \cup OneFile THEN {} ELSE orders)
    /\ Goto("edit")
    /\ UNCHANGED <<disk, txn, worm, audited>>

\* Mutant of FirstStep: the audit entry is appended before anything is saved.
AuditFirst(k) ==
    CASE k \in Audited -> "audit"
      [] k \in Atomic -> "prepare"
      [] OTHER -> "saveProducts"

\* Where a command goes when it has computed its result.
FirstStep(k) ==
    CASE k \in OneFile \cup TwoFiles -> "saveProducts"
      [] k \in Atomic -> "prepare"
      [] k \in InMemory -> "audit"

\* Mutant of Edit: rows are saved one by one, until one of them is bad.
EditRowByRow ==
    /\ pc = "edit"
    /\ UNCHANGED <<orders, txn, worm>>
    /\ \E r \in Outcome(kind, mem.products, mem.orders) :
        \/ /\ r.exit # "ok"
           /\ \E q \in IF kind = "batch apply" THEN Extended(products) ELSE {products} :
                    products' = q
           /\ End(r.exit)
        \/ /\ r.exit = "ok"
           /\ UNCHANGED products
           /\ IF dry /\ kind \in HonorsDryRun
              THEN End("ok")
              ELSE mem' = r.data /\ Goto(FirstStep(kind)) /\ UNCHANGED audited

\* An early exit, the end of a dry run, or on to the saves.
Edit ==
    /\ pc = "edit"
    /\ UNCHANGED <<disk, txn, worm>>
    /\ \E r \in Outcome(kind, mem.products, mem.orders) :
        IF r.exit # "ok" \/ (dry /\ kind \in HonorsDryRun)
        THEN End(r.exit)
        ELSE mem' = r.data /\ Goto(FirstStep(kind)) /\ UNCHANGED audited

\* save_products and save_orders return at once under NEONSTORE_DRYRUN=1.
SaveProducts ==
    /\ pc = "saveProducts"
    /\ products' = IF dryenv THEN products ELSE mem.products
    /\ UNCHANGED <<orders, txn, worm>>
    /\ IF kind \in OneFile
       THEN End("ok")
       ELSE Goto("saveOrders") /\ UNCHANGED <<mem, audited>>

SaveOrders ==
    /\ pc = "saveOrders"
    /\ orders' = IF dryenv THEN orders ELSE mem.orders
    /\ UNCHANGED <<products, txn, worm>>
    /\ IF kind \in Audited
       THEN Goto("audit") /\ UNCHANGED <<mem, audited>>
       ELSE End("ok")

\* write_atomic throws: exit 2, and the file is as it was.
SaveFails ==
    /\ pc \in {"saveProducts", "saveOrders"} /\ ~dryenv
    /\ pc = "saveOrders" => GapFaults
    /\ UNCHANGED <<disk, txn, worm>>
    /\ End("error")

\* migrate saves in a dry run as well, but does not record it.
Audit ==
    /\ pc = "audit"
    /\ audited' = ~(kind = "migrate" /\ dry)
    /\ Goto("exit")
    /\ UNCHANGED <<disk, txn, worm, mem>>

Exit ==
    /\ pc = "exit"
    /\ UNCHANGED <<disk, txn, worm>>
    /\ End("ok")

-----------------------------------------------------------------------------
\* readonly.on or the write lock is there: atomic_write_failed.
WriteRefused ==
    /\ pc = "prepare"
    /\ UNCHANGED <<disk, txn, worm>>
    /\ End("failed")

TakeWriteLock ==
    /\ pc = "prepare" /\ ~wlock
    /\ wlock' = TRUE
    /\ Goto("journal")
    /\ UNCHANGED <<disk, pnew, onew, journal, pushed, worm, mem, audited>>

\* The two .new files, then the journal (module DatasetTxn has the steps).
Prepare ==
    /\ pc = "journal"
    /\ pnew' = mem.products /\ onew' = mem.orders
    /\ journal' = TRUE /\ pushed' = (kind = "replicate push")
    /\ Goto("rename")
    /\ UNCHANGED <<disk, wlock, worm, mem, audited>>

\* It returns false after the first rename, which never fails here.
Rename ==
    /\ pc = "rename"
    /\ products' = pnew /\ pnew' = None
    /\ UNCHANGED <<orders, onew, journal, wlock, pushed, worm>>
    /\ End("failed")

Recover ==
    /\ pc = "guard" /\ kind = "txn recover"
    /\ UNCHANGED <<disk, txn, worm>>
    /\ IF journal
       THEN Goto("recoverProducts") /\ UNCHANGED <<mem, audited>>
       ELSE End("ok")

\* Mutant of RecoverProducts: it does not look whether the .new file is there.
RecoverMissing ==
    /\ pc = "recoverProducts"
    /\ products' = pnew /\ pnew' = None
    /\ Goto("recoverOrders")
    /\ UNCHANGED <<orders, onew, journal, wlock, pushed, worm, mem, audited>>

RecoverProducts ==
    /\ pc = "recoverProducts"
    /\ products' = IF pnew = None THEN products ELSE pnew
    /\ pnew' = None
    /\ Goto("recoverOrders")
    /\ UNCHANGED <<orders, onew, journal, wlock, pushed, worm, mem, audited>>

RecoverOrders ==
    /\ pc = "recoverOrders"
    /\ orders' = IF onew = None THEN orders ELSE onew
    /\ onew' = None
    /\ Goto("recoverJournal")
    /\ UNCHANGED <<products, pnew, journal, wlock, pushed, worm, mem, audited>>

RecoverJournal ==
    /\ pc = "recoverJournal"
    /\ journal' = FALSE /\ pushed' = FALSE
    /\ UNCHANGED <<disk, pnew, onew, wlock, worm>>
    /\ End("ok")

Kill ==
    /\ pc # "idle"
    /\ pc = "saveOrders" => GapFaults
    /\ UNCHANGED <<disk, txn, worm>>
    /\ End("killed")

\* worm enable and worm disable run between other commands; a date passes.
WormEnable == pc = "idle" /\ worm' = TRUE
WormEnds == worm' = FALSE
Worm == (WormEnable \/ WormEnds) /\ UNCHANGED <<disk, txn, command, mem, pc, exit, audited, before>>

Step ==
    \/ Dispatch \/ Refuse \/ Load \/ Edit
    \/ SaveProducts \/ SaveOrders \/ SaveFails \/ Audit \/ Exit
    \/ WriteRefused \/ TakeWriteLock \/ Prepare \/ Rename
    \/ Recover \/ RecoverProducts \/ RecoverOrders \/ RecoverJournal

Next == (\E k \in Kinds : Start(k)) \/ Step \/ Kill \/ Worm

Spec == Init /\ [][Next]_vars

-----------------------------------------------------------------------------
Place == {"idle", "dispatch", "guard", "edit", "saveProducts", "saveOrders",
          "audit", "exit", "prepare", "journal", "rename", "recoverProducts",
          "recoverOrders", "recoverJournal"}
Code == {"ok", "failed", "error", "mismatch", "readonly", "cas", "worm", "killed"}

\* Types of all variables; the two csv files are there at any time.
TypeOK ==
    /\ products \in Catalog /\ orders \in Orders
    /\ (pnew = None \/ pnew \in Catalog) /\ (onew = None \/ onew \in Orders)
    /\ journal \in BOOLEAN /\ wlock \in BOOLEAN /\ pushed \in BOOLEAN
    /\ worm \in BOOLEAN /\ named \in BOOLEAN
    /\ kind \in Command \cup {"none"} /\ dry \in BOOLEAN /\ dryenv \in BOOLEAN
    /\ mem \in Dataset /\ before \in Dataset
    /\ pc \in Place /\ exit \in Code /\ audited \in BOOLEAN

\* What the proofs add to TypeOK.
Before == Data(products, orders)
\* Until its first save a command has changed nothing.
BeforeInv ==
    /\ pc \in {"idle", "dispatch", "guard", "edit", "saveProducts", "prepare",
              "journal", "rename", "recoverProducts"} => before = Before
    /\ pc = "saveOrders" =>
        before.orders = orders /\ products = IF dryenv THEN before.products ELSE mem.products
    /\ pc \in {"audit", "exit"} /\ kind \in TwoFiles /\ ~dryenv => mem = Before
    /\ audited => pc = "exit"
\* Each command is where it belongs, and what it is about to rename is its own.
KindInv ==
    /\ pc # "idle" => kind \in Command
    /\ pc \in {"edit", "audit", "exit"} => kind \in Command \ {"txn recover"}
    /\ pc = "saveProducts" => kind \in OneFile \cup TwoFiles
    /\ pc = "saveOrders" => kind \in TwoFiles
    /\ pc \in {"prepare", "journal", "rename"} => kind \in Atomic
    /\ pc \in {"audit", "exit"} => kind \in InMemory \cup TwoFiles
    /\ pc \in {"recoverProducts", "recoverOrders", "recoverJournal"} =>
        kind = "txn recover" /\ journal
    /\ pc = "rename" => pnew = mem.products /\ onew = mem.orders
                        /\ pushed = (kind = "replicate push")
\* What a command holds keeps the references that it found intact.
Grown(p, q) == Listed(p) \subseteq Listed(q)
Covered(o, old, q) == \A x \in o : x \in old \/ x[2] \in Listed(q)
MemInv ==
    /\ pc = "edit" => mem.products \in {products, Nothing}
                      /\ (kind \notin StartsEmpty => mem.products = products)
                      /\ (kind \notin StartsEmpty \cup OneFile => mem.orders = orders)
                      /\ (kind \in StartsEmpty => mem = Data(Nothing, {}))
    /\ pc = "saveProducts" /\ kind \in OneFile \ Breaking => Grown(products, mem.products)
    /\ pc \in {"saveProducts", "saveOrders"} /\ kind \in TwoFiles
        /\ KeepsIds(kind, before.orders) /\ Sound(before.products, before.orders) => Sound(mem.products, mem.orders)
    /\ pc \in {"prepare", "journal", "rename"} =>
        IF kind = "replicate push"
        THEN Sound(mem.products, mem.orders)
        ELSE Grown(products, mem.products) /\ Covered(mem.orders, orders, mem.products)
\* A pending journal keeps them as well; that of a push brings its own.
PendingInv ==
    /\ ~journal => pnew = None /\ onew = None /\ ~pushed
    /\ pnew # None /\ ~pushed => Grown(products, pnew)
    /\ onew # None /\ ~pushed =>
        Covered(onew, orders, IF pnew = None THEN products ELSE pnew)
    /\ pushed => Sound(IF pnew = None THEN products ELSE pnew,
                       IF onew = None THEN orders ELSE onew)
\* Beside it only txn recover runs, which keeps them too.
RecoverInv ==
    /\ journal => pc \in {"idle", "rename"} \/ kind = "txn recover"
    /\ pc \in {"recoverOrders", "recoverJournal"} => pnew = None
    /\ pc = "recoverOrders" =>
        before.orders = orders /\ (pushed \/ Grown(before.products, products))
    /\ pc = "recoverJournal" => onew = None
        /\ (pushed \/ Sound(before.products, before.orders) => Sound(products, orders))
\* Both files are saved, or none is.
DoneInv ==
    pc \in {"audit", "exit"} /\ KeepsIds(kind, before.orders)
        /\ Sound(before.products, before.orders) => Sound(products, orders)
WormInv == worm => pc \in {"idle", "dispatch"} \/ ~named
\* For every value of the constants, and under RecoverFirst and not GapFaults.
CInv == TypeOK /\ WormInv /\ BeforeInv /\ KindInv
RInv == MemInv /\ PendingInv /\ RecoverInv /\ DoneInv

Ending == pc # "idle" /\ pc' = "idle"

\* CHANGELOG.md:290 promises referential safety: whatever a command does, however
\* it ends, and whatever was killed or left pending before it, it leaves no item
\* without its product where there was none.  A patch may, and so may sanitize
\* when an order names an id that it changes: it changes no order.  A push puts
\* another dataset in the place of this one, and the journal that it leaves
\* keeps the old orders beside the new products until txn recover is done.
RefsPreserved ==
    [][Ending /\ kind \notin Breaking /\ KeepsIds(kind, before.orders)
        /\ (IF pushed THEN exit' = "ok" ELSE Sound(before.products, before.orders))
        => Sound(products', orders')]_vars

\* A command that is refused or fails leaves the dataset as it found it: all its
\* checks come before its first save.  (atomic_write_failed is exit 1, "failed".)
FailureChangesNothing ==
    [][Ending /\ exit' \notin {"ok", "killed", "failed"}
        => before = Data(products', orders')]_vars

\* docs/WORM.md:9 allows only commands that read while WORM is active.  That is so
\* of commands that name the dataset by --dir or take the default: none of them
\* changes it or its .new files then, txn recover included.  (A frozen dataset
\* that is named in another way is written to like any other.)
WormFreezes == [][worm /\ named => UNCHANGED <<disk, txn>>]_vars

\* A command that saves records itself only when both files are in place, however
\* its steps are killed; NEONSTORE_DRYRUN=1 makes it record what it did not save.
AuditedIsSaved ==
    audited /\ ~dryenv /\ kind \in TwoFiles => mem = Data(products, orders)

\* CHANGELOG.md:290: remove-product has "referential-safety guarantees".
RemovalKeepsReferences ==
    [][Ending /\ kind = "remove-product" /\ Sound(before.products, before.orders)
        => Sound(products', orders')]_vars
=============================================================================
