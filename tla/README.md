# NeonStore: TLA+ specifications, model checking and proofs

NeonStore keeps an inventory of products and the orders sold from it in two CSV
files of a *dataset directory*, and is driven by a command-line program that
many processes may run on the same directory at once. These modules model the
parts of it that can go wrong between two steps: threads that share one
inventory, processes that share one directory or one database, processes that
are killed, and commands that are run again; and the texts and sums that the
commands pass from one to another.

## 1. The system

Paths are relative to the repository: `src/src/main.cpp` of the project file is
`src/main.cpp` here, and so on.

| Component | State it keeps | Operations | Hard part |
|---|---|---|---|
| **Inventory** (`src/inventory.cpp`) | the map `products_`, the mutex | `add_product`, `restock`, `sell`, `remove_product`, `set_price`, `list_products`, `find` | threads; width of `int`; throws inside the lock; two readers without the lock |
| **CSV storage** (`src/csv_storage.cpp`) | `products.csv`, `orders.csv`, `*.tmp`, `.lock`, `.lockf` | `load_*`, `save_*`, `LockDir`, `OsLock`, `write_atomic` | overlapping processes share the `.tmp` name; kills leave files behind |
| **Atomic dataset write** (`atomic_write_dataset`, `atomic_write_raw`, `txn recover`, `safemode`) | `*.csv.new`, `txn_journal.json`, `.neonstore/writelock`, `.neonstore/readonly.on` | write both files with a journal; recover | a kill or a return between the two renames; recovery killed and run again; stale locks |
| **CAS guard** (`cas_guard` in `src/main.cpp`) | none: compares a fingerprint of the dataset | `--expect-fingerprint` of most mutating commands | compares first, loads and saves later |
| **Ledger** (`quota_allow_write`, `verify_*_sidecar`, `ledger ...`) | `.neonstore/ledger.on`, `ledger.log`, `ledger-<time>.log` | append on every load and save; verify, rotate, prune, enable, disable | read-last-then-append without a lock; prune counts live files |
| **Audit log** (`include/neonstore/audit.hpp`) | `audit.log` | `audit_append`, `audit verify`, `audit prune` | the same chain, in a file that is itself copied out and back |
| **Commands** (`main`, 90 branches on `argv[1]`) | none across processes | WORM, read-only, fingerprint and dry-run guards, then load, edit, save | which guard stands before which write; half of a cascade saved |
| **Copies of a dataset** (`tx`, `snapshot`, `backup`, `restore`, `archive`) | `.tx`, `.snapshots/<time>`, `<file>.<time>`, an archive file | copy out, copy back, prune | copied file by file, with no mark of what is complete; error codes that nobody looks at; names with a resolution of one second |
| **Catalog** (`merge`, `dedupe`, `patch apply`, `batch apply`, `policy`, `redact`, `diff`, `seal`) | `.neonstore/writelock`, `txn_journal.json`, a patch file, `policy.ini` | compute a dataset from one or two others | sums that must come out; writes that report failure, are recovered and tried again |
| **Rows** (`csv_escape`, `csv_parse_line`, `csv validate`, `index`, `mask`, `export`) | the text of `products.csv`, `.neonstore/products.idx` | write, parse, judge, index, copy | commas, quotes and newlines in fields; rows dropped without a word |
| **SQLite storage** (`src/storage_sqlite.cpp`) | database tables | load and save in transactions | commits and failures in the wrong order; connections that stay open |
| **C APIs** (`src/capi.cpp`, `src/c_api.cpp`) | inventory and a cache of strings | create, add, list, destroy | pointers into a cache the next call replaces |
| Trash, retention, reports, configuration | copies of single files | one command each | not modelled, see section 6 |

A command loads products and orders from the directory into an `Inventory`,
edits them and saves them through CSV storage, or through the atomic write
(`csv canonicalize`, `policy enforce`, `replicate push`, `merge`, `dedupe
orders`). Loads and saves append to the ledger. Nothing but the files connects
two processes.

What makes each component correct, in one line each: the inventory behaves as if
every mutating call were one step; a load finds one whole saved text and a save
loses no other edit; the two files of a dataset change together; locks keep
writers apart and do not outlive them; both logs verify unless someone edits
them; a guard that refuses leaves the dataset alone; a copy is whole or is
made again before it is used; what is merged or deduped sells as many units as
before; what is saved is what is loaded; a stored list changes as a whole.

### How the code is read

The sources are read as written, statement by statement. A definition that
occurs twice counts once. The `else if (cmd == ...)` branches that stand after
the end of `main` are read as branches of its one chain. A call of `cleanup()`
where no such name is declared changes nothing, also in line 784 of
`csv_storage.cpp`, three lines before the lambda of that name; `dir` in the
`verify_*_sidecar` functions is the dataset directory. Statements after an
unconditional `return` are dead: this is what makes `atomic_write_dataset` end at
its line 821, and `verify_*_sidecar` and `quota_allow_write` always allow.
Members that `main.cpp` uses and no class declares (`get_product`, `exists`,
`update_product`) are taken to do what their names say: `update_product` replaces the
entry of an id that is listed and refuses what `add_product` refuses.

## 2. Modules

| Module | Models | Map from code to state and actions |
|---|---|---|
| `AtomicInventory` | what callers of `Inventory` rely on | one step `Apply` or `Refuse` per mutating call |
| `Inventory` | `src/inventory.cpp`, built thread-safe | `products` = `products_`, `mutex` = `mtx_`; a mutating call is `CallMutation`, `Acquire` (the `lock_guard`), `Check` (guards and the load of `stock`), one of `AddProduct`, `Restock`, `Sell`, `RemoveProduct`, `SetPrice` (the store), `Release` (the guard's destructor, also on a throw); `list_products` and `find` are `CallLookup` and `ListProducts`, `Find`, `Dereference`, without the mutex |
| `AtomicDataset` | what readers of a dataset rely on | one step `Commit` changes both files |
| `DatasetTxn` | `atomic_write_dataset`, `atomic_write_raw`, `txn recover`, `safemode` | `file` = the four names, `journal`, `writelock`, `readonly` = the marker files; one action per system call; `Kill` between any two; `PlainSave` stands for a completed `save_products` or `save_orders` of another command |
| `AtomicStore` | what callers of `CsvStorage` rely on | `Load` and `Save` in one step each, no edit ever lost |
| `CsvStore` | `CsvStorage::load_products`, `save_products`, `LockDir`, `OsLock`, `write_atomic`, `cas_guard` | files are inodes with names `csv` and `tmp`; `lockdir`, `oslock` = the two locks; one action per system call or block; `Kill` between any two |
| `HashChain` | the format of `ledger.log` and `ledger verify` | operators only, over any function `Hash` |
| `Ledger` | appending to, switching, rotating and pruning the ledger | `on`, `log`, `archive` = `ledger.on`, `ledger.log`, `ledger-<time>.log`; a load or save is `Begin` (hash the dataset), `ReadTail`, `AppendEntry`, `WriteDataset` |
| `Commands` | `main`, one command at a time on one directory: what each of 26 commands checks, loads, computes, saves and records | `products`, `orders`, `pnew`, `onew`, `journal`, `wlock`, `worm` = the files; `mem` = `inv` and `orders` in memory; `named`: the directory that is written is the one the WORM guard looks at; `pushed`: the `.new` files are those of a `replicate push` to this directory; `Start`, `Dispatch` (the WORM guard), `Refuse` (`must_allow_write`, `cas_guard`), `Load`, `Edit` (the body of the branch, by one operator per command), then `SaveProducts`, `SaveOrders` or `TakeWriteLock`, `Prepare`, `Rename`, then `Audit`, `Exit`; `Recover...` is `txn recover`; `Kill` between any two |
| `AtomicWorkspace` | a store of whole datasets: the dataset, one working copy, saved copies | one step per command; `Spoil` for a copy that failed unnoticed |
| `Workspace` | `tx`, `snapshot`, `backup`, `restore`, `archive`, `audit prune`, and `audit.hpp` | `disk[place][file]` = the directories with their csv files and audit log; a command copies the files of `todo` one by one, each by `CopyOpen` (truncates) and `CopyFill`, or by `CopyFails` (before or after `CopyOpen`: `copy_file` sets an `ec` that is not looked at), or `CopySkip`; then `RemoveFile`, `RemoveDir` (`remove_all`), `RemoveFails`, `PruneBackups`, `Audit`; `flawed` = the places where something failed so, and copies of them; `RunCommand` is a save of another command in the dataset or in `.tx`; `Kill` between any two |
| `AtomicTable` | what `CHANGELOG.md:81` promises of SQLite | `Save` and `Load` in one step |
| `Sqlite` | `src/storage_sqlite.cpp` | `table`, `stored` = committed rows, `writer`, `draft` = the open write transaction; one action per statement; a new connection creates its table first, and while a transaction is open it is locked out (`Busy`) unless the table is there; `Ends(p, TRUE)` is a throw, which leaves the connection open, also when a `DELETE`, an `INSERT` or the `COMMIT` fails (`StatementFails`); `Exit` closes it |
| `Rows` | the format of `products.csv` and what reads and writes it | `csv` = the text, a sequence of characters; `TextOf` and `Load` are `save_products` and `load_products`, `Fields` is `csv_parse_line`, one `Taken` per character; `Validate`, `IndexOf`, `IndexCheck`, `Lookup`, `MaskText`, `ExportText` are the commands of these names |
| `Catalog` | the commands that rewrite a dataset, over two directories | `prod`, `ord` = what stands in the two csv files, `new`, `lock` = what a prepared write has left; one action per command, with `AtomicWrite` for those that use `atomic_write_dataset` (it succeeds for the products only, or fails), `Recover` for `txn recover` |
| `MC...` | small instances for TLC | |
| `...Proofs` | theorems, checked by TLAPS | |

`Inventory`, `DatasetTxn`, `CsvStore`, `Workspace` and `Sqlite` are each shown to implement
their abstract module by `INSTANCE`, with a refinement mapping where the variables differ: TLC
checks it on an instance, and the proof modules prove it for all constants.
`HashChain` is shared by the chain of the ledger and that of the audit log.

Data is abstracted to what the properties tell apart. A product is a price and a
stock; a text in `CsvStore` is the set of the edits it contains; a file in
`DatasetTxn` is named by the writer whose text it holds, or `Torn`; a dataset in
`Ledger` is a version number. `orders.csv` is loaded and saved by the same steps as
`products.csv`, so `CsvStore` has one file. A file that was truncated and not
completely written is `Torn`; loading it yields any set of rows, since rows that do not
parse are skipped without a word. Writes through a descriptor follow the file when it is
renamed. In `Commands` a product is an id and a price, an order is the set of ids its items
name, and a save is one step, since the other modules take it apart. The file of a batch, an
import or a patch may have any length, so its operator gives every catalog such a file can
lead to. Names, stock and quantities are left out: no property of `Commands` tells them apart.
Commands that are called with missing arguments or files return before they load anything and are
left out too. In `Workspace` the text of a csv file is the set of edits it includes, a place
holds the two csv files and the audit log (the sidecar files that are copied with them are not
there), and an entry of the log has no content but its chain. In `Rows` a number is one
character, since no conversion looks into it, and `Printed` says which number an ostream writes
for it: what a save loses of a price. `Catalog` has `Printed` too, and `Fixed` for the six
decimals of `to_string` in a patch; its products have no names. `fsync` is never reached in the code, and a power failure is not modelled:
`Kill` ends a process, and the kernel keeps what was written.

## 3. Runs

| Run | Shows | Bounds |
|---|---|---|
| `Inventory` | `TypeOK`, `StockConserved`, `ImplementsAtomic`, `CallsReturn` hold | 2 threads, 2 calls each, one id and the empty id, quantities -1, 0, 1, 3 with a largest int of 3 |
| `DatasetTxn_guarded` | `TypeOK`, `NeverTorn`, `OneWriterInside` hold | 3 overlapping guarded writers, 2 recoverers, 2 plain saves |
| `DatasetTxn_atomic` | `AllOrNothing`, `HalfWriteIsCompleted` hold | 1 guarded and 2 raw writers, 1 recoverer, writes not overlapping |
| `CsvStore_serial` | `TypeOK`, `NeverMissing`, `ImplementsStore`, `CommandsSucceed` hold | 3 updaters (one with a fingerprint, one with DRYRUN), 1 reader, 4 inodes |
| `Commands` | `TypeOK`, `AuditedIsSaved`, `RefsPreserved`, `FailureChangesNothing`, `WormFreezes` hold | every command, any number of them; 2 ids that differ in capitals only and a third that sanitize trims to one of them, 1 order, 2 prices |
| `Commands_remove` | `RemovalKeepsReferences` fails | `remove-product` alone |
| `Ledger_serial` | `TypeOK`, `LedgerIntact`, `ReplacedIsRecorded`, `PruneSparesLive` hold | 2 processes, 3 seconds, 3 versions, 2 entries per log, `--keep` 0 to 3 |
| `Workspace` | `TypeOK`, `NothingTorn`, `AuditIntact`, `PruneOldest`, `WholeDatasets`, `AuditGrows`, `CommitRecordedLast` hold | one edit, 2 seconds, 2 log entries, 3 places at once (2 while one of them is flawed), `--keep` 0, 1, 3 |
| `Sqlite` | `TypeOK`, `WholeLists`, `LockReleased` hold | the program and another process of the library; 2 ids, 1 value, 1 order |
| `Rows` | `RoundTrip`, `ValidateFindsSkipped`, `IndexFinds`, `CopiesKeepPlainIds` hold | every id and name of up to 3 of the characters `a`, comma, quote and return; all pairs of products with fields of up to 2; 33 texts of other programs |
| `Rows_newline` | `RoundTripAlways` fails | the same |
| `Catalog` | `NothingLost`, `EnforceThenCheck`, `PatchMakesRight`, `BatchRetryHarmless` hold | 2 directories, 3 datasets, 3 policies, 2 batches, 4 commands |

Why the bounds are enough. Two threads with two calls each reach every pair of
calls on an entry that a third call made, and a quantity equal to the largest
`int` makes every overflow happen. Three writers allow one to be killed while a
second holds the lock and a third is refused; two recoverers allow a recovery to overtake
another. Three updaters leave one to die, one to be built on its leftovers and one to
follow; four inodes are as many as can be open or named at once. Two entries per log have
a first, a last and a boundary to verify, and three seconds hold more rotated files than
two can be kept. In `Commands` the ids leave a product to remove and one to keep, pairs that collide when trimmed and
when put in capitals, and items of each; what a command does to an order does not depend on
another order. The two prices are interchangeable (`MCSymmetry`). An id that sanitize makes empty is in no instance, and in
the theorems; commands follow each other without a bound. In `Workspace` two seconds give two snapshots, two backups, and copies made
in the same second; three places at once are the dataset, one copy and the working copy or
another copy; two, when something has failed, are the dataset and what is copied into it or from
it, so that the failure is passed on and mended; one edit tells an old text from a new one, and with two log entries one is
chained to another. In `Sqlite` one process may hold the lock while another is locked out, and
two ids leave a list that is half deleted or half inserted. Three characters are the shortest field in which a
quoted quote has a neighbour on each side, and two products have an offset that depends on
the row before. Four commands are a write that fails, its recovery, another try and its
recovery, or a patch made, applied and retried; the datasets have an order and a product that
only one side has, a product twice in an order, with one price and with two, an item whose
product is gone, and prices that do not survive a patch (1) or a save (7). Every bound is a named constant: `MaxCalls`, `MaxSaves`, `MaxTime`,
`MaxVersion`, `MaxLog`, `MaxPlaces`, `MaxFlawed`, `MaxCommands`, and the sets of processes.

Deadlock is not checked: a system whose bounded commands have all ended stops.

### What the failing runs mean

Each of these runs states what a document or a test of the repository says, and TLC
shows a behaviour of the code that does otherwise; `PROJECT.json` quotes the lines.

* `Commands_remove`: between its two saves `remove-product` may fail (a full disk) or be
  killed, and the items of the product it removed stay; a second attempt ends with "product
  not found", so the command cannot be used to repair them.
* `Rows_newline`: a field with a newline is quoted when it is saved, and the file is read
  line by line.

Properties the code does not have, stated in the modules and in no run (each is violated
within a few steps, at the place named here):

* `Inventory!ReadsAreDefined`: "Inventory now guarded by a mutex" (`CHANGELOG.md:139`), but
  `list_products` and `find` take none.
* `DatasetTxn!WriteRemovesJournal`: `if (ec) cleanup(); return false;` returns in any case, so
  a successful write reports failure and leaves the journal, `orders.csv.new` and the write lock
  behind. The next write is refused; `txn recover` completes the first.
* `CsvStore!LockHolderAlone`: `create_directory` does not report a directory that exists.
* `CsvStore!CasWritersAgree`: the comparison is not repeated when the result is saved.
* `Ledger!LedgerIntact` when commands overlap: two of them append with the same `prev`, and
  `verify` reports tampering. `audit_append` is no different.
* `Workspace!BackupsRestore`: `backup` writes `products.csv.<time>`, `restore --from` copies
  `products.csv`, so it finds nothing in a backup directory (`docs/DATA_INTEGRITY.md:4`) and
  still records a restore.
* `Sqlite!OrdersStored`: `save_orders` begins a transaction and closes the connection, which
  rolls it back (`README.md:35`).

Smaller things follow from definitions of the modules without a run of their own:

* a restock beyond the largest `int` makes a stock negative (`Wrap` in `Inventory`);
* a write lock left behind refuses writers although nobody writes (`RenameProductsGuarded`);
* safe mode stops atomic writes only (`PlainSave`), though `docs/SAFE_MODE.md:3` says "any write";
* an atomic write appends nothing to the ledger (`AtomicWrite`);
* `save` and `repair-integrity` save the empty inventory of their process (`StartsEmpty`; the
  comment in `src/main.cpp:869` says "no data change"), and `sell` and `restock` never find a product;
* `--read-only` is not looked at by `save`, `migrate`, `sanitize`, `repair-integrity`,
  `csv canonicalize`, `policy enforce`, `merge`, `normalize`, `dedupe` and `fuzz` (`Guarded`;
  `CHANGELOG.md:118` says it "rejects mutations"), and `--dry-run` only by `HonorsDryRun`;
* with `NEONSTORE_DRYRUN=1` a command records a save that it did not make (`Audit`);
* the WORM guard looks at `--dir` or the default directory, before `NEONSTORE_DIR`, `--config` and
  the configuration are read: a frozen dataset that they name, or `migrate --to-dir` or
  `replicate push --to`, is written to, and `docs/WORM.md:9` ("only read-only commands are
  allowed") does not hold for it (`Dispatch`; `WormFreezes` says what remains true);
* `sanitize` trims ids and takes control characters out of them, and with `--upper-ids` puts them
  in capitals, but in the products only: an order that names such an id loses its product
  (`Renamed`, and `KeepsIds` in `RefsPreserved`);
* `replicate push` reports failure like every atomic write, and leaves the products of its source
  beside the orders of `--to` until `txn recover` is run there (`Push`);
* an error of `copy_file` or `remove_all` is discarded: `tx commit` then installs half of the
  working copy or none of it, removes it and records itself, and a restore, a snapshot or a
  backup is incomplete without a word (`CopyFails`, `RemoveFails`), though `CHANGELOG.md:162` says
  "atomic batch edits" and `WHITEPAPER.md:21` "restore is atomic";
* two rotations, or two snapshots, of the same second: the second replaces the first;
* `backup --keep` counts files of all names together, so it removes the orders of a backup
  before its products (`Rank` in `Workspace`; `PruneOldest` says what remains true);
* `archive extract` puts back the audit log of the archive, and `audit prune --keep 0` removes
  the live one (`AuditGrows` names both; `docs/WHITEPAPER.md:9` says "append-only");
* every `save_products` of the SQLite backend throws after it has succeeded, for it commits
  twice (`CommitAgain`), and leaves its connection open; so does a load (`ReadProducts`);
* `max_order_item_qty=5` bounds nothing and `=120` means 20: the value is read from one
  character too far (`MaxQty` in `Catalog`; `docs/POLICY_ENFORCE.md:5`);
* merge keeps the last of several lines of one product in an order of the left dataset
  (`MergedItems`; `docs/MERGE_DATASETS.md:8` says they sum);
* an `op_id` is never recorded (`BatchApply`): what `CHANGELOG.md:319` calls idempotency is
  that the operations are assignments (`BatchRetryHarmless`);
* a patch shows six decimals of a price and a saved file six digits (`Fixed`, `Printed`);
* `export --format csv` and `mask` do not escape ids (`CopiesKeepPlainIds` says what survives;
  `docs/IMPORT_EXPORT.md:9` says "RFC 4180 CSV");
* no command that writes looks at `LOCKED` or `NEONSTORE_LOCK` (`docs/LOCKS.md:3`).

### Assumptions on the environment

* `QuietRecovers`: `txn recover` is not run beside a write. Without it
  `NeverTorn` fails: the recovery takes `products.csv.new` from the writer, the
  writer's rename fails and removes the write lock, and a second writer truncates
  `orders.csv.new` while a journal is pending.
* `QuietWrites` in `DatasetTxn_atomic` and `OneAtATime` in `CsvStore_serial` and
  `Ledger_serial`: writes do not overlap. What overlap does is told above.
* A write is whole unless its process is killed: `atomic_write_dataset` looks at no stream
  before it writes the journal and renames (`csv_storage.cpp:796-812`), so on a full disk it would
  install a file that was cut short. In `Workspace` and `Commands` an `audit_append` succeeds, and so does every
  `create_directories`.
* No plain save falls between an atomic write and its recovery in `DatasetTxn_atomic`
  (`MaxSaves = 0`): the recovery would put the older `orders.csv.new` over it.

* Commands run one at a time in `Commands`; `CsvStore`, `DatasetTxn` and `Ledger` have the
  overlaps. `worm enable` and `worm disable` are commands, too, and run between others.
* `RecoverFirst`: after a write that left a journal, `txn recover` is the next command.
  Without it `RefsPreserved` fails: a plain save changes the products, and a later recovery puts the
  older `orders.csv.new` beside them. `GapFaults = FALSE`: nothing fails between the two saves of a
  command; `Commands_remove` shows what happens otherwise. A `patch` may take away a product that is ordered
  (`Breaking`), and is left out of the promise.
* `Careful` in `Workspace`: a command that was killed while it put a copy into the dataset or the
  working copy is run again, and a `tx begin` or `tx abort` that was killed is followed by `tx abort`, before anything else is
  done. Nothing in the code tells a whole `.tx` from half of one; without the assumption
  `WholeDatasets` and `NothingTorn` fail. About copies and removals that fail nothing is assumed: nobody is
  told of them, so no operator could be careful. `flawed` keeps account of what they have spoiled, and
  `AtomicWorkspace` has the dataset spoiled until a whole copy is installed.
* A snapshot, backup or archive whose making was killed stays as it is and is not restored:
  nothing marks it, either.
* `Catalog` and `Workspace`: commands run one at a time. Another program may put any of a set of
  texts in place of `products.csv` in `Rows`.
* SQLite does what it documents: one writer at a time, rollback on close, statements outside a
  transaction commit by themselves.
* No line of an order in `Catalog` has an empty product id, which no command writes: the maps of
  merge and dedupe take such a slot for an unused one and would replace it. Prices and units are
  integers without a width, so sums are exact; the code adds `double`s, whose last bit may depend
  on the order.
* The other directories of `migrate` and `merge` are taken to have intact references.

### Fairness

Only where a run has a liveness property, and only for steps the program takes
by itself. `Inventory`: weak fairness of each thread inside a call; `std::mutex` promises
no order, and none is needed since each thread makes finitely many calls. `CsvStore`: weak
fairness of the steps of a command; nothing makes a command start, and it may be
killed at any point. `DatasetTxn`: weak fairness of a running writer; `txn recover`
is run by an operator, so `HalfWriteIsCompleted` assumes one who runs it again while a
journal is there and does not kill every attempt at the same step for ever (strong fairness of its steps). `Sqlite`: weak fairness of the statements of a call, and of the end
of a process of the program whose call has thrown, for `main` ends when an exception reaches it;
another user of the library may keep its connection for ever.

## 4. Theorems

All are about the specifications above, for every value of the constants that
satisfies the named assumptions of each module.

| Theorem | Says | Argument |
|---|---|---|
| `InventoryProofs!TypeCorrect`, `StockIsConserved` | `Spec => []TypeOK`, `[]StockConserved` | the invariant `IInv`: a thread in its locked region holds the mutex (`MutexInv`), and what it has checked and loaded is still so (`CheckedInv`) |
| `InventoryProofs!Atomicity` | `Spec => ImplementsAtomic` | from `IInv`: each step maps to a step of `AtomicInventory` (the store to `Apply`, a failed check to `Refuse`) or to a stutter |
| `DatasetTxnProofs!TypeCorrect`, `LockExcludes` | types; one writer inside, whatever recoveries do | the lock exists while a guarded writer is inside, and only its holder removes it |
| `DatasetTxnProofs!FilesStayWhole` | `[]NeverTorn` under `Disciplined` | whose descriptor points where, and that `.new` files are whole when a journal is there |
| `DatasetTxnProofs!WritesAreAtomic` | `AllOrNothing` under `Disciplined`, without plain saves | the write takes effect when the journal appears; renames and recoveries leave `Visible` alone |
| `CsvStoreProofs!TypeCorrect`, `FileStays` | types; `NeverMissing`, also when saves overlap | a rename only ever installs a file |
| `CsvStoreProofs!SerialStore` | `ImplementsStore` when updates run one at a time | the invariant `CInv`: at most one updater runs, and its text is the stored one with its edit |
| `CommandsProofs!TypeCorrect`, `AuditedIsSavedHolds`, `WormFreezesHolds` | for every set of commands, with `GapFaults` and without `RecoverFirst` as well | the invariant `CInv`: until its first save a command has changed nothing, after its last the files hold what it has in memory, and under WORM no command is past the guard of a dataset it names |
| `CommandsProofs!FailureChangesNothingHolds` | `FailureChangesNothing` without `GapFaults` | from `CInv`: every early end comes before the first save |
| `CommandsProofs!RefsPreservedHolds` | `RefsPreserved` with `RecoverFirst`, without `GapFaults` | lemmas `OneFileGrows`, `TwoFilesSound`, `AtomicKeeps` say what each family of commands does to ids and items; the invariant `RInv` says it of memory, of a pending journal, its own or that of a push, and of a recovery half done; `SanitizeSound` that an order whose ids sanitize keeps finds its products |
| `FilesProofs!TypeCorrect` | types, also when commands overlap | |
| `FilesProofs!LedgerVerifies` | `[]LedgerIntact` when commands run one at a time, for any `Hash` | lemma `AppendVerifies` and the invariant `Chained`: the hash a process will chain to is still the last |
| `FilesProofs!OverwrittenIsRecorded` | `ReplacedIsRecorded` when commands run one at a time | the invariant `Covered` |
| `FilesProofs!PruneSparesLiveHolds` | `PruneSparesLive`, also when commands overlap | lemma `LiveSortsLast`: at most one name sorts after those of the live log and the switch |
| `FilesProofs!RoundTripHolds` | `[]RoundTrip`, for lists of any length with fields of any length | `Fields` takes an escaped field back, character by character (`QuotedRun`, `PlainRun`), so a row is read as its four fields (`RowRead`); a text of rows has the lines and offsets one expects (`LinesAre`); then by induction over the rows (`LoadedIs`) |
| `FilesProofs!ValidateFindsSkippedHolds` | `[]ValidateFindsSkipped`, for every text, whoever wrote it | a load that does not throw adds one product for each line that is valid and none for the others (`LoadedFacts`) |
| `FilesProofs!IndexFindsHolds` | `[]IndexFinds` | the offsets of the rows (`LinesAre`), and that up to its first comma a row has its id, if that is plain (`UpToCommaIs`) |
| `FilesProofs!CopiesKeepPlainIdsHolds` | `[]CopiesKeepPlainIds` | an id that is not escaped and has commas makes a row of more than four columns (`RowLong`), which the load skips (`CopyLoads`) |
| `WorkspaceProofs!TypeCorrect`, `ChainsVerify`, `OldestGoFirst`, `CommitIsDone` | `[]TypeOK`, `[]AuditIntact`, `[]PruneOldest`, `CommitRecordedLast`, for any `Hash`, whatever is killed and whoever goes on | the invariant `IInv`, below |
| `WorkspaceProofs!LogGrows` | `AuditGrows`, if `Distinct`: no log is one of the values `Missing`, `Torn` | from `IInv`: only `archive extract` copies into the log of the dataset |
| `WorkspaceProofs!CarefulNothingTorn` | `[]NothingTorn` under `Careful` | the invariant `WInv`, below |
| `WorkspaceProofs!CarefulIsAtomic` | `WholeDatasets` under `Careful` | from `IInv` and `WInv`, one lemma per command: a commit or a restore takes effect when it starts, a copy when its last file is copied, a removal when it starts; the first copy into the dataset that fails is `Spoil` |
| `SqliteProofs!TypeCorrect`, `ListsStayWhole` | `[]TypeOK`, `WholeLists`, for any processes | the invariant `IInv`: a draft is the old list, a part of it being deleted, or a part of the new one, as far as its writer has come (`Progress`); only `Commit` stores it |
| `SqliteProofs!OrdersAreLost` | no order is ever stored | `NoOrderStored` is part of `IInv` |
| `CatalogProofs!PatchMakesRightHolds` | `PatchMakesRight`, if `PrintsAgain`: printing what was printed changes nothing | the invariant `IInv`: every products file was saved (`Printouts`), and a patch that was applied last holds (`Patches`) |
| `CatalogProofs!EnforceThenCheckHolds` | `[]EnforceThenCheck`, if `PrintsAgain` and `NoneApart`: `None` is no file and no journal | the invariant `Enforced`: the clamped rows are in place, or in the files recovery will install |
| `CatalogProofs!BatchRetryHarmlessHolds` | `BatchRetryHarmless` for a batch of any length, if `PrintsAgain` | lemma `SameAgain`, by induction over the lines; the invariant `Batched`: a batch applied last stands for what it has made |
| `CatalogProofs!NothingLostHolds` | `[]NothingLost` for orders of any number of lines, if `PrintsAgain` and `NoneApart` | sums and joined slots by induction over the lines (`SumGrows`, `JoinedFacts`, `DedupedFacts`, `MergedItemsFacts`, `RedactedHolds`); the invariant `Kept`: what a command promises is in place, or is what recovery will install |

Why an invariant has to be strengthened each time: the property speaks of the
files or the map, while what keeps it is what a process has read and not yet used.
The strengthenings were checked by TLC before they were proved.

In `Workspace` the invariant has two parts. `IInv` needs no careful operator:
`Shape` and `Logs` are types; `Jobs` says which job may stand at which point of the program and that a
killed one has left its target marked as incomplete; `Same` says that a file which was copied, or
skipped, is like its source where the target is not flawed; `Present` says that the dataset always has both csv files and a complete
backup its products, from which `PruneOldest` follows (a complete copy is one that is neither under
way nor flawed: `Complete`). `WInv` is for a careful operator: `Under` says
that the dataset and the working copy are incomplete only while a job that writes them is under way or was
killed; `Unbroken` that no file is torn or missing where no copy is under way and none has failed, and that what is being
installed where none has failed comes from whole files; `Remains` that after a commit what is left of the working copy is
like the dataset, unless that is flawed. `Careful` cannot be dropped: without it TLC shows half a working copy committed.

In `Rows` the state is simple and the operators are not. The invariant `RowsInv` says that `inv` is a
list an inventory can hold and that a saved text is `TextOf(inv)`; that loading a foreign text
yields such a list, so that `Resave` keeps it, is lemma `LoadIsList`. The work is in the
lemmas about the parser, the lines and the offsets, by induction (`SetInduction`) over
characters and rows. `RowsAssumption` says of the constants: lists to save are of the kind `add_product` lets into an
inventory (ids not empty and not twice, price and stock not negative); no number contains a comma,
a quote or the end of a line; printing a number makes a number that prints as itself and is not negative if it was
not; the word `mask` writes needs no quotes. TLC checks it on the instance.
`FilesProofs` holds the theorems about both text files of a dataset, `Rows` and `Ledger`; the initial
and next-state predicates of `Rows` have names of their own (`RowsInit`, `RowsNext`, `RowsSpec`) so that
one module can extend both.

`Printed`, `Fixed`, `Hash` and `Hashed` stay arbitrary functions in all theorems. `PrintsAgain`
is what an ostream with six digits does; `Distinct` and `NoneApart` tell values apart that
TLC's model values tell apart, and say nothing of the program.

Only model-checked, and why:

* `CallsReturn`, `HalfWriteIsCompleted`, `CommandsSucceed`, `LockReleased`: liveness under fairness
  is beyond the prover;
* the failing runs.

Bounded constants such as `MaxLog` stay in the theorems as parameters: they hold for every bound.

## 5. Plan

Done: every module of section 2 with a state, each with its proofs; each invariant and each action property of
a passing run is a theorem, and so are the refinements.

Next:

1. The theorems that assume that commands do not overlap, for the overlaps that do no harm.
2. Under the liveness properties lie safety facts that need no fairness, such as that only a
   connection whose call is under way or has thrown locks others out (`LockReleased`): state them as
   invariants and prove them.

## 6. Not modelled

* Policies, hooks and quota of a save: the quota check is dead, `chaos_inject` never injects,
  the limits that are read decide nothing, a hook is another program.
* Checksums and their sidecar files, whose verification always succeeds; hashes are functions
  the modules take as constants.
* `orders.csv` in `Rows`: its four columns are written and parsed by the same two functions.
* The C APIs: sequential wrappers. That a list call replaces the strings of the call before is
  a contract on the caller.
* Trash and retention: each moves or copies single files that no other command
  reads. `trash undelete` puts a product back in memory only and drops its row
  (`src/main.cpp:1043`), which one call shows.
* What `doctor checkup` says of prices, stock, the seal and the ledger: `Checkup` in `Catalog` has its
  checks of items and quantities, which a property uses.
* The HMAC of audit entries, `audit rotate` (its branch is never reached), names and JSON lines.
* Reading commands, reports, metrics, configuration and logging, which change no state a
  property speaks of; the Windows variants; the build without `NEONSTORE_THREADSAFE`; the
  bindings and packaging.
* `fsync` and power failures: see section 2.
