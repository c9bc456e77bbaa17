----------------------------- MODULE DatasetTxn -----------------------------
(* The journaled write of products.csv and orders.csv in one directory.     *)
(*   Guarded writers run atomic_write_dataset (src/src/csv_storage.cpp),    *)
(*   which csv canonicalize, policy enforce, replicate push, merge and      *)
(*   dedupe orders call; the others run atomic_write_raw (src/src/main.cpp).*)
(*   Recoverers run `txn recover`; plain saves are completed calls of       *)
(*   save_products / save_orders by other commands; `safemode` toggles      *)
(*   .neonstore/readonly.on.  Any process may be killed between two steps.  *)
(*                                                                          *)
(* The content of a file is the writer whose text it holds; a file that was *)
(* truncated and not yet fully written is Torn.  A process writes through   *)
(* the descriptor it opened: fd[w] follows the file when it is renamed.     *)
EXTENDS Integers

CONSTANTS
    Writer,    \* processes that write a dataset, one write each
    Guarded,   \* those that run atomic_write_dataset
    Recoverer, \* processes that run txn recover, any number of times
    Initial,   \* the content on disk at the start
    Saved,     \* the content a plain save installs
    None,      \* there is no such file
    Torn,      \* truncated or half-written
    MaxSaves,  \* bound: plain saves
    QuietWrites,  \* TRUE: a write starts only when nothing else is running
                  \* and `txn status` says none; FALSE: whenever it likes
    QuietRecovers \* TRUE: a recovery starts only when no write is running

ASSUME TxnAssumption ==
    /\ Guarded \subseteq Writer
    /\ MaxSaves \in Nat
    /\ QuietWrites \in BOOLEAN /\ QuietRecovers \in BOOLEAN
    /\ {Initial, Saved} \cap (Writer \cup {None, Torn}) = {}
    /\ {None, Torn} \cap Writer = {}
    /\ None # Torn /\ Initial # Saved

Name == {"products", "orders", "pnew", "onew"}
Text == Writer \cup {Initial, Saved}

VARIABLES
    file,      \* content of products.csv, orders.csv and the two .new files
    journal,   \* txn_journal.json exists
    writelock, \* .neonstore/writelock exists
    readonly,  \* .neonstore/readonly.on exists
    pc,        \* where each writer is, or how it ended
    fd,        \* the name under which a writer's open file is now reachable
    rpc,       \* where each recoverer is
    saves      \* number of plain saves so far

vars == <<file, journal, writelock, readonly, pc, fd, rpc, saves>>

\* true/false: the value returned; busy: writelock existed; refused: read-only.
Ended == {"true", "false", "busy", "refused", "killed"}
Inside == {"openP", "writeP", "openO", "writeO", "prepare", "renameP",
           "renameO", "finish"}
Running(w) == pc[w] \notin Ended \cup {"idle"}
Recovering(r) == rpc[r] # "idle"
NoneRunning == \A w \in Writer : ~Running(w)
Calm == NoneRunning /\ ~journal /\ \A r \in Recoverer : ~Recovering(r)

Init ==
    /\ file = [n \in Name |-> IF n \in {"products", "orders"} THEN Initial ELSE None]
    /\ journal = FALSE
    /\ writelock = FALSE
    /\ readonly \in BOOLEAN
    /\ pc = [w \in Writer |-> "idle"]
    /\ fd = [w \in Writer |-> "none"]
    /\ rpc = [r \in Recoverer |-> "idle"]
    /\ saves = 0

Goto(w, where) == pc' = [pc EXCEPT ![w] = where]

\* A command has loaded the dataset and calls its write function.
Start(w) ==
    /\ pc[w] = "idle"
    /\ QuietWrites => Calm
    /\ Goto(w, IF w \in Guarded THEN "guard" ELSE "openP")
    /\ UNCHANGED <<file, journal, writelock, readonly, fd, rpc, saves>>

CheckReadOnly(w) ==
    /\ pc[w] = "guard"
    /\ Goto(w, IF readonly THEN "refused" ELSE "lock")
    /\ UNCHANGED <<file, journal, writelock, readonly, fd, rpc, saves>>

\* Mutant of TakeLock: a directory that is already there is no obstacle.
TakeLockAnyway(w) ==
    /\ pc[w] = "lock"
    /\ Goto(w, "openP")
    /\ writelock' = TRUE
    /\ UNCHANGED <<file, journal, readonly, fd, rpc, saves>>

\* create_directories reports whether it created the directory.
TakeLock(w) ==
    /\ pc[w] = "lock"
    /\ Goto(w, IF writelock THEN "busy" ELSE "openP")
    /\ writelock' = TRUE
    /\ UNCHANGED <<file, journal, readonly, fd, rpc, saves>>

Open(w, name, here, next) ==
    /\ pc[w] = here
    /\ file' = [file EXCEPT ![name] = Torn]
    /\ fd' = [fd EXCEPT ![w] = name]
    /\ Goto(w, next)
    /\ UNCHANGED <<journal, writelock, readonly, rpc, saves>>

\* The text reaches the file behind the descriptor, whatever its name is now.
\* Over another writer's text of another length the result may be a mixture.
Flush(w, here, next) ==
    /\ pc[w] = here
    /\ IF fd[w] = "unlinked"
       THEN UNCHANGED file
       ELSE \E c \in IF file[fd[w]] = Torn THEN {w} ELSE {w, Torn} :
                file' = [file EXCEPT ![fd[w]] = c]
    /\ fd' = [fd EXCEPT ![w] = "none"]
    /\ Goto(w, next)
    /\ UNCHANGED <<journal, writelock, readonly, rpc, saves>>

\* Mutant of OpenOrders: no step follows it.
OpenOrdersOnly(w) == Open(w, "onew", "openO", "flushO")

OpenProducts(w)  == Open(w, "pnew", "openP", "writeP")
FlushProducts(w) == Flush(w, "writeP", "openO")
OpenOrders(w)    == Open(w, "onew", "openO", "writeO")
FlushOrders(w)   == Flush(w, "writeO", "prepare")

WriteJournal(w) ==
    /\ pc[w] = "prepare"
    /\ journal' = TRUE
    /\ Goto(w, "renameP")
    /\ UNCHANGED <<file, writelock, readonly, fd, rpc, saves>>

\* rename(2): the source replaces the target; descriptors follow their file.
Replace(src, dst) ==
    /\ file' = [file EXCEPT ![dst] = file[src], ![src] = None]
    /\ fd' = [w \in Writer |-> CASE fd[w] = src -> dst
                                 [] fd[w] = dst -> "unlinked"
                                 [] OTHER -> fd[w]]

\* With nothing to rename the call sets ec and changes nothing.
RenameIfThere(src, dst) ==
    IF file[src] = None THEN UNCHANGED <<file, fd>> ELSE Replace(src, dst)

\* Mutant of RenameProductsGuarded: the lock is removed on both ways out.
RenameAndUnlock(w) ==
    /\ pc[w] = "renameP" /\ w \in Guarded
    /\ RenameIfThere("pnew", "products")
    /\ writelock' = FALSE
    /\ Goto(w, "false")
    /\ UNCHANGED <<journal, readonly, rpc, saves>>

\* atomic_write_dataset: `if (ec) cleanup(); return false;` returns either way
\* and removes the lock only when the rename failed.
RenameProductsGuarded(w) ==
    /\ pc[w] = "renameP" /\ w \in Guarded
    /\ RenameIfThere("pnew", "products")
    /\ writelock' = IF file["pnew"] = None THEN FALSE ELSE writelock
    /\ Goto(w, "false")
    /\ UNCHANGED <<journal, readonly, rpc, saves>>

\* Mutant of RenameProductsRaw: the journal goes before orders.csv is in place.
RenameDropJournal(w) ==
    /\ pc[w] = "renameP" /\ w \notin Guarded
    /\ RenameIfThere("pnew", "products")
    /\ journal' = FALSE
    /\ Goto(w, IF file["pnew"] = None THEN "false" ELSE "renameO")
    /\ UNCHANGED <<writelock, readonly, rpc, saves>>

RenameProductsRaw(w) ==
    /\ pc[w] = "renameP" /\ w \notin Guarded
    /\ RenameIfThere("pnew", "products")
    /\ Goto(w, IF file["pnew"] = None THEN "false" ELSE "renameO")
    /\ UNCHANGED <<journal, writelock, readonly, rpc, saves>>

RenameOrders(w) ==
    /\ pc[w] = "renameO"
    /\ RenameIfThere("onew", "orders")
    /\ Goto(w, IF file["onew"] = None THEN "false" ELSE "finish")
    /\ UNCHANGED <<journal, writelock, readonly, rpc, saves>>

RemoveJournal(w) ==
    /\ pc[w] = "finish"
    /\ journal' = FALSE
    /\ Goto(w, "true")
    /\ UNCHANGED <<file, writelock, readonly, fd, rpc, saves>>

\* The process is killed: what it wrote stays, its descriptors close.
Kill(w) ==
    /\ Running(w)
    /\ Goto(w, "killed")
    /\ fd' = [fd EXCEPT ![w] = "none"]
    /\ UNCHANGED <<file, journal, writelock, readonly, rpc, saves>>

\* txn recover, one file operation at a time.
StartRecover(r) ==
    /\ rpc[r] = "idle"
    /\ journal
    /\ QuietRecovers => NoneRunning
    /\ rpc' = [rpc EXCEPT ![r] = "products"]
    /\ UNCHANGED <<file, journal, writelock, readonly, pc, fd, saves>>

RecoverProducts(r) ==
    /\ rpc[r] = "products"
    /\ RenameIfThere("pnew", "products")
    /\ rpc' = [rpc EXCEPT ![r] = "orders"]
    /\ UNCHANGED <<journal, writelock, readonly, pc, saves>>

\* Mutant of RecoverOrders: orders.csv.new stays where it is.
RecoverSkipOrders(r) ==
    /\ rpc[r] = "orders"
    /\ rpc' = [rpc EXCEPT ![r] = "journal"]
    /\ UNCHANGED <<file, journal, writelock, readonly, pc, fd, saves>>

RecoverOrders(r) ==
    /\ rpc[r] = "orders"
    /\ RenameIfThere("onew", "orders")
    /\ rpc' = [rpc EXCEPT ![r] = "journal"]
    /\ UNCHANGED <<journal, writelock, readonly, pc, saves>>

RecoverJournal(r) ==
    /\ rpc[r] = "journal"
    /\ journal' = FALSE
    /\ rpc' = [rpc EXCEPT ![r] = "idle"]
    /\ UNCHANGED <<file, writelock, readonly, pc, fd, saves>>

KillRecover(r) ==
    /\ Recovering(r)
    /\ rpc' = [rpc EXCEPT ![r] = "idle"]
    /\ UNCHANGED <<file, journal, writelock, readonly, pc, fd, saves>>

\* save_products / save_orders: neither looks at readonly.on, the writelock
\* or the journal.  (Module CsvStore has their steps.)
PlainSave(name) ==
    /\ saves < MaxSaves
    /\ saves' = saves + 1
    /\ file' = [file EXCEPT ![name] = Saved]
    /\ fd' = [w \in Writer |-> IF fd[w] = name THEN "unlinked" ELSE fd[w]]
    /\ UNCHANGED <<journal, writelock, readonly, pc, rpc>>

SafeMode ==
    /\ readonly' = ~readonly
    /\ UNCHANGED <<file, journal, writelock, pc, fd, rpc, saves>>

WriterStep(w) ==
    \/ CheckReadOnly(w) \/ TakeLock(w)
    \/ OpenProducts(w) \/ FlushProducts(w) \/ OpenOrders(w) \/ FlushOrders(w)
    \/ WriteJournal(w)
    \/ RenameProductsGuarded(w) \/ RenameProductsRaw(w) \/ RenameOrders(w)
    \/ RemoveJournal(w)

RecoverStep(r) ==
    StartRecover(r) \/ RecoverProducts(r) \/ RecoverOrders(r) \/ RecoverJournal(r)

Next ==
    \/ \E w \in Writer : Start(w) \/ WriterStep(w) \/ Kill(w)
    \/ \E r \in Recoverer : RecoverStep(r) \/ KillRecover(r)
    \/ \E name \in {"products", "orders"} : PlainSave(name)
    \/ SafeMode

Spec == Init /\ [][Next]_vars

\* A process that is not killed keeps running.  The operator reruns txn
\* recover while a journal is there, and does not kill every rerun at the
\* same step for ever: this is an assumption about the operator.
FairSpec ==
    /\ Spec
    /\ \A w \in Writer : WF_vars(WriterStep(w))
    /\ \A r \in Recoverer :
        /\ WF_vars(StartRecover(r))
        /\ SF_vars(RecoverProducts(r))
        /\ SF_vars(RecoverOrders(r))
        /\ SF_vars(RecoverJournal(r))

-----------------------------------------------------------------------------
\* The discipline under which the two files stay whole: nobody recovers under a
\* running write, and either every writer takes the lock or writes do not overlap.
Disciplined == QuietRecovers /\ (Guarded = Writer \/ QuietWrites)

\* Types of all variables.
TypeOK ==
    /\ file \in [Name -> Text \cup {None, Torn}]
    /\ journal \in BOOLEAN /\ writelock \in BOOLEAN /\ readonly \in BOOLEAN
    /\ pc \in [Writer -> Ended \cup Inside \cup {"idle", "guard", "lock"}]
    /\ fd \in [Writer -> Name \cup {"none", "unlinked"}]
    /\ rpc \in [Recoverer -> {"idle", "products", "orders", "journal"}]
    /\ saves \in 0 .. MaxSaves

\* products.csv and orders.csv always hold the whole text of some process,
\* whatever was killed where and whoever recovered (write-new-then-rename).
NeverTorn == file["products"] \in Text /\ file["orders"] \in Text

\* The write lock admits one guarded writer at a time past the mkdir.
OneWriterInside ==
    \A v, w \in Guarded : pc[v] \in Inside /\ pc[w] \in Inside => v = w

\* What a reader would find once a pending journal has been recovered.
Recovered(old, new) == IF journal /\ file[new] # None THEN file[new] ELSE file[old]
Visible == [products |-> Recovered("products", "pnew"),
            orders   |-> Recovered("orders", "onew")]
Promise == INSTANCE AtomicDataset WITH dataset <- Visible

\* The two files change together or not at all: the write takes effect when
\* the journal appears, and a kill before or after it never leaves a mixture.
AllOrNothing == Promise!Spec

\* A write whose products.csv is in place has its orders.csv in place in the
\* end, even when the process was killed or returned between the renames.
HalfWriteIsCompleted ==
    \A w \in Writer : file["products"] = w ~> file["orders"] = w

\* docs/TRANSACTIONS.md:6: the write renames *.new into place and removes the
\* journal, so a write that was not killed or refused leaves none behind.  Does
\* not hold: atomic_write_dataset returns after its first rename.
WriteRemovesJournal ==
    (\A w \in Writer : pc[w] \in {"idle", "true", "false", "busy", "refused"}) => ~journal
=============================================================================
