----------------------------- MODULE Workspace -----------------------------
(* The commands of src/src/main.cpp that copy a dataset directory, file by  *)
(* file and without a lock: tx (the working copy .tx), snapshot, backup,    *)
(* restore and archive; and the audit log that travels with it              *)
(* (src/include/neonstore/audit.hpp).  Commands run one at a time; any of   *)
(* them may be killed, also within the copy of a file.                      *)
(*                                                                          *)
(* The text of a csv file is the set of edits it includes.                  *)
EXTENDS HashChain, FiniteSets

CONSTANTS
    Edit,    \* edits a command can make
    Keep,    \* values of --keep
    MaxTime, \* bound: seconds on the clock
    MaxLog,  \* bound: entries of an audit log
    MaxPlaces, \* bound: places that exist at once, the dataset included
    MaxFlawed, \* bound: the same when a copy or a removal fails, and until that is mended
    Missing, \* there is no such file
    Torn,    \* a file whose copy was cut short
    None,    \* there is no such copy (refinement)
    Careful  \* TRUE: a command that was killed is run again, or undone, first

Time == 0 .. MaxTime
Csv == {"products.csv", "orders.csv"}
File == Csv \cup {"audit.log"}

ASSUME WorkspaceAssumption ==
    /\ MaxTime \in Nat /\ MaxLog \in Nat /\ MaxPlaces \in Nat
    /\ MaxFlawed \in Nat
    /\ Keep \subseteq Nat
    /\ Careful \in BOOLEAN
    /\ Missing # Torn
    /\ \A text \in SUBSET Edit : text # Missing /\ text # Torn
    /\ \A d \in [Csv -> SUBSET Edit] : d # None

\* The dataset directory, its .tx, an archive file, .snapshots/<time>, the
\* files <name>.<time> of the backup directory, and that directory itself.
Dir == <<"dir", 0>>
Tx == <<"tx", 0>>
Archive == <<"archive", 0>>
Backups == <<"backups", 0>>
Snapshot(t) == <<"snapshot", t>>
Backup(t) == <<"backup", t>>
Slot == {Snapshot(t) : t \in Time} \cup {Archive}
Place == Slot \cup {Dir, Tx, Backups} \cup {Backup(t) : t \in Time}

VARIABLES
    disk,    \* disk[p][f]: the content of file f at place p
    there,   \* the places that exist, whatever they hold
    partial, \* those whose copy, or removal, has begun and not ended
    flawed,  \* those where the copy of a csv file, or a removal, failed unnoticed,
             \* and those copied from them (auxiliary)
    job,     \* the copying command that runs, or was killed and is to be run again
    todo,    \* the files it has still to copy
    pc,      \* "idle": no command runs
    killed,  \* it was killed, and something is left to be done about it
    now      \* the clock, in seconds

vars == <<disk, there, partial, flawed, job, todo, pc, killed, now>>
Idle == pc = "idle"

Nothing == [f \in File |-> Missing]
NoJob == [op |-> "none", from |-> Dir, to |-> Dir]
Init ==
    /\ disk = [p \in Place |-> IF p = Dir
                 THEN [f \in File |-> IF f \in Csv THEN {} ELSE Missing]
                 ELSE Nothing]
    /\ there = {Dir} /\ partial = {} /\ flawed = {}
    /\ job = NoJob
    /\ todo = <<>> /\ pc = "idle" /\ killed = FALSE
    /\ now = 0

Tick == now < MaxTime /\ now' = now + 1
        /\ UNCHANGED <<disk, there, partial, flawed, job, todo, pc, killed>>

-----------------------------------------------------------------------------
(* The audit log                                                            *)
Entries(text) == IF text = Missing THEN <<>> ELSE text

\* Mutant of Appended: no entry is chained to another.
AppendedUnchained(text) ==
    IF text = Torn THEN Torn
    ELSE LET log == Entries(text) IN Append(log, Entry(Genesis, "op"))

\* audit_append (the body of an entry, its time, operation and data, is one
\* value here); behind a line that was cut short a log stays broken.
Appended(text) ==
    IF text = Torn THEN Torn
    ELSE Append(Entries(text), Entry(LastHash(Entries(text)), "op"))

Room(p) == disk[p]["audit.log"] # Torn => Len(Entries(disk[p]["audit.log"])) < MaxLog
Recorded(p, d) ==
    Room(p) /\ disk' = [d EXCEPT ![p]["audit.log"] = Appended(@)]

\* `audit verify`: a log that is not there verifies.
AuditVerify(text) == text # Torn /\ Verify(Entries(text))

\* `audit prune --dir DIR --keep K`: audit.log is all it finds there (its other
\* names are those of rotated logs, and nothing rotates one: the branch of
\* `audit rotate` comes after that of `audit`).
AuditPrune(k) ==
    /\ Idle /\ k = 0
    /\ disk' = [disk EXCEPT ![Dir]["audit.log"] = Missing]
    /\ UNCHANGED <<there, partial, flawed, job, todo, pc, killed, now>>

-----------------------------------------------------------------------------
(* Who may start: with Careful nothing runs before the killed command has   *)
(* been run again, or, if it made or removed the working copy, been undone. *)
Remedy(op, from) ==
    CASE job.op \in {"tx begin", "tx abort"} -> op = "tx abort"
      [] job.op = "tx commit" -> op = "tx commit"
      [] OTHER -> op = job.op /\ from = job.from

MayStart(op, from) == Idle /\ (Careful /\ killed => Remedy(op, from))

\* A command that edits (module Commands): it saves no file, products.csv or
\* both, and records itself or not.  With `tx run -- ` it works on .tx.
With(text, e) == IF text = Torn THEN Torn ELSE IF text = Missing THEN {e} ELSE text \cup {e}

RunCommand(p) ==
    /\ MayStart("edit", p)
    /\ p \in there
    /\ \E e \in Edit, fs \in {{}, {"products.csv"}, Csv} :
        LET edited == [disk EXCEPT ![p] = [f \in File |->
                          IF f \in fs THEN With(@[f], e) ELSE @[f]]]
        IN \/ disk' = edited
           \/ Recorded(p, edited)
    /\ UNCHANGED <<there, partial, flawed, job, todo, pc, killed, now>>

-----------------------------------------------------------------------------
(* The commands that copy                                                   *)
Both == <<"products.csv", "orders.csv">>
WithAudit == Both \o <<"audit.log">>

\* What a copy makes of its target is as good as its source (a commit that was
\* killed and is run again does not count).
FlawedBy(op, from, to) ==
    IF from \in flawed THEN flawed \cup {to}
    ELSE IF from \in there \ partial /\ ~(op = "tx commit" /\ killed) THEN flawed \ {to}
    ELSE flawed

Start(op, from, to, files) ==
    /\ MayStart(op, from)
    /\ Careful => from \notin partial \/ Remedy(op, from)
    /\ to \in there \/ Cardinality(there) < IF flawed = {} THEN MaxPlaces ELSE MaxFlawed
    /\ pc' = "copy" /\ job' = [op |-> op, from |-> from, to |-> to] /\ todo' = files
    /\ there' = there \cup {to} /\ partial' = partial \cup {to}
    /\ flawed' = FlawedBy(op, from, to)
    /\ killed' = FALSE
    /\ UNCHANGED <<disk, now>>

\* Mutant of TxBegin: orders.csv is forgotten.
TxBeginProducts ==
    Tx \notin there /\ Start("tx begin", Dir, Tx, <<"products.csv", "audit.log">>)

TxBegin == Tx \notin there /\ Start("tx begin", Dir, Tx, WithAudit)

\* Mutant of TxCommit: the audit log is copied back with the rest.
TxCommitAudit == Tx \in there /\ Start("tx commit", Tx, Dir, WithAudit)

\* Mutant of TxCommit: orders.csv is forgotten.
TxCommitProducts == Tx \in there /\ Start("tx commit", Tx, Dir, <<"products.csv">>)

TxCommit == Tx \in there /\ Start("tx commit", Tx, Dir, Both)

\* Two snapshots of one second share their directory.  (Its copy of audit.log is
\* never read again, and left out.)
SnapshotCreate == Start("snapshot create", Dir, Snapshot(now), Both)
SnapshotRestore(t) ==
    Snapshot(t) \in there /\ Start("snapshot restore", Snapshot(t), Dir, Both)

Remove(op, p) ==
    /\ pc' = "remove" /\ job' = [op |-> op, from |-> Dir, to |-> p] /\ todo' = <<>>
    /\ partial' = partial \cup {p} /\ killed' = FALSE
    /\ UNCHANGED <<disk, there, flawed, now>>

TxAbort == MayStart("tx abort", Dir) /\ Tx \in there /\ Remove("tx abort", Tx)

\* The first name goes, as long as more than k remain.
Pruned(k) ==
    LET S == {t \in Time : Snapshot(t) \in there}
    IN {t \in S : Cardinality(S) > k /\ \A u \in S : t <= u}

\* One round of its loop: it may be killed between two.
SnapshotPrune(k) ==
    /\ MayStart("snapshot prune", Dir)
    /\ \E t \in Pruned(k) : Remove("snapshot prune", Snapshot(t))

ArchiveCreate == Start("archive create", Dir, Archive, WithAudit)
\* It puts back the audit log of the archive as well.
ArchiveExtract == Archive \in there /\ Start("archive extract", Archive, Dir, WithAudit)

MakeBackup == Start("backup", Dir, Backup(now), Both)
\* `restore --from` looks for products.csv and orders.csv, which a directory of
\* backups never holds; what is missing is skipped, and not reported.
Restore(p) == p \in there \cup {Backups} /\ Start("restore", p, Dir, Both)

Done(where) == job' = IF where = "idle" THEN NoJob ELSE job

Source == disk[job.from][Head(todo)]
Put(text) == disk' = [disk EXCEPT ![job.to][Head(todo)] = text]

\* copy_file truncates the file, then fills it.
CopyOpen ==
    /\ pc = "copy" /\ todo # <<>>
    /\ Source # Missing /\ disk[job.to][Head(todo)] # Torn
    /\ Put(Torn)
    /\ UNCHANGED <<there, partial, flawed, job, todo, pc, killed, now>>

CopyFill ==
    /\ pc = "copy" /\ todo # <<>>
    /\ Source # Missing /\ disk[job.to][Head(todo)] = Torn
    /\ Put(Source)
    /\ todo' = Tail(todo)
    /\ UNCHANGED <<there, partial, flawed, job, pc, killed, now>>

\* Nobody looks at the error code when something fails at these places.
Unnoticed(ps) ==
    /\ Cardinality(there) <= MaxFlawed
    /\ flawed' = flawed \cup ps

\* copy_file fails, before it truncates the file or after: the next file is copied.
CopyFails ==
    /\ pc = "copy" /\ todo # <<>>
    /\ Source # Missing
    /\ Unnoticed(IF Head(todo) \in Csv THEN {job.to} ELSE {})
    /\ todo' = Tail(todo)
    /\ UNCHANGED <<disk, there, partial, job, pc, killed, now>>

CopySkip ==
    /\ pc = "copy" /\ todo # <<>>
    /\ Source = Missing
    /\ todo' = Tail(todo)
    /\ UNCHANGED <<disk, there, partial, flawed, job, pc, killed, now>>

\* Mutant of AfterCopy: a commit is recorded before .tx is removed, and stays.
AfterCopyKeep(op) ==
    CASE op \in {"tx commit", "restore", "backup"} -> "audit" [] OTHER -> "idle"

\* Where a command goes when its files are copied.
AfterCopy(op) ==
    CASE op = "tx commit" -> "remove"
      [] op = "backup" -> "prune"
      [] op = "restore" -> "audit"
      [] OTHER -> "idle"

Copied ==
    /\ pc = "copy" /\ todo = <<>>
    /\ pc' = AfterCopy(job.op)
    /\ IF job.op = "tx commit"
       THEN partial' = (partial \ {Dir}) \cup {Tx} /\ job' = [job EXCEPT !.to = Tx]
       ELSE partial' = partial \ {job.to} /\ Done(pc')
    /\ UNCHANGED <<disk, there, flawed, todo, killed, now>>

\* remove_all: file by file, in any order, and then the directory.
RemoveFile ==
    /\ pc = "remove"
    /\ \E f \in File : /\ disk[job.to][f] # Missing
                       /\ disk' = [disk EXCEPT ![job.to][f] = Missing]
    /\ UNCHANGED <<there, partial, flawed, job, todo, pc, killed, now>>

AfterRemove == pc' = (IF job.op = "tx commit" THEN "audit" ELSE "idle") /\ Done(pc')

\* Mutant of RemoveDir: it counts as gone while files are left in it.
RemoveDirFirst ==
    /\ pc = "remove"
    /\ there' = there \ {job.to} /\ partial' = partial \ {job.to}
    /\ flawed' = flawed \ {job.to}
    /\ AfterRemove
    /\ UNCHANGED <<disk, todo, killed, now>>

RemoveDir ==
    /\ pc = "remove" /\ disk[job.to] = Nothing
    /\ there' = there \ {job.to} /\ partial' = partial \ {job.to}
    /\ flawed' = flawed \ {job.to}
    /\ AfterRemove
    /\ UNCHANGED <<disk, todo, killed, now>>

\* remove_all fails: what is left stays, and the command goes on all the same.
RemoveFails ==
    /\ pc = "remove"
    /\ Unnoticed({job.to})
    /\ partial' = partial \ {job.to}
    /\ AfterRemove
    /\ UNCHANGED <<disk, there, todo, killed, now>>

\* The regular files of the backup directory in the order of their names:
\* MANIFEST.txt (written just before), orders.csv.<time>, products.csv.<time>.
Rank(f, t) == IF f = "orders.csv" THEN t ELSE MaxTime + 1 + t
Kept == {x \in Csv \X Time : disk[Backup(x[2])][x[1]] # Missing}

\* Mutant of Doomed: the last names go first.
DoomedLast(k) ==
    {x \in Kept : Cardinality({y \in Kept : Rank(y[1], y[2]) < Rank(x[1], x[2])}) >= k}

\* `backup --keep k` removes the first files as long as more than k remain.
Doomed(k) ==
    {x \in Kept : Cardinality({y \in Kept : Rank(y[1], y[2]) > Rank(x[1], x[2])}) >= k}

\* Without --keep no file is doomed; one that cannot be removed is left behind.
PruneBackups ==
    /\ pc = "prune"
    /\ \E doomed \in {{}} \cup {Doomed(k) : k \in Keep} : \E stuck \in SUBSET doomed :
        LET left == {Backup(x[2]) : x \in stuck}
            gone == {Backup(t) : t \in {u \in Time : disk'[Backup(u)] = Nothing}}
        IN /\ disk' = [p \in Place |->
                 IF p[1] = "backup"
                 THEN [f \in File |-> IF <<f, p[2]>> \in doomed \ stuck
                                     THEN Missing ELSE disk[p][f]]
                 ELSE disk[p]]
           /\ left = {} \/ Cardinality(there) <= MaxFlawed
           /\ there' = there \ gone /\ partial' = partial \ gone
           /\ flawed' = (flawed \cup left) \ gone
    /\ pc' = "audit"
    /\ UNCHANGED <<job, todo, killed, now>>

Audit ==
    /\ pc = "audit"
    /\ Recorded(Dir, disk)
    /\ pc' = "idle" /\ job' = NoJob
    /\ UNCHANGED <<there, partial, flawed, todo, killed, now>>

\* The process is gone.  A copy that was being made for later is left as it is.
Kill ==
    /\ ~Idle
    /\ pc' = "idle" /\ todo' = <<>>
    /\ killed' = \/ pc = "remove" /\ job.to = Tx
                 \/ pc = "copy" /\ job.to \in {Dir, Tx}
    /\ job' = IF killed' THEN job ELSE NoJob
    /\ UNCHANGED <<disk, there, partial, flawed, now>>

Step ==
    \/ CopyOpen \/ CopyFill \/ CopyFails \/ CopySkip \/ Copied
    \/ RemoveFile \/ RemoveDir \/ RemoveFails \/ PruneBackups \/ Audit

Next ==
    \/ RunCommand(Dir) \/ RunCommand(Tx)
    \/ TxBegin \/ TxCommit \/ TxAbort
    \/ SnapshotCreate \/ (\E t \in Time : SnapshotRestore(t)) \/ (\E k \in Keep : SnapshotPrune(k))
    \/ ArchiveCreate \/ ArchiveExtract
    \/ MakeBackup \/ (\E p \in {Backups} \cup {Snapshot(t) : t \in Time} : Restore(p))
    \/ (\E k \in Keep : AuditPrune(k))
    \/ Step \/ Kill \/ Tick

Spec == Init /\ [][Next]_vars

-----------------------------------------------------------------------------
Text == {Missing, Torn} \cup SUBSET Edit
IsLog(x) == x \in {Missing, Torn} \/ \A i \in DOMAIN x : x[i].body = "op"

\* Types of all variables; what does not exist holds nothing.
TypeOK ==
    /\ \A p \in Place, f \in Csv : disk[p][f] \in Text
    /\ \A p \in Place : IsLog(disk[p]["audit.log"])
    /\ there \subseteq Place /\ Dir \in there /\ partial \subseteq there
    /\ flawed \subseteq there
    /\ job.from \in Place /\ job.to \in Place
    /\ pc \in {"idle", "copy", "remove", "prune", "audit"}
    /\ todo # <<>> => pc = "copy"
    /\ killed \in BOOLEAN /\ now \in Time
    /\ \A p \in Place \ there : disk[p] = Nothing

\* A command is putting a copy into the dataset directory, or was killed at it:
\* each file counts as the one it is copied from.
Installing == Dir \in partial
BaseFile(f) ==
    IF Installing /\ disk[job.from][f] # Missing THEN disk[job.from][f] ELSE disk[Dir][f]
Pair(p) == [f \in Csv |-> disk[p][f]]
Committing == job.op = "tx commit" /\ (~Idle \/ killed)

\* CHANGELOG.md:162 "atomic batch edits", WHITEPAPER.md:21 "restore is atomic":
\* when a command that was killed is run again before anything else, the
\* commands that copy files implement a store of whole datasets, in which a
\* commit or a restore takes effect at its start.  A copy or a removal that
\* fails unnoticed breaks the promise: the store then counts the dataset as
\* spoiled, and the other copies as lost, until a whole one is put there.
Complete(p) == p \in there \ (partial \cup flawed)
Atomic == INSTANCE AtomicWorkspace WITH
    base  <- IF Dir \in flawed THEN None ELSE [f \in Csv |-> BaseFile(f)],
    work  <- IF Complete(Tx) /\ ~Committing THEN Pair(Tx) ELSE None,
    saved <- [s \in Slot |-> IF Complete(s) THEN Pair(s) ELSE None]
WholeDatasets == Atomic!Spec

\* Whole copies are what the commands leave where no copy has failed: outside of
\* a copy no csv file of the dataset is torn, and the working copy has both files.
NothingTorn ==
    /\ ~Installing /\ Dir \notin flawed =>
        \A f \in Csv : disk[Dir][f] \notin {Torn, Missing}
    /\ Complete(Tx) => \A f \in Csv : disk[Tx][f] \notin {Torn, Missing}

\* docs/WHITEPAPER.md:9 "Audit log is append-only": no command takes an entry
\* away from the log of the dataset, whatever is committed or restored, but
\* archive extract, which puts back the log of the archive, and audit prune.
Log(p) == Entries(disk[p]["audit.log"])
AuditGrows ==
    [][job.op # "archive extract" /\ ~(\E k \in Keep : AuditPrune(k))
        /\ disk[Dir]["audit.log"] # Torn
       => /\ disk'[Dir]["audit.log"] # Torn
          /\ Len(Log(Dir)) <= Len(Log(Dir)')
          /\ SubSeq(Log(Dir)', 1, Len(Log(Dir))) = Log(Dir)]_vars

\* docs/WHITEPAPER.md:9 "with hash chain": every log that was not cut short
\* verifies, also the copy that goes on growing in .tx and one put back.
AuditIntact == \A p \in Place : disk[p]["audit.log"] # Torn => AuditVerify(disk[p]["audit.log"])

\* An entry "tx commit" is appended only when every file has been copied or
\* given up and the working copy is gone, unless its removal failed: no commit
\* that could still be undone, or run twice, is on record.  (That it succeeded
\* the entry does not say: WholeDatasets has the copies that fail.)
CommitRecordedLast ==
    [][pc = "audit" /\ pc' = "idle" /\ disk' # disk /\ job.op = "tx commit"
        => /\ Tx \notin there \/ Tx \in flawed
           /\ Dir \notin partial /\ Tx \notin partial]_vars

\* CHANGELOG.md:118: `backup --keep N` prunes old backups.  Where no file failed
\* to be copied or removed, the orders of a backup never outlive its products,
\* and what remains of a file is the newest.
PruneOldest ==
    \A t \in Time : Backup(t) \notin partial \cup flawed
                    /\ disk[Backup(t)]["orders.csv"] # Missing =>
        \A u \in Time : u >= t /\ Complete(Backup(u)) =>
            disk[Backup(u)]["products.csv"] # Missing

\* docs/DATA_INTEGRITY.md:4: `restore --from BACKUPS/` restores the latest backup.
\* Does not hold: restore looks for the files in the directory it is given.
LatestBackup == {t \in Time : Backup(t) \in there /\ \A u \in Time : Backup(u) \in there => u <= t}
BackupsRestore ==
    [][job.op = "restore" /\ job.from = Backups /\ pc = "audit" /\ pc' = "idle" /\ disk' # disk
        => \A t \in LatestBackup : Pair(Dir)' = Pair(Backup(t))]_vars
=============================================================================
