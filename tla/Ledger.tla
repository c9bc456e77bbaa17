------------------------------- MODULE Ledger -------------------------------
(* The ledger of one dataset directory: the entries that loads and saves    *)
(* append to .neonstore/ledger.log (quota_allow_write and the verify_*      *)
(* functions of src/src/csv_storage.cpp), and the ledger commands of        *)
(* src/src/main.cpp.  A version of the dataset is a number.                 *)
EXTENDS HashChain, FiniteSets

CONSTANTS
    Proc,       \* processes, each running one load or save after another
    Keep,       \* values given to ledger prune --keep
    MaxTime,    \* bound: seconds on the clock
    MaxVersion, \* bound: versions of the dataset
    MaxLog,     \* bound: length of ledger.log
    OneAtATime  \* TRUE: no command runs while another load or save is running

Time == 0 .. MaxTime
Version == 0 .. MaxVersion
Body == [ds : Version, ts : Time]

ASSUME LedgerAssumption ==
    /\ MaxTime \in Nat /\ MaxVersion \in Nat /\ MaxLog \in Nat
    /\ Keep \subseteq Nat
    /\ OneAtATime \in BOOLEAN

VARIABLES
    on,      \* .neonstore/ledger.on exists
    log,     \* the entries of .neonstore/ledger.log (none: no such file)
    archive, \* archive[t]: the entries of the file rotated at second t
    now,     \* the clock, in seconds
    version, \* the version of the dataset on disk
    pc,      \* where each process is
    ds,      \* the version it has read for its entry
    prev,    \* the hash it has found at the end of the log
    ts       \* the time of its entry

vars == <<on, log, archive, now, version, pc, ds, prev, ts>>
proc == <<pc, ds, prev, ts>>
files == <<on, log, archive>>

Init ==
    /\ on \in BOOLEAN
    /\ log = <<>>
    /\ archive = [t \in Time |-> <<>>]
    /\ now = 0
    /\ version = 0
    /\ pc = [p \in Proc |-> "idle"]
    /\ ds = [p \in Proc |-> 0]
    /\ prev = [p \in Proc |-> Genesis]
    /\ ts = [p \in Proc |-> 0]

Goto(p, where) == pc' = [pc EXCEPT ![p] = where]
Forget(p) == /\ ds' = [ds EXCEPT ![p] = 0]
             /\ prev' = [prev EXCEPT ![p] = Genesis]
             /\ ts' = [ts EXCEPT ![p] = 0]
\* Whether another process, or another ledger command, may move now.
MayMove == OneAtATime => \A p \in Proc : pc[p] = "idle"

\* After the entry, or without one: a save goes on to write the dataset; a
\* load, or a save with NEONSTORE_DRYRUN=1, does not.
Continue(p) == \E where \in {"write", "idle"} : Goto(p, where)

\* Mutant of Begin: a process keeps the first dataset hash it has computed.
BeginStale(p) ==
    /\ pc[p] = "idle" /\ MayMove
    /\ IF on THEN Goto(p, "tail") /\ UNCHANGED ds
             ELSE Continue(p) /\ UNCHANGED ds
    /\ UNCHANGED <<files, now, version, prev, ts>>

\* A load or save begins: with ledger.on it hashes the dataset as it is.
Begin(p) ==
    /\ pc[p] = "idle" /\ MayMove
    /\ IF on THEN Goto(p, "tail") /\ ds' = [ds EXCEPT ![p] = version]
             ELSE Continue(p) /\ UNCHANGED ds
    /\ UNCHANGED <<files, now, version, prev, ts>>

ReadTail(p) ==
    /\ pc[p] = "tail"
    /\ prev' = [prev EXCEPT ![p] = LastHash(log)]
    /\ ts' = [ts EXCEPT ![p] = now]
    /\ Goto(p, "append")
    /\ UNCHANGED <<files, now, version, ds>>

\* Mutant of AppendEntry: the entry is chained to nothing.
AppendUnchained(p) ==
    /\ pc[p] = "append"
    /\ Len(log) < MaxLog
    /\ log' = Append(log, Entry(Genesis, [ds |-> ds[p], ts |-> ts[p]]))
    /\ Continue(p) /\ Forget(p)
    /\ UNCHANGED <<on, archive, now, version>>

\* Mutant of AppendEntry: the time is left out of the entry.
AppendUntimed(p) ==
    /\ pc[p] = "append"
    /\ Len(log) < MaxLog
    /\ log' = Append(log, Entry(prev[p], [ds |-> ds[p]]))
    /\ Continue(p) /\ Forget(p)
    /\ UNCHANGED <<on, archive, now, version>>

AppendEntry(p) ==
    /\ pc[p] = "append"
    /\ Len(log) < MaxLog
    /\ log' = Append(log, Entry(prev[p], [ds |-> ds[p], ts |-> ts[p]]))
    /\ Continue(p) /\ Forget(p)
    /\ UNCHANGED <<on, archive, now, version>>

WriteDataset(p) ==
    /\ pc[p] = "write"
    /\ version < MaxVersion
    /\ version' = version + 1
    /\ Goto(p, "idle")
    /\ UNCHANGED <<files, now, ds, prev, ts>>

Kill(p) ==
    /\ pc[p] # "idle"
    /\ Goto(p, "idle")
    /\ Forget(p)
    /\ UNCHANGED <<files, now, version>>

\* atomic_write_dataset returns before the lines that would append an entry.
\* (Its steps are in module DatasetTxn.)
AtomicWrite ==
    /\ MayMove
    /\ version < MaxVersion
    /\ version' = version + 1
    /\ UNCHANGED <<files, now, proc>>

Switch ==
    /\ MayMove
    /\ on' \in BOOLEAN
    /\ UNCHANGED <<log, archive, now, version, proc>>

\* rename replaces a file rotated in the same second.
Rotate ==
    /\ MayMove
    /\ log # <<>>
    /\ archive' = [archive EXCEPT ![now] = log]
    /\ log' = <<>>
    /\ UNCHANGED <<on, now, version, proc>>

\* The files prune counts, in the order of their names: "ledger-<time>.log",
\* then "ledger.log", then "ledger.on".
LogRank == MaxTime + 1
OnRank == MaxTime + 2
Pruneable ==
         {t \in Time : archive[t] # <<>>}
    \cup (IF log # <<>> THEN {LogRank} ELSE {})
    \cup (IF on THEN {OnRank} ELSE {})

\* Mutant of Doomed: the newest files go first.
DoomedNewest(k) == {f \in Pruneable : Cardinality({g \in Pruneable : g < f}) >= k}

\* The first files are removed as long as more than k remain.
Doomed(k) == {f \in Pruneable : Cardinality({g \in Pruneable : g > f}) >= k}

Prune(k) ==
    /\ MayMove
    /\ archive' = [t \in Time |-> IF t \in Doomed(k) THEN <<>> ELSE archive[t]]
    /\ log' = IF LogRank \in Doomed(k) THEN <<>> ELSE log
    /\ on' = (on /\ OnRank \notin Doomed(k))
    /\ UNCHANGED <<now, version, proc>>

Tick ==
    /\ now < MaxTime
    /\ now' = now + 1
    /\ UNCHANGED <<files, version, proc>>

Step(p) == Begin(p) \/ ReadTail(p) \/ AppendEntry(p) \/ WriteDataset(p) \/ Kill(p)

Next ==
    \/ \E p \in Proc : Step(p)
    \/ AtomicWrite \/ Switch \/ Rotate \/ Tick
    \/ \E k \in Keep : Prune(k)

Spec == Init /\ [][Next]_vars

-----------------------------------------------------------------------------
\* The logs are sequences of entries; the other variables have their types.
IsLog(s) == \A i \in DOMAIN s : s[i].body \in Body
TypeOK ==
    /\ on \in BOOLEAN
    /\ IsLog(log)
    /\ DOMAIN archive = Time /\ \A t \in Time : IsLog(archive[t])
    /\ now \in Time /\ version \in Version
    /\ pc \in [Proc -> {"idle", "tail", "append", "write"}]
    /\ ds \in [Proc -> Version] /\ ts \in [Proc -> Time]
    /\ DOMAIN prev = Proc

\* What the proof adds when commands run one at a time: what a process has read
\* of the log and of the dataset is still so when it uses it.
Alone == \A p, q \in Proc : pc[p] # "idle" /\ pc[q] # "idle" => p = q
Chained == \A p \in Proc : pc[p] = "append" => prev[p] = LastHash(log)
Recorded(v) == \E i \in DOMAIN log : log[i].body.ds = v
Covered ==
    \A p \in Proc : /\ pc[p] \in {"tail", "append"} => ds[p] = version
                    /\ pc[p] = "write" /\ on => Recorded(version)

\* docs/LEDGER.md:13: verify tells tampering.  Nobody tampers here, so the log
\* and every rotated file verify, whatever is rotated, pruned or killed.
LedgerIntact == Verify(log) /\ \A t \in Time : Verify(archive[t])

\* With the ledger on, a save replaces only a version the live log has an entry
\* of: the entry is appended before the write and names what is overwritten.
ReplacedIsRecorded ==
    [][\A p \in Proc :
          on /\ WriteDataset(p) => Recorded(version)]_vars

\* Pruning to two files or more never removes the live log or the switch: the
\* rotated files sort before them.
PruneSparesLive ==
    [][\A k \in Keep : k >= 2 /\ Prune(k) => log' = log /\ on' = on]_vars
=============================================================================
