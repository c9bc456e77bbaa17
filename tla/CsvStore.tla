------------------------------ MODULE CsvStore ------------------------------
(* Loading and saving products.csv from several processes or threads        *)
(* (src/src/csv_storage.cpp); orders.csv is loaded and saved the same way.  *)
(*   An updater is a command that loads, edits and saves: each of its saves *)
(*   goes to products.csv.tmp, which is then renamed.  A reader loads.      *)
(*   Any of them may be killed between two steps.                           *)
(*                                                                          *)
(* A text is the set of the edits it contains.  Files are inodes, so that a *)
(* descriptor keeps its file when the name moves to another one.            *)
EXTENDS Integers

CONSTANTS
    Updater,   \* commands that load, edit and save, once each
    Reader,    \* commands that load, again and again
    Expecting, \* updaters run with --expect-fingerprint
    Dry,       \* updaters run with NEONSTORE_DRYRUN=1
    Inode,
    LockMode,  \* "dir" or "os": --lock-mode
    OneAtATime,\* TRUE: an update starts only when no other update is running
    None,      \* no inode, no client
    Hole       \* marks the content of a file truncated or half-written

Client == Updater \cup Reader
Text == SUBSET Updater
Torn == {Hole}

ASSUME CsvAssumption ==
    /\ Updater \cap Reader = {}
    /\ Expecting \subseteq Updater /\ Dry \subseteq Updater
    /\ LockMode \in {"dir", "os"}
    /\ OneAtATime \in BOOLEAN
    /\ None \notin Inode \cup Client
    /\ Hole \notin Updater

VARIABLES
    csv,     \* the inode called products.csv, or None
    tmp,     \* the inode called products.csv.tmp, or None
    content, \* what each inode holds
    fd,      \* the inode each client has open, or None
    text,    \* the inventory each client holds in memory
    expect,  \* the text whose fingerprint the caller passed
    pc,      \* where each client is, or how it ended
    lockdir, \* the directory .lock exists
    oslock   \* the client that holds the fcntl lock on .lockf, or None

vars == <<csv, tmp, content, fd, text, expect, pc, lockdir, oslock>>

Ended == {"idle", "done", "stale", "failed", "killed"}
Running(c) == pc[c] \notin Ended
Loading == {"casRead", "read"}
Saving == {"lock", "unlock", "create", "write", "rename"}

Init ==
    /\ csv \in Inode \cup {None}
    /\ tmp = None
    /\ content = [i \in Inode |-> {}]
    /\ fd = [c \in Client |-> None]
    /\ text = [c \in Client |-> {}]
    /\ expect = [c \in Client |-> {}]
    /\ pc = [c \in Client |-> "idle"]
    /\ lockdir = FALSE
    /\ oslock = None

Goto(c, where) == pc' = [pc EXCEPT ![c] = where]
Stored == IF csv = None THEN {} ELSE content[csv]
\* Of a torn file, the rows that happen to parse are loaded without a word.
Parsed(t) == IF t = Torn THEN Text ELSE {t}

\* A command begins; who passes --expect-fingerprint read it just before.
Start(c) ==
    /\ pc[c] = "idle"
    /\ c \in Updater /\ OneAtATime => \A d \in Updater : ~Running(d)
    /\ \E t \in Parsed(Stored) : expect' = [expect EXCEPT ![c] = t]
    /\ Goto(c, IF c \in Expecting THEN "casOpen" ELSE "open")
    /\ UNCHANGED <<csv, tmp, content, fd, text, lockdir, oslock>>

\* load_products: a LockDir lives from here to the return; its constructor
\* does not mind a .lock that is already there.  No file: nothing is loaded.
OpenCsv(c, here, reading, loaded) ==
    /\ pc[c] = here
    /\ IF csv = None
       THEN /\ text' = [text EXCEPT ![c] = {}]
            /\ Goto(c, loaded)
            /\ lockdir' = FALSE
            /\ UNCHANGED fd
       ELSE /\ fd' = [fd EXCEPT ![c] = csv]
            /\ Goto(c, reading)
            /\ lockdir' = TRUE
            /\ UNCHANGED text
    /\ UNCHANGED <<csv, tmp, content, expect, oslock>>

\* Mutant of ReadCsv: a .tmp file, newer than products.csv, is preferred to it.
ReadNewest(c, here, loaded) ==
    /\ pc[c] = here
    /\ text' = [text EXCEPT ![c] = IF tmp = None THEN Stored ELSE content[tmp]]
    /\ fd' = [fd EXCEPT ![c] = None]
    /\ lockdir' = FALSE
    /\ Goto(c, loaded)
    /\ UNCHANGED <<csv, tmp, content, expect, oslock>>

ReadCsv(c, here, loaded) ==
    /\ pc[c] = here
    /\ \E t \in Parsed(content[fd[c]]) : text' = [text EXCEPT ![c] = t]
    /\ fd' = [fd EXCEPT ![c] = None]
    /\ lockdir' = FALSE
    /\ Goto(c, loaded)
    /\ UNCHANGED <<csv, tmp, content, expect, oslock>>

\* cas_guard: load, compare, and go on to load again.
CasOpen(c) == OpenCsv(c, "casOpen", "casRead", "cas")
CasRead(c) == ReadCsv(c, "casRead", "cas")
CasCompare(c) ==
    /\ pc[c] = "cas"
    /\ Goto(c, IF text[c] = expect[c] THEN "open" ELSE "stale")
    /\ UNCHANGED <<csv, tmp, content, fd, text, expect, lockdir, oslock>>

Load(c) == OpenCsv(c, "open", "read", "loaded")
Read(c) == ReadCsv(c, "read", "loaded")

\* What the command does with the inventory it has loaded.
Edit(c) ==
    /\ pc[c] = "loaded"
    /\ Goto(c, CASE c \in Reader -> "idle" [] c \in Dry -> "done" [] OTHER -> "lock")
    /\ text' = IF c \in Updater THEN [text EXCEPT ![c] = @ \cup {c}] ELSE text
    /\ UNCHANGED <<csv, tmp, content, fd, expect, lockdir, oslock>>

\* Mutant of TakeLock: a .lock that is already there makes the save fail.
TakeLockOrFail(c) ==
    /\ pc[c] = "lock"
    /\ Goto(c, IF lockdir THEN "failed" ELSE "unlock")
    /\ lockdir' = TRUE
    /\ UNCHANGED <<csv, tmp, content, fd, text, expect, oslock>>

\* save_products: the lock object dies at the end of the block it is made in.
TakeLock(c) ==
    /\ pc[c] = "lock"
    /\ IF LockMode = "dir"
       THEN Goto(c, "unlock") /\ lockdir' = TRUE /\ UNCHANGED oslock
       ELSE /\ Goto(c, IF oslock = None THEN "unlock" ELSE "failed")
            /\ oslock' = IF oslock = None THEN c ELSE oslock
            /\ UNCHANGED lockdir
    /\ UNCHANGED <<csv, tmp, content, fd, text, expect>>

DropLock(c) ==
    /\ pc[c] = "unlock"
    /\ Goto(c, "create")
    /\ lockdir' = (LockMode = "os" /\ lockdir)
    /\ oslock' = IF LockMode = "os" THEN None ELSE oslock
    /\ UNCHANGED <<csv, tmp, content, fd, text, expect>>

Fresh(i) == i \notin {csv, tmp} /\ \A c \in Client : fd[c] # i

\* Mutant of CreateTmp: products.csv itself is opened and truncated.
CreateInPlace(c) ==
    /\ pc[c] = "create"
    /\ \E i \in Inode :
            /\ IF csv = None THEN Fresh(i) ELSE i = csv
            /\ csv' = i
            /\ fd' = [fd EXCEPT ![c] = i]
            /\ content' = [content EXCEPT ![i] = Torn]
    /\ Goto(c, "write")
    /\ UNCHANGED <<tmp, text, expect, lockdir, oslock>>

\* write_atomic opens and truncates products.csv.tmp, whoever made it.
CreateTmp(c) ==
    /\ pc[c] = "create"
    /\ \E i \in Inode :
            /\ IF tmp = None THEN Fresh(i) ELSE i = tmp
            /\ tmp' = i
            /\ fd' = [fd EXCEPT ![c] = i]
            /\ content' = [content EXCEPT ![i] = Torn]
    /\ Goto(c, "write")
    /\ UNCHANGED <<csv, text, expect, lockdir, oslock>>

\* Over another client's text the result may be a mixture of the two.
WriteTmp(c) ==
    /\ pc[c] = "write"
    /\ \E t \in IF content[fd[c]] = Torn THEN {text[c]} ELSE {text[c], Torn} :
            content' = [content EXCEPT ![fd[c]] = t]
    /\ fd' = [fd EXCEPT ![c] = None]
    /\ Goto(c, "rename")
    /\ UNCHANGED <<csv, tmp, text, expect, lockdir, oslock>>

\* Mutant of RenameTmp: products.csv is removed before the rename.
RemoveThenRename(c) ==
    /\ pc[c] = "rename"
    /\ IF csv = None
       THEN csv' = tmp /\ tmp' = None /\ Goto(c, "done")
       ELSE csv' = None /\ UNCHANGED <<tmp, pc>>
    /\ UNCHANGED <<content, fd, text, expect, lockdir, oslock>>

\* fs::rename throws when another client has renamed the shared .tmp away.
RenameTmp(c) ==
    /\ pc[c] = "rename"
    /\ IF tmp = None
       THEN Goto(c, "failed") /\ UNCHANGED <<csv, tmp>>
       ELSE csv' = tmp /\ tmp' = None /\ Goto(c, "done")
    /\ UNCHANGED <<content, fd, text, expect, lockdir, oslock>>

\* The kernel closes the descriptors and drops the fcntl lock; .lock stays.
Kill(c) ==
    /\ Running(c)
    /\ Goto(c, "killed")
    /\ fd' = [fd EXCEPT ![c] = None]
    /\ oslock' = IF oslock = c THEN None ELSE oslock
    /\ UNCHANGED <<csv, tmp, content, text, expect, lockdir>>

Step(c) ==
    \/ CasOpen(c) \/ CasRead(c) \/ CasCompare(c)
    \/ Load(c) \/ Read(c) \/ Edit(c)
    \/ TakeLock(c) \/ DropLock(c)
    \/ CreateTmp(c) \/ WriteTmp(c) \/ RenameTmp(c)

Next == \E c \in Client : Start(c) \/ Step(c) \/ Kill(c)

Spec == Init /\ [][Next]_vars

\* A command that has started and is not killed keeps running.
FairSpec == Spec /\ \A c \in Client : WF_vars(Step(c))

-----------------------------------------------------------------------------
Place == Ended \cup Loading \cup Saving \cup {"casOpen", "cas", "open", "loaded"}

\* Types of all variables; a client that reads or writes has a file open.
TypeOK ==
    /\ csv \in Inode \cup {None} /\ tmp \in Inode \cup {None}
    /\ content \in [Inode -> Text \cup {Torn}]
    /\ fd \in [Client -> Inode \cup {None}]
    /\ text \in [Client -> Text] /\ expect \in [Client -> Text]
    /\ pc \in [Client -> Place]
    /\ \A c \in Client : pc[c] \in Loading \cup {"write"} => fd[c] \in Inode
    /\ lockdir \in BOOLEAN
    /\ oslock \in Client \cup {None}

\* The text a client has loaded, from the moment it has opened the file.
ViewOf(c) == CASE pc[c] \in Loading -> content[fd[c]]
               [] pc[c] = "killed" -> {}
               [] OTHER -> text[c] \ {c}

\* What the proof adds to TypeOK when updates run one at a time.
Alone == \A c, d \in Updater : Running(c) /\ Running(d) => c = d
Roles == \A c \in Client \ Updater : pc[c] \in {"idle", "open", "read", "loaded", "killed"}
\* products.csv is whole and is not the file being written.
FilesInv ==
    /\ csv # None => content[csv] \in Text /\ tmp # csv
    /\ \A c \in Updater : c \in Stored => pc[c] = "done"
\* A loader's file is whole and nobody writes it; an updater's is products.csv.
LoadInv ==
    \A c \in Client : pc[c] \in Loading =>
        /\ fd[c] \in Inode /\ fd[c] # tmp /\ content[fd[c]] \in Text
        /\ c \in Updater => content[fd[c]] = Stored
SaveInv ==
    \A c \in Updater :
        /\ pc[c] = "loaded" => text[c] = Stored
        /\ pc[c] \in Saving => text[c] = Stored \cup {c}
        /\ pc[c] = "write" => tmp # None /\ fd[c] = tmp /\ content[tmp] = Torn
        /\ pc[c] = "rename" => tmp # None /\ content[tmp] = text[c]
CInv == TypeOK /\ Alone /\ Roles /\ FilesInv /\ LoadInv /\ SaveInv

\* A load takes effect at the open, a save at the rename: whatever readers run
\* beside it and whatever is killed where, an update that runs alone replaces a
\* whole text by a whole text that contains every edit saved before.
Promise == INSTANCE AtomicStore WITH store <- Stored, view <- [c \in Client |-> ViewOf(c)]
ImplementsStore == Promise!Spec

\* What an earlier killed command left behind (.lock, products.csv.tmp, a torn
\* text in it) never makes a later command that runs alone fail.
CommandsSucceed == \A c \in Updater : Running(c) ~> pc[c] \in {"done", "killed"}

\* products.csv never disappears, even between saves that overlap: a load that
\* found it missing would take the inventory to be empty.
NeverMissing == [][csv # None => csv' # None]_vars

\* CHANGELOG.md:70: the directory lock is there for concurrent safety, so no
\* two commands are ever inside the scope of a LockDir of the same directory.
\* Does not hold: a .lock that is there is no obstacle.
LockHolderAlone ==
    \A c, d \in Client : pc[c] \in Loading \cup {"unlock"}
                         /\ pc[d] \in Loading \cup {"unlock"} => c = d

\* docs/THREAT_MODEL.md:13: the CAS guard is the answer to races: of several
\* commands that expect the same fingerprint at most one changes the dataset.
\* Does not hold: the comparison comes before the load.
CasWritersAgree ==
    \A c, d \in Expecting :
        pc[c] = "done" /\ pc[d] = "done" /\ expect[c] = expect[d] => c = d
=============================================================================
