--------------------------- MODULE CsvStoreProofs ---------------------------
(* Theorems about CsvStore for every set of clients and inodes.             *)
EXTENDS CsvStore, TLAPS

LEMMA ParsedType ==
    ASSUME NEW t \in Text \cup {Torn}
    PROVE  Parsed(t) \subseteq Text /\ (t \in Text => Parsed(t) = {t})
  BY CsvAssumption DEF Parsed, Text, Torn

LEMMA StoredType == TypeOK => Stored \in Text \cup {Torn}
  BY DEF TypeOK, Stored, Text

LEMMA StartType ==
    ASSUME TypeOK, NEW c \in Client, Start(c)
    PROVE  TypeOK'
<1>1. expect' \in [Client -> Text]
  BY StoredType, ParsedType DEF TypeOK, Start
<1>2. pc' \in [Client -> Place]
  BY DEF TypeOK, Start, Goto, Place
<1> QED BY <1>1, <1>2 DEF TypeOK, Start, Goto, Loading

LEMMA LoadType ==
    ASSUME TypeOK, NEW c \in Client,
           CasOpen(c) \/ CasRead(c) \/ CasCompare(c) \/ Load(c) \/ Read(c)
    PROVE  TypeOK'
<1>1. CASE CasOpen(c) \/ Load(c)
  <2>1. text' \in [Client -> Text] /\ fd' \in [Client -> Inode \cup {None}]
    BY <1>1 DEF TypeOK, CasOpen, Load, OpenCsv, Text
  <2>2. pc' \in [Client -> Place]
    BY <1>1 DEF TypeOK, CasOpen, Load, OpenCsv, Goto, Place, Loading
  <2>3. \A d \in Client : pc'[d] \in Loading \cup {"write"} => fd'[d] \in Inode
    BY <1>1 DEF TypeOK, CasOpen, Load, OpenCsv, Goto, Loading
  <2> QED BY <1>1, <2>1, <2>2, <2>3 DEF TypeOK, CasOpen, Load, OpenCsv
<1>2. CASE CasRead(c) \/ Read(c)
  <2>1. fd[c] \in Inode
    BY <1>2 DEF TypeOK, CasRead, Read, ReadCsv, Loading
  <2>2. text' \in [Client -> Text]
    BY <1>2, <2>1, ParsedType DEF TypeOK, CasRead, Read, ReadCsv
  <2>3. pc' \in [Client -> Place]
    BY <1>2 DEF TypeOK, CasRead, Read, ReadCsv, Goto, Place
  <2>4. \A d \in Client : pc'[d] \in Loading \cup {"write"} => fd'[d] \in Inode
    BY <1>2 DEF TypeOK, CasRead, Read, ReadCsv, Goto, Loading
  <2> QED BY <1>2, <2>2, <2>3, <2>4 DEF TypeOK, CasRead, Read, ReadCsv
<1>3. CASE CasCompare(c)
  BY <1>3 DEF TypeOK, CasCompare, Goto, Place, Ended, Loading
<1> QED BY <1>1, <1>2, <1>3

LEMMA SaveType ==
    ASSUME TypeOK, NEW c \in Client,
           \/ Edit(c) \/ TakeLock(c) \/ DropLock(c) \/ CreateTmp(c)
           \/ WriteTmp(c) \/ RenameTmp(c) \/ Kill(c)
    PROVE  TypeOK'
<1>1. CASE Edit(c)
  <2>1. text' \in [Client -> Text]
    BY <1>1 DEF TypeOK, Edit, Text
  <2> QED BY <1>1, <2>1 DEF TypeOK, Edit, Goto, Place, Ended, Saving, Loading
<1>2. CASE TakeLock(c) \/ DropLock(c)
  BY <1>2 DEF TypeOK, TakeLock, DropLock, Goto, Place, Ended, Saving, Loading
<1>3. CASE CreateTmp(c)
  BY <1>3 DEF TypeOK, CreateTmp, Goto, Place, Saving, Loading
<1>4. CASE WriteTmp(c)
  <2>1. content' \in [Inode -> Text \cup {Torn}]
    BY <1>4 DEF TypeOK, WriteTmp
  <2> QED BY <1>4, <2>1 DEF TypeOK, WriteTmp, Goto, Place, Saving, Loading
<1>5. CASE RenameTmp(c)
  BY <1>5 DEF TypeOK, RenameTmp, Goto, Place, Ended, Loading
<1>6. CASE Kill(c)
  BY <1>6 DEF TypeOK, Kill, Goto, Place, Ended, Loading
<1> QED BY <1>1, <1>2, <1>3, <1>4, <1>5, <1>6

LEMMA InitType == Init => TypeOK
  BY CsvAssumption DEF Init, TypeOK, Text, Place, Ended, Loading

\* Every variable keeps its type, however the commands overlap.
THEOREM TypeCorrect == Spec => []TypeOK
<1>1. TypeOK /\ [Next]_vars => TypeOK'
  <2> SUFFICES ASSUME TypeOK, [Next]_vars PROVE TypeOK'
    OBVIOUS
  <2>1. ASSUME NEW c \in Client, Start(c) \/ Step(c) \/ Kill(c) PROVE TypeOK'
    BY <2>1, StartType, LoadType, SaveType DEF Step
  <2>2. CASE UNCHANGED vars
    BY <2>2 DEF vars, TypeOK
  <2> QED BY <2>1, <2>2 DEF Next
<1> QED BY <1>1, InitType, PTL DEF Spec

\* products.csv, once there, is only ever replaced: a save whose .tmp another
\* save has renamed away fails, it does not remove anything.
THEOREM FileStays == Spec => NeverMissing
<1>1. TypeOK /\ [Next]_vars => [csv # None => csv' # None]_vars
  BY DEF Next, Step, Start, CasOpen, CasRead, CasCompare, Load, Read, OpenCsv, ReadCsv,
     Edit, TakeLock, DropLock, CreateTmp, WriteTmp, RenameTmp, Kill, vars
<1> QED BY <1>1, TypeCorrect, PTL DEF Spec, NeverMissing

-----------------------------------------------------------------------------
\* From here on updates run one at a time.

\* While an updater runs every other updater has ended or not begun.
LEMMA OthersEnded ==
    ASSUME Alone, NEW c \in Updater, Running(c), NEW d \in Updater, d # c
    PROVE  pc[d] \in Ended
  BY DEF Alone, Running

LEMMA AloneStep ==
    ASSUME OneAtATime, TypeOK, Alone, Roles, NEW c \in Client,
           Start(c) \/ Step(c) \/ Kill(c)
    PROVE  Alone' /\ Roles'
<1> USE DEF TypeOK, Client
<1>1. \A d \in Client \ {c} : pc'[d] = pc[d]
  BY DEF Step, Start, CasOpen, CasRead, CasCompare, Load, Read, OpenCsv, ReadCsv, Edit,
     TakeLock, DropLock, CreateTmp, WriteTmp, RenameTmp, Kill, Goto
<1>2. Alone'
  <2>1. CASE Start(c)
    BY <1>1, <2>1 DEF Alone, Running, Start
  <2>2. CASE Step(c) \/ Kill(c)
    <3>1. Running(c)
      BY <2>2 DEF Step, CasOpen, CasRead, CasCompare, Load, Read, OpenCsv, ReadCsv, Edit,
         TakeLock, DropLock, CreateTmp, WriteTmp, RenameTmp, Kill, Running, Ended
    <3> QED BY <1>1, <3>1 DEF Alone, Running
  <2> QED BY <2>1, <2>2
<1>3. Roles'
  <2> SUFFICES ASSUME c \in Reader, c \notin Updater
               PROVE  pc'[c] \in {"idle", "open", "read", "loaded", "killed"}
    BY <1>1 DEF Roles
  <2>1. pc[c] \in {"idle", "open", "read", "loaded", "killed"}
    BY DEF Roles
  <2> QED
    BY <2>1, CsvAssumption DEF Step, Start, CasOpen, CasRead, CasCompare, Load, Read,
       OpenCsv, ReadCsv, Edit, TakeLock, DropLock, CreateTmp, WriteTmp, RenameTmp, Kill, Goto
<1> QED BY <1>2, <1>3

\* What the steps that touch neither names nor contents of files preserve.
LEMMA MemoryStep ==
    ASSUME CInv, NEW c \in Client,
           \/ Start(c) \/ CasCompare(c) \/ Edit(c) \/ TakeLock(c) \/ DropLock(c) \/ Kill(c)
    PROVE  FilesInv' /\ LoadInv' /\ SaveInv'
<1> USE DEF CInv, TypeOK
<1>1. csv' = csv /\ tmp' = tmp /\ content' = content /\ Stored' = Stored
  BY DEF Start, CasCompare, Edit, TakeLock, DropLock, Kill, Stored
<1>2. \A d \in Client \ {c} : pc'[d] = pc[d] /\ text'[d] = text[d] /\ fd'[d] = fd[d]
  BY DEF Start, CasCompare, Edit, TakeLock, DropLock, Kill, Goto
<1>3. pc'[c] \notin Loading /\ pc'[c] \notin {"write", "rename"} /\ pc[c] # "done"
  BY DEF Start, CasCompare, Edit, TakeLock, DropLock, Kill, Goto, Loading, Running, Ended
<1>4. FilesInv'
  BY <1>1, <1>2, <1>3 DEF FilesInv, Client
<1>5. LoadInv'
  BY <1>1, <1>2, <1>3 DEF LoadInv
<1>6. ASSUME c \in Updater
      PROVE  /\ pc'[c] = "loaded" => text'[c] = Stored
             /\ pc'[c] \in Saving => text'[c] = Stored \cup {c}
  BY <1>6 DEF Start, CasCompare, Edit, TakeLock, DropLock, Kill, Goto, SaveInv, Saving, Client
<1>7. SaveInv'
  BY <1>1, <1>2, <1>3, <1>6 DEF SaveInv, Client
<1> QED BY <1>4, <1>5, <1>7

LEMMA LoadStep ==
    ASSUME CInv, NEW c \in Client, CasOpen(c) \/ CasRead(c) \/ Load(c) \/ Read(c)
    PROVE  FilesInv' /\ LoadInv' /\ SaveInv'
<1> USE DEF CInv, TypeOK
<1>1. csv' = csv /\ tmp' = tmp /\ content' = content /\ Stored' = Stored
  BY DEF CasOpen, CasRead, Load, Read, OpenCsv, ReadCsv, Stored
<1>2. \A d \in Client \ {c} : pc'[d] = pc[d] /\ text'[d] = text[d] /\ fd'[d] = fd[d]
  BY DEF CasOpen, CasRead, Load, Read, OpenCsv, ReadCsv, Goto
<1>3. pc'[c] \notin Saving /\ pc[c] # "done"
  BY DEF CasOpen, CasRead, Load, Read, OpenCsv, ReadCsv, Goto, Saving
<1>4. FilesInv'
  BY <1>1, <1>2, <1>3 DEF FilesInv, Client
<1>5. pc'[c] \in Loading => fd'[c] = csv /\ csv # None
  BY DEF CasOpen, CasRead, Load, Read, OpenCsv, ReadCsv, Goto, Loading
<1>6. LoadInv'
  BY <1>1, <1>2, <1>5 DEF LoadInv, FilesInv, Stored
<1>7. c \in Updater /\ pc'[c] = "loaded" => text'[c] = Stored
  <2>1. CASE Load(c)
    BY <2>1 DEF Load, OpenCsv, Goto, Stored
  <2>2. CASE Read(c)
    <3>1. content[fd[c]] \in Text /\ (c \in Updater => content[fd[c]] = Stored)
      BY <2>2 DEF LoadInv, Read, ReadCsv, Loading
    <3>2. text'[c] = content[fd[c]]
      BY <2>2, <3>1, ParsedType DEF Read, ReadCsv
    <3> QED BY <3>1, <3>2
  <2>3. CASE CasOpen(c) \/ CasRead(c)
    BY <2>3 DEF CasOpen, CasRead, OpenCsv, ReadCsv, Goto
  <2> QED BY <2>1, <2>2, <2>3
<1>8. SaveInv'
  BY <1>1, <1>2, <1>3, <1>7 DEF SaveInv, Client, Saving
<1> QED BY <1>4, <1>6, <1>8

\* An updater writes a file that is not products.csv and that nobody loads.
LEMMA WriteStep ==
    ASSUME CInv, NEW c \in Client, CreateTmp(c) \/ WriteTmp(c)
    PROVE  /\ FilesInv' /\ LoadInv' /\ SaveInv' /\ Stored' = Stored
           /\ \A d \in Client : pc[d] \in Loading => content'[fd[d]] = content[fd[d]]
<1> USE DEF CInv, TypeOK
<1>1. c \in Updater /\ Running(c) /\ pc[c] \in {"create", "write"} /\ pc'[c] \in {"write", "rename"}
  BY DEF CreateTmp, WriteTmp, Goto, Roles, Running, Ended
<1>2. \A d \in Client \ {c} : pc'[d] = pc[d] /\ text'[d] = text[d] /\ fd'[d] = fd[d]
  BY DEF CreateTmp, WriteTmp, Goto
<1>3. PICK i \in Inode : /\ i # csv /\ tmp' = i
                         /\ \A d \in Client : pc[d] \in Loading => fd[d] # i
                         /\ \A k \in Inode : k # i => content'[k] = content[k]
                         /\ pc'[c] = "write" => fd'[c] = i /\ content'[i] = Torn
                         /\ pc'[c] = "rename" => content'[i] = text[c]
  <2>1. CASE CreateTmp(c)
    <3>1. PICK i \in Inode : /\ IF tmp = None THEN Fresh(i) ELSE i = tmp
                             /\ tmp' = i
                             /\ fd' = [fd EXCEPT ![c] = i]
                             /\ content' = [content EXCEPT ![i] = Torn]
      BY <2>1 DEF CreateTmp
    <3>2. i # csv /\ \A d \in Client : pc[d] \in Loading => fd[d] # i
      BY <3>1, CsvAssumption DEF Fresh, FilesInv, LoadInv
    <3>3. pc'[c] = "write" /\ fd'[c] = i
      BY <2>1, <3>1 DEF CreateTmp, Goto
    <3>5. content'[i] = Torn
      BY <3>1
    <3>4. \A k \in Inode : k # i => content'[k] = content[k]
      BY <3>1
    <3> QED BY <3>1, <3>2, <3>3, <3>4, <3>5
  <2>2. CASE WriteTmp(c)
    <3>1. tmp # None /\ fd[c] = tmp /\ content[tmp] = Torn /\ tmp # csv
      BY <1>1, <2>2, CsvAssumption DEF SaveInv, FilesInv, WriteTmp
    <3>2. content' = [content EXCEPT ![tmp] = text[c]]
      BY <2>2, <3>1 DEF WriteTmp
    <3>3. \A d \in Client : pc[d] \in Loading => fd[d] # tmp
      BY DEF LoadInv
    <3> QED BY <2>2, <3>1, <3>2, <3>3 DEF WriteTmp, Goto
  <2> QED BY <2>1, <2>2
<1>4. csv' = csv /\ text' = text
  BY DEF CreateTmp, WriteTmp
<1>5. Stored' = Stored /\ (csv # None => content'[csv] = content[csv])
  <2>1. csv # None => csv \in Inode /\ csv # i
    BY <1>3
  <2>2. csv # None => content'[csv] = content[csv]
    BY <1>3, <2>1
  <2> QED BY <1>4, <2>2 DEF Stored
<1>6. FilesInv'
  <2>1. \A d \in Updater : pc[d] = "done" => pc'[d] = "done"
    BY <1>1, <1>2 DEF Client
  <2> QED BY <1>3, <1>4, <1>5, <2>1 DEF FilesInv
<1>7. LoadInv'
  <2> SUFFICES ASSUME NEW d \in Client, pc'[d] \in Loading
               PROVE  /\ fd'[d] \in Inode /\ fd'[d] # tmp' /\ content'[fd'[d]] \in Text
                      /\ d \in Updater => content'[fd'[d]] = Stored'
    BY DEF LoadInv
  <2>1. d # c /\ pc[d] \in Loading /\ fd'[d] = fd[d]
    BY <1>1, <1>2 DEF Loading
  <2>2. fd[d] \in Inode /\ fd[d] # i
    BY <1>3, <2>1
  <2>3. content'[fd[d]] = content[fd[d]]
    BY <1>3, <2>2
  <2> QED BY <1>3, <1>5, <2>1, <2>2, <2>3 DEF LoadInv
<1>8. text[c] = Stored \cup {c}
  BY <1>1 DEF SaveInv, Saving
<1>9. \A d \in Updater \ {c} : pc[d] \in Ended
  BY <1>1, OthersEnded
<1>10. SaveInv'
  <2> SUFFICES ASSUME NEW d \in Updater
               PROVE  /\ pc'[d] = "loaded" => text'[d] = Stored'
                      /\ pc'[d] \in Saving => text'[d] = Stored' \cup {d}
                      /\ pc'[d] = "write" => tmp' # None /\ fd'[d] = tmp' /\ content'[tmp'] = Torn
                      /\ pc'[d] = "rename" => tmp' # None /\ content'[tmp'] = text'[d]
    BY DEF SaveInv
  <2>1. CASE d = c
    BY <1>1, <1>3, <1>4, <1>5, <1>8, <2>1, CsvAssumption
  <2>2. CASE d # c
    BY <1>2, <1>9, <2>2 DEF Client, Saving, Ended
  <2> QED BY <2>1, <2>2
<1>11. ASSUME NEW d \in Client, pc[d] \in Loading
       PROVE  content'[fd[d]] = content[fd[d]]
  <2>1. fd[d] \in Inode /\ fd[d] # i
    BY <1>3, <1>11
  <2> QED BY <1>3, <2>1
<1> QED BY <1>5, <1>6, <1>7, <1>10, <1>11

LEMMA RenameStep ==
    ASSUME CInv, NEW c \in Client, RenameTmp(c)
    PROVE  /\ FilesInv' /\ LoadInv' /\ SaveInv'
           /\ c \in Updater /\ pc'[c] = "done" /\ Stored' = Stored \cup {c}
<1> USE DEF CInv, TypeOK
<1>1. c \in Updater /\ pc[c] = "rename" /\ Running(c)
  BY DEF RenameTmp, Roles, Running, Ended
<1>2. tmp # None /\ content[tmp] = text[c] /\ text[c] = Stored \cup {c}
  BY <1>1 DEF SaveInv, Saving
<1>3. csv' = tmp /\ tmp' = None /\ pc' = [pc EXCEPT ![c] = "done"]
  BY <1>2 DEF RenameTmp, Goto
<1>4. content' = content /\ fd' = fd /\ text' = text
  BY DEF RenameTmp
<1>5. Stored' = Stored \cup {c}
  BY <1>2, <1>3, <1>4 DEF Stored
<1>6. \A d \in Updater \ {c} : pc[d] \in Ended
  BY <1>1, OthersEnded
<1>7. FilesInv'
  BY <1>1, <1>2, <1>3, <1>4, <1>5 DEF FilesInv, Client
<1>8. LoadInv'
  BY <1>1, <1>3, <1>4, <1>6, CsvAssumption DEF LoadInv, Loading, Ended
<1>9. SaveInv'
  BY <1>3, <1>4, <1>6 DEF SaveInv, Saving, Ended, Client
<1> QED BY <1>1, <1>3, <1>5, <1>7, <1>8, <1>9

LEMMA InitInv == Init => CInv
<1> SUFFICES ASSUME Init PROVE CInv
  OBVIOUS
<1>1. Stored = {}
  BY CsvAssumption DEF Init, Stored
<1>2. Alone /\ Roles
  <2>1. \A c \in Client : pc[c] = "idle" /\ ~Running(c)
    BY DEF Init, Running, Ended
  <2> QED BY <2>1 DEF Alone, Roles, Client
<1>3. FilesInv
  BY <1>1, CsvAssumption DEF Init, FilesInv, Text
<1>4. LoadInv /\ SaveInv
  BY DEF Init, LoadInv, SaveInv, Loading, Saving, Client
<1> QED BY <1>2, <1>3, <1>4, InitType DEF CInv

\* The invariant behind SerialStore: whatever reads beside it and whatever is
\* killed, an update that runs alone works on its own file until the rename.
THEOREM SerialInv == ASSUME OneAtATime PROVE Spec => []CInv
<1>1. CInv /\ [Next]_vars => CInv'
  <2> SUFFICES ASSUME CInv, [Next]_vars PROVE CInv'
    OBVIOUS
  <2>1. ASSUME NEW c \in Client, Start(c) \/ Step(c) \/ Kill(c) PROVE CInv'
    <3>1. TypeOK'
      BY <2>1, StartType, LoadType, SaveType DEF Step, CInv
    <3>2. Alone' /\ Roles'
      BY <2>1, AloneStep DEF CInv
    <3>3. FilesInv' /\ LoadInv' /\ SaveInv'
      BY <2>1, MemoryStep, LoadStep, WriteStep, RenameStep DEF Step
    <3> QED BY <3>1, <3>2, <3>3 DEF CInv
  <2>2. CASE UNCHANGED vars
    BY <2>2 DEF vars, CInv, TypeOK, Alone, Roles, FilesInv, LoadInv, SaveInv, Running, Stored
  <2> QED BY <2>1, <2>2 DEF Next
<1> QED BY <1>1, InitInv, PTL DEF Spec

View == [c \in Client |-> ViewOf(c)]

\* The other clients keep what they have loaded.
LEMMA ViewOfOthers ==
    ASSUME CInv, NEW c \in Client, Start(c) \/ Step(c) \/ Kill(c), NEW d \in Client \ {c}
    PROVE  ViewOf(d)' = ViewOf(d)
<1>1. pc'[d] = pc[d] /\ text'[d] = text[d] /\ fd'[d] = fd[d]
  BY DEF CInv, TypeOK, Step, Start, CasOpen, CasRead, CasCompare, Load, Read, OpenCsv,
     ReadCsv, Edit, TakeLock, DropLock, CreateTmp, WriteTmp, RenameTmp, Kill, Goto
<1>2. pc[d] \in Loading => content'[fd[d]] = content[fd[d]]
  <2>1. CASE CreateTmp(c) \/ WriteTmp(c)
    BY <2>1, WriteStep
  <2>2. CASE ~(CreateTmp(c) \/ WriteTmp(c))
    BY <2>2 DEF Step, Start, CasOpen, CasRead, CasCompare, Load, Read, OpenCsv,
       ReadCsv, Edit, TakeLock, DropLock, RenameTmp, Kill
  <2> QED BY <2>1, <2>2
<1> QED BY <1>1, <1>2 DEF ViewOf

\* A read returns what the open found; no client has its own edit in it.
LEMMA ReadView ==
    ASSUME CInv, NEW c \in Client, CasRead(c) \/ Read(c)
    PROVE  ViewOf(c)' = ViewOf(c) /\ Stored' = Stored
<1>1. pc[c] \in Loading /\ pc[c] # "done"
  BY DEF CasRead, Read, ReadCsv, Loading
<1>2. content[fd[c]] \in Text /\ c \notin content[fd[c]]
  BY <1>1 DEF CInv, LoadInv, FilesInv, Text
<1>3. text'[c] = content[fd[c]]
  BY <1>2, ParsedType DEF CInv, TypeOK, CasRead, Read, ReadCsv
<1>4. pc'[c] \in {"cas", "loaded"}
  BY DEF CInv, TypeOK, CasRead, Read, ReadCsv, Goto
<1>5. text'[c] \ {c} = content[fd[c]]
  BY <1>2, <1>3
<1> QED BY <1>1, <1>4, <1>5 DEF ViewOf, Loading, CasRead, Read, ReadCsv, Stored

LEMMA OpenView ==
    ASSUME CInv, NEW c \in Client, CasOpen(c) \/ Load(c)
    PROVE  ViewOf(c)' = Stored /\ Stored' = Stored
<1>1. csv' = csv /\ content' = content
  BY DEF CasOpen, Load, OpenCsv
<1>2. CASE csv = None
  <2>1. text'[c] = {} /\ pc'[c] \in {"cas", "loaded"}
    BY <1>2 DEF CInv, TypeOK, CasOpen, Load, OpenCsv, Goto
  <2> QED BY <1>1, <1>2, <2>1 DEF ViewOf, Stored, Loading
<1>3. CASE csv # None
  <2>1. fd'[c] = csv /\ pc'[c] \in Loading
    BY <1>3 DEF CInv, TypeOK, CasOpen, Load, OpenCsv, Goto, Loading
  <2> QED BY <1>1, <1>3, <2>1 DEF ViewOf, Stored, Loading
<1> QED BY <1>2, <1>3

\* The steps at which nothing a caller relies on happens.
LEMMA QuietView ==
    ASSUME CInv, NEW c \in Client,
           \/ Start(c) \/ CasCompare(c) \/ Edit(c) \/ TakeLock(c) \/ DropLock(c)
           \/ CreateTmp(c) \/ WriteTmp(c)
    PROVE  ViewOf(c)' = ViewOf(c) /\ Stored' = Stored
<1>1. pc[c] \notin Loading \cup {"killed"} /\ pc'[c] \notin Loading \cup {"killed"}
  BY DEF CInv, TypeOK, Start, CasCompare, Edit, TakeLock, DropLock, CreateTmp, WriteTmp,
     Goto, Loading
<1>2. text'[c] \ {c} = text[c] \ {c}
  BY DEF CInv, TypeOK, Start, CasCompare, Edit, TakeLock, DropLock, CreateTmp, WriteTmp
<1>3. Stored' = Stored
  <2>1. CASE CreateTmp(c) \/ WriteTmp(c)
    BY <2>1, WriteStep
  <2>2. CASE ~(CreateTmp(c) \/ WriteTmp(c))
    BY <2>2 DEF Start, CasCompare, Edit, TakeLock, DropLock, Stored
  <2> QED BY <2>1, <2>2
<1> QED BY <1>1, <1>2, <1>3 DEF ViewOf

LEMMA StepImplements ==
    ASSUME CInv, NEW c \in Client, Start(c) \/ Step(c) \/ Kill(c)
    PROVE  [Promise!Next]_(Promise!svars)
<1>1. View' = [View EXCEPT ![c] = ViewOf(c)']
  BY ViewOfOthers DEF View
<1>2. CASE \/ Start(c) \/ CasCompare(c) \/ Edit(c) \/ TakeLock(c) \/ DropLock(c)
           \/ CreateTmp(c) \/ WriteTmp(c) \/ CasRead(c) \/ Read(c)
  <2>1. ViewOf(c)' = ViewOf(c) /\ Stored' = Stored
    BY <1>2, QuietView, ReadView
  <2>2. View' = View
    BY <1>1, <2>1 DEF View
  <2> QED BY <2>1, <2>2 DEF View, Promise!svars
<1>3. CASE CasOpen(c) \/ Load(c)
  <2>1. Promise!Load(c)
    BY <1>1, <1>3, OpenView DEF View, Promise!Load
  <2> QED BY <2>1 DEF Promise!Next
<1>4. CASE RenameTmp(c)
  <2>1. c \in Updater /\ Stored' = Stored \cup {c} /\ pc'[c] = "done"
    BY <1>4, RenameStep
  <2>2. ViewOf(c)' = ViewOf(c)
    BY <1>4, <2>1 DEF RenameTmp, ViewOf, Loading
  <2>3. View' = View
    BY <1>1, <2>2 DEF View
  <2>4. Promise!Save(c)
    BY <2>1, <2>3 DEF View, Promise!Save
  <2> QED BY <2>1, <2>4 DEF Promise!Next
<1>5. CASE Kill(c)
  <2>1. pc'[c] = "killed" /\ Stored' = Stored
    BY <1>5 DEF CInv, TypeOK, Kill, Goto, Stored
  <2>2. ViewOf(c)' = {}
    BY <2>1 DEF ViewOf, Loading
  <2>3. Promise!Forget(c)
    BY <1>1, <2>1, <2>2 DEF View, Promise!Forget
  <2> QED BY <2>3 DEF Promise!Next
<1> QED BY <1>2, <1>3, <1>4, <1>5 DEF Step

\* Updates that run one at a time, with any number of readers beside them and
\* kills anywhere, use products.csv as one text that is loaded and replaced in
\* single steps and loses no edit.
THEOREM SerialStore == ASSUME OneAtATime PROVE Spec => ImplementsStore
<1>1. Init => Promise!Init
  BY CsvAssumption DEF Init, Promise!Init, Stored, ViewOf, Loading
<1>2. CInv /\ [Next]_vars => [Promise!Next]_(Promise!svars)
  <2> SUFFICES ASSUME CInv, [Next]_vars PROVE [Promise!Next]_(Promise!svars)
    OBVIOUS
  <2>1. CASE Next
    BY <2>1, StepImplements DEF Next
  <2>2. CASE UNCHANGED vars
    BY <2>2 DEF vars, Promise!svars, Stored, ViewOf
  <2> QED BY <2>1, <2>2
<1> QED BY <1>1, <1>2, SerialInv, PTL DEF Spec, ImplementsStore, Promise!Spec
=============================================================================
