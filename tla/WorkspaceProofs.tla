-------------------------- MODULE WorkspaceProofs ---------------------------
(* Theorems about Workspace for every set of edits, every clock, every bound *)
(* on logs and places, every choice of --keep and every hash function.       *)
EXTENDS Workspace, FiniteSetTheorems, SequenceTheorems, TLAPS

-----------------------------------------------------------------------------
(* The invariant, part one: it holds whether or not the operator is careful. *)
IsSeq(s) == \E S : s \in Seq(S)
Pending(s) == {s[i] : i \in DOMAIN s}

\* What the variables are beyond TypeOK.
Job == [op : {"none", "tx begin", "tx commit", "tx abort", "snapshot create", "snapshot restore",
              "snapshot prune", "archive create", "archive extract", "backup", "restore"},
        from : Place, to : Place]
Shape ==
    /\ disk = [p \in Place |-> [f \in File |-> disk[p][f]]]
    /\ job \in Job
    /\ todo \in Seq(File)
    /\ Backups \notin there
Logs == \A p \in Place :
    disk[p]["audit.log"] \notin {Missing, Torn} => IsSeq(disk[p]["audit.log"])

\* The three kinds of commands: those that make a copy of the dataset, those
\* that install one, and those that remove one.
Makes(j) ==
    /\ j.from = Dir
    /\ \/ j.op = "tx begin" /\ j.to = Tx
       \/ j.op = "archive create" /\ j.to = Archive
       \/ j.op = "snapshot create" /\ \E t \in Time : j.to = Snapshot(t)
       \/ j.op = "backup" /\ \E t \in Time : j.to = Backup(t)
Installs(j) ==
    /\ j.to = Dir
    /\ \/ j.op = "tx commit" /\ j.from = Tx
       \/ j.op = "archive extract" /\ j.from = Archive
       \/ j.op \in {"snapshot restore", "restore"} /\ \E t \in Time : j.from = Snapshot(t)
       \/ j.op = "restore" /\ j.from = Backups
Removes(j) ==
    \/ j.op = "tx commit" /\ j.from = Tx /\ j.to = Tx
    \/ j.op = "tx abort" /\ j.to = Tx
    \/ j.op = "snapshot prune" /\ \E t \in Time : j.to = Snapshot(t)

\* What runs, or was killed.
Jobs ==
    /\ killed => Idle
    /\ Idle /\ ~killed => job = NoJob
    /\ killed => /\ job.to \in partial
                 /\ Installs(job) \/ (job.to = Tx /\ (Makes(job) \/ Removes(job)))
    /\ pc = "copy" => /\ Makes(job) \/ Installs(job)
                      /\ job.to \in partial
                      /\ job.op = "tx commit" => Tx \in there
                      /\ Pending(todo) \subseteq Csv
                         \/ job.op \in {"tx begin", "archive create", "archive extract"}
    /\ pc = "remove" => /\ Removes(job) /\ job.to \in partial
                        /\ job.op = "tx commit" => Dir \notin partial
    /\ pc = "prune" => job.op = "backup"
    /\ pc = "audit" /\ job.op = "tx commit" =>
        (Tx \notin there \/ Tx \in flawed) /\ Dir \notin partial /\ Tx \notin partial

\* Unless its copy failed, a file that has been copied, or skipped, is like its
\* source, and its source is as good as what was copied there.
Same == pc = "copy" /\ job.to \notin flawed =>
    /\ job.from \notin flawed
    /\ \A f \in Csv \ Pending(todo) :
         disk[job.from][f] # Missing => disk[job.to][f] = disk[job.from][f]

\* No command removes a file of the dataset; a complete backup has its products
\* as long as it is there, and no backup has an audit log.
Present ==
    /\ \A f \in Csv : disk[Dir][f] # Missing
    /\ \A t \in Time :
        /\ disk[Backup(t)]["audit.log"] = Missing
        /\ Complete(Backup(t)) => disk[Backup(t)]["products.csv"] # Missing

IInv == TypeOK /\ Shape /\ Logs /\ AuditIntact /\ Jobs /\ Same /\ Present

-----------------------------------------------------------------------------
(* The invariant, part two: of a careful operator.                           *)
\* Whose copy is under way, or was cut short.
Under ==
    /\ Dir \in partial => Installs(job) /\ (pc = "copy" \/ killed)
    /\ Tx \in partial => /\ job.op \in {"tx begin", "tx commit", "tx abort"}
                         /\ pc \in {"copy", "remove"} \/ killed

\* Where no copy is under way, or has failed, no file is torn or missing; what
\* is being installed is not torn, and what it lacks the dataset has.
Unbroken ==
    /\ Dir \notin partial \cup flawed => \A f \in Csv : disk[Dir][f] # Torn
    /\ Dir \in partial \ flawed => \A f \in Csv :
         /\ disk[job.from][f] # Torn
         /\ disk[job.from][f] = Missing => disk[Dir][f] # Torn
    /\ \A p \in Slot \cup {Tx} : Complete(p) =>
         \A f \in Csv : disk[p][f] \notin {Torn, Missing}

\* Once a commit has installed the working copy, what is left of that is alike.
Remains ==
    job.op = "tx commit" /\ Tx \in partial /\ Dir \notin partial \cup flawed =>
        \A f \in Csv : disk[Tx][f] \in {Missing, disk[Dir][f]}

WInv == Under /\ Unbroken /\ Remains

-----------------------------------------------------------------------------
(* Lemmas: places, files, sequences, logs.                                   *)
LEMMA PlaceFacts ==
    /\ {Dir, Tx, Archive, Backups} \subseteq Place
    /\ \A t \in Time : {Snapshot(t), Backup(t)} \subseteq Place
    /\ Dir # Tx /\ Dir # Archive /\ Dir # Backups
    /\ Tx # Archive /\ Tx # Backups /\ Archive # Backups
    /\ \A t : /\ Snapshot(t) \notin {Dir, Tx, Archive, Backups}
              /\ Backup(t) \notin {Dir, Tx, Archive, Backups}
    /\ \A t, u : Snapshot(t) # Backup(u)
    /\ \A t, u : Backup(t) = Backup(u) => t = u
  BY DEF Place, Slot, Dir, Tx, Archive, Backups, Snapshot, Backup

LEMMA SlotFacts ==
    /\ Slot \subseteq Place /\ Archive \in Slot
    /\ \A t \in Time : Snapshot(t) \in Slot
    /\ Slot \cap {Dir, Tx, Backups} = {}
    /\ \A t : Backup(t) \notin Slot
    /\ \A s \in Slot : s = Archive \/ \E t \in Time : s = Snapshot(t)
  BY PlaceFacts DEF Place, Slot

LEMMA KindFacts ==
    \A p \in Place : IF p[1] = "backup" THEN p[2] \in Time /\ p = Backup(p[2])
                                        ELSE \A t : p # Backup(t)
  BY DEF Place, Slot, Dir, Tx, Archive, Backups, Snapshot, Backup

LEMMA FileFacts == /\ File = {"products.csv", "orders.csv", "audit.log"}
                   /\ Csv = {"products.csv", "orders.csv"} /\ Csv \subseteq File
                   /\ "audit.log" \notin Csv /\ File = Csv \cup {"audit.log"}
  BY DEF File, Csv

LEMMA FilesFacts ==
    /\ Both \in Seq(File) /\ Both # <<>> /\ Pending(Both) = Csv
    /\ WithAudit \in Seq(File) /\ WithAudit # <<>> /\ Pending(WithAudit) = File
<1>1. Both = <<"products.csv", "orders.csv">>
  BY DEF Both
<1>2. WithAudit = Both \o <<"audit.log">>
  BY DEF WithAudit
<1>3. <<"audit.log">> \in Seq(File) /\ Both \in Seq(File)
  BY <1>1 DEF File, Csv
<1>4. WithAudit \in Seq(File) /\ Len(WithAudit) = 3
  BY <1>1, <1>2, <1>3
<1>5. WithAudit[1] = "products.csv" /\ WithAudit[2] = "orders.csv" /\ WithAudit[3] = "audit.log"
  BY <1>1, <1>2, <1>3
<1>6. Pending(WithAudit) = File
  <2>1. DOMAIN WithAudit = {1, 2, 3}
    BY <1>4
  <2> QED BY <1>5, <2>1 DEF Pending, File, Csv
<1> QED BY <1>1, <1>3, <1>4, <1>6, SMTT(30) DEF Pending, Csv

LEMMA Pop ==
    ASSUME NEW s \in Seq(File), s # <<>>
    PROVE  /\ Head(s) \in File /\ Head(s) \in Pending(s)
           /\ Tail(s) \in Seq(File)
           /\ Pending(s) = {Head(s)} \cup Pending(Tail(s))
<1>1. Head(s) = s[1] /\ 1 \in DOMAIN s /\ Tail(s) \in Seq(File) /\ Len(s) \in Nat \ {0}
  OBVIOUS
<1>2. DOMAIN s = 1 .. Len(s) /\ DOMAIN Tail(s) = 1 .. Len(s) - 1
  OBVIOUS
<1>3. \A i \in DOMAIN Tail(s) : Tail(s)[i] = s[i + 1] /\ i + 1 \in DOMAIN s
  BY <1>2
<1>4. \A i \in DOMAIN s : i = 1 \/ (i - 1 \in DOMAIN Tail(s) /\ Tail(s)[i - 1] = s[i])
  BY <1>1, <1>2
<1>5. Pending(s) \subseteq {Head(s)} \cup Pending(Tail(s))
  <2>1. ASSUME NEW i \in DOMAIN s PROVE s[i] = Head(s) \/ \E k \in DOMAIN Tail(s) : Tail(s)[k] = s[i]
    BY <1>1, <1>4
  <2> QED BY <2>1 DEF Pending
<1>6. {Head(s)} \cup Pending(Tail(s)) \subseteq Pending(s)
  BY <1>1, <1>3 DEF Pending
<1> QED BY <1>1, <1>5, <1>6

LEMMA NonePending == Pending(<<>>) = {} /\ <<>> \in Seq(File)
<1>1. Pending(<<>>) = {}
  BY DEF Pending
<1>2. <<>> \in Seq(File)
  OBVIOUS
<1> QED BY <1>1, <1>2

\* What a step that changes one file leaves.
PutAt(p, f, x) == disk' = [disk EXCEPT ![p][f] = x]
LEMMA PutEffect ==
    ASSUME Shape, NEW p \in Place, NEW f \in File, NEW x, PutAt(p, f, x)
    PROVE  /\ disk'[p][f] = x
           /\ \A q \in Place, g \in File : q # p \/ g # f => disk'[q][g] = disk[q][g]
           /\ \A q \in Place : q # p => disk'[q] = disk[q]
           /\ disk' = [q \in Place |-> [g \in File |-> disk'[q][g]]]
<1>1. DOMAIN disk = Place /\ \A q \in Place : DOMAIN disk[q] = File
  BY DEF Shape
<1>2. disk' = [q \in Place |-> IF q = p THEN [disk[p] EXCEPT ![f] = x] ELSE disk[q]]
  BY <1>1 DEF PutAt
<1>3. \A q \in Place : disk'[q] = [g \in File |-> disk'[q][g]]
  <2> SUFFICES ASSUME NEW q \in Place PROVE disk'[q] = [g \in File |-> disk'[q][g]]
    OBVIOUS
  <2>1. CASE q = p
    BY <1>1, <1>2, <2>1
  <2>2. CASE q # p
    <3>1. disk'[q] = disk[q]
      BY <1>2, <2>2
    <3>2. disk[q] = [g \in File |-> disk[q][g]]
      BY DEF Shape
    <3> QED BY <3>1, <3>2
  <2> QED BY <2>1, <2>2
<1>4. DOMAIN disk' = Place
  BY <1>2
<1>5. disk' = [q \in Place |-> disk'[q]]
  BY <1>2
<1> QED BY <1>1, <1>2, <1>3, <1>5

\* A log of its own, torn or not: what IInv says of every place.
Good(x) == /\ IsLog(x)
           /\ x \notin {Missing, Torn} => IsSeq(x)
           /\ x # Torn => AuditVerify(x)

LEMMA AllGood == IInv => \A p \in Place : Good(disk[p]["audit.log"])
  BY DEF IInv, TypeOK, Logs, AuditIntact, Good

LEMMA NoLogIsGood == Good(Missing) /\ Good(Torn)
<1>1. Verify(<<>>)
  BY DEF Verify
<1> QED BY <1>1, WorkspaceAssumption DEF Good, IsLog, AuditVerify, Entries

\* A sequence one longer: what Append leaves and what it adds.
LEMMA AppendShape ==
    ASSUME NEW s, IsSeq(s), NEW e
    PROVE  /\ IsSeq(Append(s, e))
           /\ Len(s) \in Nat /\ DOMAIN s = 1 .. Len(s)
           /\ Len(Append(s, e)) = Len(s) + 1
           /\ DOMAIN Append(s, e) = 1 .. Len(s) + 1
           /\ \A i \in 1 .. Len(s) : Append(s, e)[i] = s[i]
           /\ Append(s, e)[Len(s) + 1] = e
<1>1. PICK S : s \in Seq(S)
  BY DEF IsSeq
<1>2. s \in Seq(S \cup {e}) /\ Append(s, e) \in Seq(S \cup {e})
  BY <1>1
<1> QED BY <1>2 DEF IsSeq

\* An entry chained to the last hash keeps a log that verifies so.
LEMMA AppendGood ==
    ASSUME NEW x, Good(x)
    PROVE  Good(Appended(x))
<1>1. CASE x = Torn
  BY <1>1, NoLogIsGood DEF Appended
<1>2. CASE x # Torn
  <2> DEFINE s == Entries(x)
             e == Entry(LastHash(s), "op")
             a == Append(s, e)
  <2>1. IsSeq(s)
    <3>1. <<>> \in Seq({})
      OBVIOUS
    <3> QED BY <1>2, <3>1 DEF Good, Entries, IsSeq
  <2>2. /\ IsSeq(a) /\ Len(s) \in Nat /\ DOMAIN s = 1 .. Len(s)
        /\ Len(a) = Len(s) + 1 /\ DOMAIN a = 1 .. Len(s) + 1
        /\ \A i \in 1 .. Len(s) : a[i] = s[i]
        /\ a[Len(s) + 1] = e
    BY <2>1, AppendShape
  <2>3. e.prev = LastHash(s) /\ e.hash = Hash(e.prev, e.body) /\ e.body = "op"
    BY DEF Entry
  <2>4. \A i \in DOMAIN s : s[i].body = "op"
    <3>1. \A i \in DOMAIN <<>> : <<>>[i].body = "op"
      OBVIOUS
    <3> QED BY <1>2, <3>1 DEF Good, IsLog, Entries
  <2>5. Verify(s)
    BY <1>2 DEF Good, AuditVerify
  <2>6. Appended(x) = a
    BY <1>2 DEF Appended
  <2>7. LastHash(s) = IF Len(s) = 0 THEN Genesis ELSE s[Len(s)].hash
    BY <2>1, <2>2 DEF LastHash, IsSeq
  <2> HIDE DEF a, e, s
  <2>8. IsLog(a)
    BY <2>2, <2>3, <2>4 DEF IsLog
  <2>9. Verify(a)
    <3> SUFFICES ASSUME NEW i \in 1 .. Len(a)
                 PROVE  /\ a[i].prev = PrevOf(a, i)
                        /\ a[i].hash = Hash(a[i].prev, a[i].body)
      BY DEF Verify
    <3>1. CASE i \in 1 .. Len(s)
      <4>1. PrevOf(a, i) = PrevOf(s, i)
        BY <2>2, <3>1 DEF PrevOf
      <4> QED BY <2>2, <2>5, <3>1, <4>1 DEF Verify
    <3>2. CASE i = Len(s) + 1
      <4>1. PrevOf(a, i) = LastHash(s)
        BY <2>2, <2>7, <3>2 DEF PrevOf
      <4> QED BY <2>2, <2>3, <3>2, <4>1
    <3> QED BY <2>2, <3>1, <3>2
  <2>10. a # Torn => AuditVerify(a)
    <3>1. Entries(a) = a \/ Entries(a) = <<>>
      BY DEF Entries
    <3>2. Verify(<<>>)
      BY DEF Verify
    <3> QED BY <2>9, <3>1, <3>2 DEF AuditVerify
  <2> QED BY <2>2, <2>6, <2>8, <2>10 DEF Good
<1> QED BY <1>1, <1>2

-----------------------------------------------------------------------------
(* The invariant in parts: what is on disk, the other variables, and how     *)
(* they go together.                                                         *)
Fit == /\ disk = [p \in Place |-> [f \in File |-> disk[p][f]]]
       /\ \A p \in Place : Good(disk[p]["audit.log"])
       /\ \A p \in Place, f \in Csv : disk[p][f] \in Text
Vars == /\ there \subseteq Place /\ Dir \in there /\ Backups \notin there
        /\ partial \subseteq there /\ flawed \subseteq there
        /\ job \in Job
        /\ pc \in {"idle", "copy", "remove", "prune", "audit"}
        /\ todo \in Seq(File) /\ (todo # <<>> => pc = "copy")
        /\ killed \in BOOLEAN /\ now \in Time
Absent == \A p \in Place \ there : disk[p] = Nothing

LEMMA Parts == IInv => Fit /\ Vars /\ Absent /\ Jobs /\ Same /\ Present
  BY AllGood DEF IInv, TypeOK, Shape, Fit, Vars, Absent

LEMMA Together ==
    Fit' /\ Vars' /\ Absent' /\ Jobs' /\ Same' /\ Present' => IInv'
<1> SUFFICES ASSUME Fit', Vars', Absent', Jobs', Same', Present' PROVE IInv'
  OBVIOUS
<1>1. (\A p \in Place : IsLog(disk[p]["audit.log"]))' /\ Logs' /\ AuditIntact'
  BY DEF Fit, Good, Logs, AuditIntact
<1>2. TypeOK'
  BY <1>1 DEF Fit, Vars, Absent, TypeOK, Job
<1>3. Shape'
  BY DEF Fit, Vars, Shape
<1> QED BY <1>1, <1>2, <1>3 DEF IInv

LEMMA NothingFacts == Nothing = [f \in File |-> Missing] /\ \A f \in File : Nothing[f] = Missing
  BY DEF Nothing

LEMMA TextFacts ==
    /\ Missing \in Text /\ Torn \in Text
    /\ \A x \in Text \ {Missing, Torn} : x \in SUBSET Edit
    /\ \A x \in SUBSET Edit : x \in Text /\ x # Missing /\ x # Torn
  BY WorkspaceAssumption DEF Text

LEMMA InitInv == Init => IInv
<1> SUFFICES ASSUME Init PROVE IInv
  OBVIOUS
<1>1. /\ disk = [p \in Place |-> [f \in File |-> disk[p][f]]]
      /\ \A p \in Place, f \in File :
            disk[p][f] = IF p = Dir /\ f \in Csv THEN {} ELSE Missing
  BY FileFacts DEF Init, Nothing
<1>2. \A p \in Place : disk[p]["audit.log"] = Missing
  BY <1>1, FileFacts
<1>3. \A p \in Place, f \in Csv : disk[p][f] \in Text
  <2>1. {} \in Text
    BY DEF Text
  <2> QED BY <1>1, <2>1, FileFacts, TextFacts
<1>4. TypeOK
  <2>1. \A p \in Place : IsLog(disk[p]["audit.log"])
    BY <1>2 DEF IsLog
  <2>2. \A p \in Place \ there : disk[p] = Nothing
    BY DEF Init
  <2>3. there \subseteq Place /\ Dir \in there /\ partial \subseteq there /\ flawed \subseteq there
    BY PlaceFacts DEF Init
  <2>4. job.from \in Place /\ job.to \in Place
    BY PlaceFacts DEF Init, NoJob
  <2>5. pc = "idle" /\ todo = <<>> /\ killed \in BOOLEAN
    BY DEF Init
  <2>6. now \in Time
    BY WorkspaceAssumption DEF Init, Time
  <2> QED BY <1>3, <2>1, <2>2, <2>3, <2>4, <2>5, <2>6 DEF TypeOK
<1>5. Shape
  <2>1. job \in Job /\ todo \in Seq(File)
    <3>1. job = [op |-> "none", from |-> Dir, to |-> Dir] /\ todo = <<>>
      BY DEF Init, NoJob
    <3>2. Dir \in Place
      BY PlaceFacts
    <3>3. <<>> \in Seq(File)
      OBVIOUS
    <3>4. [op |-> "none", from |-> Dir, to |-> Dir] \in Job
      BY <3>2 DEF Job
    <3> QED BY <3>1, <3>3, <3>4
  <2> QED BY <1>1, <2>1, PlaceFacts DEF Init, Shape
<1>6. Logs /\ AuditIntact
  BY <1>2, NoLogIsGood DEF Logs, AuditIntact, Good
<1>7. Jobs /\ Same
  BY DEF Init, Jobs, Same, Idle
<1>8. Present
  <2>1. there = {Dir} /\ \A t \in Time : ~Complete(Backup(t))
    BY PlaceFacts DEF Init, Complete
  <2> QED BY <1>1, <1>2, <2>1, PlaceFacts, FileFacts, WorkspaceAssumption DEF Present
<1> QED BY <1>4, <1>5, <1>6, <1>7, <1>8 DEF IInv

\* A step that changes one file, and fits.
LEMMA PutFit ==
    ASSUME IInv, NEW p \in Place, NEW f \in File, NEW x, PutAt(p, f, x),
           f \in Csv => x \in Text, f = "audit.log" => Good(x)
    PROVE  Fit'
<1>1. Fit /\ Shape
  BY Parts DEF IInv
<1>2. /\ disk'[p][f] = x
      /\ \A q \in Place, g \in File : q # p \/ g # f => disk'[q][g] = disk[q][g]
      /\ disk' = [q \in Place |-> [g \in File |-> disk'[q][g]]]
  BY <1>1, PutEffect
<1>3. \A q \in Place : Good(disk'[q]["audit.log"])
  BY <1>1, <1>2, FileFacts DEF Fit
<1>4. \A q \in Place, g \in Csv : disk'[q][g] \in Text
  BY <1>1, <1>2, FileFacts DEF Fit
<1> QED BY <1>2, <1>3, <1>4 DEF Fit

LEMMA SameDisk == ASSUME IInv, disk' = disk PROVE Fit'
  BY Parts DEF Fit

LEMMA JobType == NoJob \in Job
  BY PlaceFacts DEF NoJob, Job

\* What a command that copies is when it starts.
Copies(j, files) ==
    /\ j \in Job
    /\ Makes(j) \/ Installs(j)
    /\ j.op = "tx commit" => Tx \in there
    /\ \/ files = Both
       \/ files = WithAudit /\ j.op \in {"tx begin", "archive create", "archive extract"}

\* What a start makes of the places that are flawed.
LEMMA StartFlawed ==
    ASSUME NEW op, NEW from, NEW to, NEW files, Start(op, from, to, files)
    PROVE  /\ \A p : p # to => (p \in flawed' <=> p \in flawed)
           /\ from \in flawed => to \in flawed'
           /\ to \notin flawed' => \/ /\ from \in there \ (partial \cup flawed)
                                      /\ ~(op = "tx commit" /\ killed)
                                   \/ to \notin flawed /\ from \notin flawed
           /\ from \in there \ (partial \cup flawed) /\ ~(op = "tx commit" /\ killed)
                => to \notin flawed'
           /\ flawed' \subseteq flawed \cup {to}
  BY DEF Start, FlawedBy

\* A command that copies may always start.
LEMMA StartInv ==
    ASSUME IInv, NEW op, NEW from, NEW to, NEW files, Start(op, from, to, files),
           Copies([op |-> op, from |-> from, to |-> to], files)
    PROVE  IInv'
<1> DEFINE j == [op |-> op, from |-> from, to |-> to]
<1>1. Fit /\ Vars /\ Absent /\ Jobs /\ Same /\ Present
  BY Parts
<1>2. /\ pc' = "copy" /\ job' = j /\ todo' = files /\ killed' = FALSE
      /\ there' = there \cup {j.to} /\ partial' = partial \cup {j.to}
      /\ disk' = disk /\ now' = now
  BY DEF Start
<1>3. j \in Job /\ (Makes(j) \/ Installs(j)) /\ (j.op = "tx commit" => Tx \in there)
  BY DEF Copies
<1>4. files \in Seq(File)
      /\ (Pending(files) \subseteq Csv
          \/ j.op \in {"tx begin", "archive create", "archive extract"})
      /\ Csv \subseteq Pending(files)
  BY FilesFacts, FileFacts DEF Copies
<1> HIDE DEF j
<1>5. j.to \in Place /\ j.to # Backups /\ j.from # j.to
  BY <1>3, PlaceFacts DEF Job, Makes, Installs
<1>6. /\ \A p : p # j.to => (p \in flawed' <=> p \in flawed)
      /\ j.from \in flawed => j.to \in flawed'
      /\ flawed' \subseteq flawed \cup {j.to}
  BY StartFlawed DEF j
<1>7. Fit'
  BY <1>2, SameDisk
<1>8. Vars'
  BY <1>1, <1>2, <1>3, <1>4, <1>5, <1>6 DEF Vars
<1>9. Absent'
  BY <1>1, <1>2 DEF Absent
<1>10. Jobs'
  BY <1>2, <1>3, <1>4 DEF Jobs, Idle
<1>11. Same'
  BY <1>2, <1>4, <1>5, <1>6 DEF Same
<1>12. Present'
  <2>1. \A p : p \in there' \ (partial' \cup flawed') => p \in there \ (partial \cup flawed)
    BY <1>2, <1>6
  <2> QED BY <1>1, <1>2, <2>1 DEF Present, Complete
<1> QED BY <1>7, <1>8, <1>9, <1>10, <1>11, <1>12, Together

\* A command that removes a place it has found may always start.
LEMMA RemoveInv ==
    ASSUME IInv, NEW op, NEW p, Remove(op, p), p \in there,
           [op |-> op, from |-> Dir, to |-> p] \in Job, Removes([op |-> op, from |-> Dir, to |-> p]),
           op # "tx commit"
    PROVE  IInv'
<1> DEFINE j == [op |-> op, from |-> Dir, to |-> p]
<1>1. Fit /\ Vars /\ Absent /\ Jobs /\ Same /\ Present
  BY Parts
<1>2. /\ pc' = "remove" /\ job' = j /\ todo' = <<>> /\ killed' = FALSE
      /\ partial' = partial \cup {j.to} /\ UNCHANGED <<disk, there, flawed, now>>
  BY DEF Remove
<1>3. j \in Job /\ Removes(j) /\ j.to \in there /\ j.op # "tx commit"
  <2>1. j.op = op /\ j.to = p
    OBVIOUS
  <2>2. j \in Job
    OBVIOUS
  <2>3. Removes(j)
    OBVIOUS
  <2> HIDE DEF j
  <2> QED BY <2>1, <2>2, <2>3
<1> HIDE DEF j
<1>4. Fit'
  BY <1>2, SameDisk
<1>5. Vars'
  BY <1>1, <1>2, <1>3, NonePending DEF Vars
<1>6. Absent'
  BY <1>1, <1>2 DEF Absent
<1>7. Jobs'
  BY <1>2, <1>3 DEF Jobs, Idle
<1>8. Same'
  BY <1>2 DEF Same
<1>9. Present'
  BY <1>1, <1>2 DEF Present, Complete
<1> QED BY <1>4, <1>5, <1>6, <1>7, <1>8, <1>9, Together

\* The commands that start at all, and what they start as.
Starts ==
    \/ TxBegin \/ TxCommit \/ TxAbort
    \/ SnapshotCreate \/ (\E t \in Time : SnapshotRestore(t)) \/ (\E k \in Keep : SnapshotPrune(k))
    \/ ArchiveCreate \/ ArchiveExtract
    \/ MakeBackup \/ (\E p \in {Backups} \cup {Snapshot(t) : t \in Time} : Restore(p))

LEMMA StartsInv == ASSUME IInv, Starts PROVE IInv'
<1> USE PlaceFacts
<1>1. now \in Time
  BY DEF IInv, TypeOK
<1>2. CASE TxBegin
  <2>1. Copies([op |-> "tx begin", from |-> Dir, to |-> Tx], WithAudit)
    BY DEF Copies, Makes, Job
  <2> QED BY <1>2, <2>1, StartInv DEF TxBegin
<1>3. CASE TxCommit
  <2>1. Copies([op |-> "tx commit", from |-> Tx, to |-> Dir], Both)
    BY <1>3 DEF TxCommit, Copies, Installs, Job
  <2> QED BY <1>3, <2>1, StartInv DEF TxCommit
<1>4. CASE TxAbort
  <2>1. [op |-> "tx abort", from |-> Dir, to |-> Tx] \in Job
        /\ Removes([op |-> "tx abort", from |-> Dir, to |-> Tx])
    BY DEF Removes, Job
  <2> QED BY <1>4, <2>1, RemoveInv DEF TxAbort
<1>5. CASE SnapshotCreate
  <2>1. Copies([op |-> "snapshot create", from |-> Dir, to |-> Snapshot(now)], Both)
    BY <1>1 DEF Copies, Makes, Job
  <2> QED BY <1>5, <2>1, StartInv DEF SnapshotCreate
<1>6. ASSUME NEW t \in Time, SnapshotRestore(t) PROVE IInv'
  <2>1. Copies([op |-> "snapshot restore", from |-> Snapshot(t), to |-> Dir], Both)
    BY DEF Copies, Installs, Job
  <2> QED BY <1>6, <2>1, StartInv DEF SnapshotRestore
<1>7. ASSUME NEW k \in Keep, SnapshotPrune(k) PROVE IInv'
  <2>1. PICK t \in Pruned(k) : Remove("snapshot prune", Snapshot(t))
    BY <1>7 DEF SnapshotPrune
  <2>2. t \in Time /\ Snapshot(t) \in there
    BY DEF Pruned
  <2>3. [op |-> "snapshot prune", from |-> Dir, to |-> Snapshot(t)] \in Job
        /\ Removes([op |-> "snapshot prune", from |-> Dir, to |-> Snapshot(t)])
    BY <2>2 DEF Removes, Job
  <2> QED BY <2>1, <2>2, <2>3, RemoveInv
<1>8. CASE ArchiveCreate
  <2>1. Copies([op |-> "archive create", from |-> Dir, to |-> Archive], WithAudit)
    BY DEF Copies, Makes, Job
  <2> QED BY <1>8, <2>1, StartInv DEF ArchiveCreate
<1>9. CASE ArchiveExtract
  <2>1. Copies([op |-> "archive extract", from |-> Archive, to |-> Dir], WithAudit)
    BY DEF Copies, Installs, Job
  <2> QED BY <1>9, <2>1, StartInv DEF ArchiveExtract
<1>10. CASE MakeBackup
  <2>1. Copies([op |-> "backup", from |-> Dir, to |-> Backup(now)], Both)
    BY <1>1 DEF Copies, Makes, Job
  <2> QED BY <1>10, <2>1, StartInv DEF MakeBackup
<1>11. ASSUME NEW p \in {Backups} \cup {Snapshot(t) : t \in Time}, Restore(p) PROVE IInv'
  <2>1. Copies([op |-> "restore", from |-> p, to |-> Dir], Both)
    BY DEF Copies, Installs, Job
  <2> QED BY <1>11, <2>1, StartInv DEF Restore
<1> QED BY <1>2, <1>3, <1>4, <1>5, <1>6, <1>7, <1>8, <1>9, <1>10, <1>11 DEF Starts

\* The steps of a copy.  The two places of the job, and the file that is next.
LEMMA CopyNext ==
    ASSUME IInv, pc = "copy", todo # <<>>
    PROVE  /\ job.from \in Place /\ job.to \in Place /\ job.to \in partial /\ job.to \in there
           /\ Makes(job) \/ Installs(job)
           /\ Head(todo) \in File /\ Tail(todo) \in Seq(File)
           /\ Pending(todo) = {Head(todo)} \cup Pending(Tail(todo))
           /\ job.from # job.to
<1>1. Vars /\ Jobs
  BY Parts
<1>2. todo \in Seq(File) /\ job \in Job /\ job.to \in partial /\ partial \subseteq there
  BY <1>1 DEF Vars, Jobs
<1>3. Makes(job) \/ Installs(job)
  BY <1>1 DEF Jobs
<1>4. job.from # job.to
  BY <1>3, PlaceFacts DEF Makes, Installs
<1> QED BY <1>2, <1>3, <1>4, Pop DEF Job

\* What a step that writes the next file of a copy leaves as it is.
LEMMA CopyKeeps ==
    ASSUME IInv, pc = "copy", todo # <<>>, NEW x, PutAt(job.to, Head(todo), x),
           Head(todo) \in Csv => x \in Text /\ x # Missing,
           Head(todo) = "audit.log" => Good(x),
           UNCHANGED <<there, partial, flawed, job, pc, killed, now>>, todo' \in {todo, Tail(todo)},
           todo' = todo => x = Torn,
           todo' = Tail(todo) => x = disk[job.from][Head(todo)]
    PROVE  IInv'
<1> DEFINE f == Head(todo)
<1>1. Fit /\ Vars /\ Absent /\ Jobs /\ Same /\ Present
  BY Parts
<1>2. /\ job.from \in Place /\ job.to \in Place /\ job.to \in partial /\ job.to \in there
      /\ Makes(job) \/ Installs(job)
      /\ f \in File /\ Tail(todo) \in Seq(File)
      /\ Pending(todo) = {f} \cup Pending(Tail(todo))
      /\ job.from # job.to
  BY CopyNext
<1>3. /\ disk'[job.to][f] = x
      /\ \A q \in Place, g \in File : q # job.to \/ g # f => disk'[q][g] = disk[q][g]
      /\ \A q \in Place : q # job.to => disk'[q] = disk[q]
  BY <1>2, PutEffect DEF IInv
<1>4. Fit'
  BY <1>2, PutFit
<1> HIDE DEF f
<1>5. Vars'
  BY <1>1, <1>2 DEF Vars
<1>6. Absent'
  BY <1>1, <1>2, <1>3 DEF Absent
<1>7. Jobs'
  <2>1. Pending(todo') \subseteq Pending(todo)
    BY <1>2
  <2> QED BY <1>1, <2>1 DEF Jobs, Idle
<1>8. Same'
  <2> SUFFICES ASSUME job.to \notin flawed,
                      NEW g \in Csv \ Pending(todo'), disk'[job.from][g] # Missing
               PROVE  disk'[job.to][g] = disk'[job.from][g]
    BY <1>1 DEF Same
  <2>1. g \in File /\ disk'[job.from][g] = disk[job.from][g]
    BY <1>2, <1>3, FileFacts
  <2>2. CASE g = f
    BY <1>2, <1>3, <2>1, <2>2 DEF f
  <2>3. CASE g # f
    BY <1>1, <1>2, <1>3, <2>1, <2>3 DEF Same
  <2> QED BY <2>2, <2>3
<1>9. Present'
  <2>1. \A g \in Csv : disk'[Dir][g] # Missing
    BY <1>1, <1>2, <1>3, FileFacts, PlaceFacts DEF Present, f
  <2> SUFFICES ASSUME NEW t \in Time
               PROVE  /\ disk'[Backup(t)]["audit.log"] = Missing
                      /\ Complete(Backup(t)) => disk'[Backup(t)]["products.csv"] # Missing
    BY <2>1 DEF Present, Complete
  <2>2. Backup(t) \in Place
    BY PlaceFacts
  <2>3. CASE Backup(t) = job.to
    <3>1. job.op = "backup"
      BY <1>2, <2>3, PlaceFacts DEF Makes, Installs
    <3>2. f \in Csv
      BY <1>1, <1>2, <3>1 DEF Jobs
    <3> QED BY <1>1, <1>2, <1>3, <2>2, <2>3, <3>2, FileFacts DEF Present, Complete
  <2>4. CASE Backup(t) # job.to
    BY <1>1, <1>3, <2>2, <2>4 DEF Present
  <2> QED BY <2>3, <2>4
<1> QED BY <1>4, <1>5, <1>6, <1>7, <1>8, <1>9, Together

LEMMA CopyInv == ASSUME IInv, CopyOpen \/ CopyFill \/ CopyFails \/ CopySkip PROVE IInv'
<1>1. Fit /\ Vars /\ Absent /\ Jobs /\ Same /\ Present
  BY Parts
<1>2. /\ pc = "copy" /\ todo # <<>>
      /\ Source # Missing => (Head(todo) \in Csv => Source \in Text)
      /\ Head(todo) = "audit.log" => Good(Source)
  <2>1. pc = "copy" /\ todo # <<>>
    BY DEF CopyOpen, CopyFill, CopyFails, CopySkip
  <2> QED BY <1>1, <2>1, CopyNext DEF Source, Fit
<1>3. CASE CopyOpen
  <2>1. PutAt(job.to, Head(todo), Torn) /\ UNCHANGED <<there, partial, flawed, job, todo, pc, killed, now>>
    BY <1>3 DEF CopyOpen, Put, PutAt
  <2>2. todo # Tail(todo)
    <3>1. todo \in Seq(File)
      BY <1>1 DEF Vars
    <3>2. Len(Tail(todo)) = Len(todo) - 1 /\ Len(todo) \in Nat
      BY <1>2, <3>1
    <3> QED BY <3>2
  <2>3. Torn \in Text /\ Torn # Missing /\ Good(Torn)
    BY TextFacts, NoLogIsGood, WorkspaceAssumption
  <2> QED BY <1>2, <2>1, <2>2, <2>3, CopyKeeps
<1>4. CASE CopyFill
  <2>1. /\ PutAt(job.to, Head(todo), Source) /\ Source # Missing
        /\ todo' = Tail(todo) /\ UNCHANGED <<there, partial, flawed, job, pc, killed, now>>
    BY <1>4 DEF CopyFill, Put, PutAt
  <2>2. todo # Tail(todo)
    <3>1. todo \in Seq(File)
      BY <1>1 DEF Vars
    <3>2. Len(Tail(todo)) = Len(todo) - 1 /\ Len(todo) \in Nat
      BY <1>2, <3>1
    <3> QED BY <3>2
  <2>3. Source = disk[job.from][Head(todo)]
    BY DEF Source
  <2> QED BY <1>2, <2>1, <2>2, <2>3, CopyKeeps
<1>5. CASE CopySkip
  <2>1. Source = Missing /\ todo' = Tail(todo)
        /\ UNCHANGED <<disk, there, partial, flawed, job, pc, killed, now>>
    BY <1>5 DEF CopySkip
  <2>2. Tail(todo) \in Seq(File) /\ Pending(todo) = {Head(todo)} \cup Pending(Tail(todo))
    BY <1>2, CopyNext
  <2>3. Fit'
    BY <2>1, SameDisk
  <2>4. Vars' /\ Absent' /\ Present'
    BY <1>1, <1>2, <2>1, <2>2 DEF Vars, Absent, Present, Complete
  <2>5. Jobs'
    BY <1>1, <2>1, <2>2 DEF Jobs, Idle
  <2>6. Same'
    BY <1>1, <1>2, <2>1, <2>2 DEF Same, Source
  <2> QED BY <2>3, <2>4, <2>5, <2>6, Together
<1>6. CASE CopyFails
  <2>1. /\ todo' = Tail(todo) /\ flawed' = flawed \cup (IF Head(todo) \in Csv THEN {job.to} ELSE {})
        /\ UNCHANGED <<disk, there, partial, job, pc, killed, now>>
    BY <1>6 DEF CopyFails, Unnoticed
  <2>2. /\ Tail(todo) \in Seq(File) /\ Pending(todo) = {Head(todo)} \cup Pending(Tail(todo))
        /\ job.to \in there
    BY <1>2, CopyNext
  <2>3. Fit'
    BY <2>1, SameDisk
  <2>4. Vars' /\ Absent'
    BY <1>1, <1>2, <2>1, <2>2 DEF Vars, Absent
  <2>5. Present'
    BY <1>1, <2>1 DEF Present, Complete
  <2>6. Jobs'
    BY <1>1, <1>2, <2>1, <2>2 DEF Jobs, Idle
  <2>7. Same'
    BY <1>1, <1>2, <2>1, <2>2 DEF Same
  <2> QED BY <2>3, <2>4, <2>5, <2>6, <2>7, Together
<1> QED BY <1>3, <1>4, <1>5, <1>6

LEMMA CopiedInv == ASSUME IInv, Copied PROVE IInv'
<1>1. Fit /\ Vars /\ Absent /\ Jobs /\ Same /\ Present
  BY Parts
<1>2. /\ pc = "copy" /\ todo = <<>> /\ pc' = AfterCopy(job.op)
      /\ UNCHANGED <<disk, there, flawed, todo, killed, now>>
      /\ Makes(job) \/ Installs(job)
      /\ job \in Job /\ job.to \in partial /\ killed = FALSE
  BY <1>1 DEF Copied, Jobs, Idle, Vars
<1>3. Fit' /\ Absent'
  BY <1>1, <1>2, SameDisk DEF Absent
<1>4. CASE job.op = "tx commit"
  <2>1. /\ partial' = (partial \ {Dir}) \cup {Tx} /\ job' = [job EXCEPT !.to = Tx]
        /\ pc' = "remove"
    BY <1>2, <1>4 DEF Copied, AfterCopy
  <2>2. Tx \in there /\ job.from = Tx /\ job.to = Dir
    BY <1>1, <1>2, <1>4 DEF Jobs, Makes, Installs
  <2>3. job' \in Job /\ job'.op = "tx commit" /\ job'.from = Tx /\ job'.to = Tx
    BY <1>2, <1>4, <2>1, <2>2, PlaceFacts DEF Job
  <2>4. Vars'
    BY <1>1, <1>2, <2>1, <2>2, <2>3 DEF Vars
  <2>5. Jobs'
    <3>1. Removes(job') /\ job'.to \in partial' /\ Dir \notin partial' /\ ~killed'
      <4>1. Removes(job')
        BY <2>3 DEF Removes
      <4>2. ~killed'
        BY <1>2
      <4>3. job'.to \in partial' /\ Dir \notin partial'
        <5>1. partial' = (partial \ {Dir}) \cup {Tx} /\ job'.to = Tx /\ Dir # Tx
          BY <2>1, <2>3, PlaceFacts
        <5> QED BY ONLY <5>1
      <4> QED BY <4>1, <4>2, <4>3
    <3> QED BY <2>1, <3>1 DEF Jobs, Idle
  <2>6. Same' /\ Present'
    BY <1>1, <1>2, <2>1, PlaceFacts DEF Same, Present, Complete
  <2> QED BY <1>3, <2>4, <2>5, <2>6, Together
<1>5. CASE job.op # "tx commit"
  <2>1. /\ partial' = partial \ {job.to}
        /\ pc' \in {"idle", "audit", "prune"}
        /\ job' = IF pc' = "idle" THEN NoJob ELSE job
        /\ pc' = "prune" => job.op = "backup"
    BY <1>2, <1>5 DEF Copied, AfterCopy, Done
  <2>2. Vars'
    BY <1>1, <1>2, <2>1, JobType DEF Vars
  <2>3. Jobs'
    BY <1>2, <1>5, <2>1 DEF Jobs, Idle
  <2>4. Same'
    BY <2>1 DEF Same
  <2>5. Present'
    <3> SUFFICES ASSUME NEW t \in Time, Backup(t) \in there \ (partial' \cup flawed)
                 PROVE  disk[Backup(t)]["products.csv"] # Missing
      BY <1>1, <1>2 DEF Present, Complete
    <3>1. CASE Backup(t) = job.to
      <4>1. job.from = Dir
        BY <1>2, <3>1, PlaceFacts DEF Makes, Installs
      <4>2. "products.csv" \in Csv \ Pending(todo)
        BY <1>2, NonePending, FileFacts
      <4>3. disk[Dir]["products.csv"] # Missing
        BY <1>1, FileFacts DEF Present
      <4> QED BY <1>1, <1>2, <3>1, <4>1, <4>2, <4>3 DEF Same
    <3>2. CASE Backup(t) # job.to
      BY <1>1, <2>1, <3>2 DEF Present, Complete
    <3> QED BY <3>1, <3>2
  <2> QED BY <1>3, <2>2, <2>3, <2>4, <2>5, Together
<1> QED BY <1>4, <1>5

\* What is removed is never the dataset or a backup.
LEMMA RemovePlace ==
    ASSUME IInv, pc = "remove"
    PROVE  /\ job.to \in Place /\ job.to # Dir /\ job.to \in partial /\ job.to \in there
           /\ \A t : job.to # Backup(t)
<1>1. Vars /\ Jobs
  BY Parts
<1> QED BY <1>1, PlaceFacts DEF Vars, Jobs, Job, Removes

LEMMA RemoveFileInv == ASSUME IInv, RemoveFile PROVE IInv'
<1>1. Fit /\ Vars /\ Absent /\ Jobs /\ Same /\ Present
  BY Parts
<1>2. pc = "remove" /\ UNCHANGED <<there, partial, flawed, job, todo, pc, killed, now>>
  BY DEF RemoveFile
<1>3. PICK f \in File : PutAt(job.to, f, Missing)
  BY DEF RemoveFile, PutAt
<1>4. /\ job.to \in Place /\ job.to # Dir /\ job.to \in there
      /\ \A t : job.to # Backup(t)
  BY <1>2, RemovePlace
<1>5. \A q \in Place : q # job.to => disk'[q] = disk[q]
  BY <1>3, <1>4, PutEffect DEF IInv
<1>6. Fit'
  BY <1>3, <1>4, TextFacts, NoLogIsGood, PutFit
<1>7. Vars' /\ Jobs' /\ Same'
  BY <1>1, <1>2 DEF Vars, Jobs, Same, Idle
<1>8. Absent'
  BY <1>1, <1>2, <1>4, <1>5 DEF Absent
<1>9. Present'
  BY <1>1, <1>2, <1>4, <1>5, PlaceFacts DEF Present, Complete
<1> QED BY <1>6, <1>7, <1>8, <1>9, Together

\* The end of a removal, whether it succeeds or not.
LEMMA RemoveDirInv == ASSUME IInv, RemoveDir \/ RemoveFails PROVE IInv'
<1>1. Fit /\ Vars /\ Absent /\ Jobs /\ Same /\ Present
  BY Parts
<1>2. /\ pc = "remove" /\ partial' = partial \ {job.to}
      /\ pc' = IF job.op = "tx commit" THEN "audit" ELSE "idle"
      /\ job' = IF pc' = "idle" THEN NoJob ELSE job
      /\ UNCHANGED <<disk, todo, killed, now>>
      /\ \/ /\ disk[job.to] = Nothing
            /\ there' = there \ {job.to} /\ flawed' = flawed \ {job.to}
         \/ there' = there /\ flawed' = flawed \cup {job.to}
  BY DEF RemoveDir, RemoveFails, AfterRemove, Unnoticed, Done
<1>3. job.to \in Place /\ job.to # Dir /\ job.to \in there /\ \A t : job.to # Backup(t)
  BY <1>2, RemovePlace
<1>4. Fit' /\ Absent'
  BY <1>1, <1>2, SameDisk DEF Absent
<1>5. Vars'
  BY <1>1, <1>2, <1>3, JobType DEF Vars
<1>6. Jobs'
  <2>1. killed = FALSE
    BY <1>1, <1>2 DEF Jobs, Idle, Vars
  <2>2. job.op = "tx commit" => job.to = Tx /\ Dir \notin partial
    BY <1>1, <1>2 DEF Jobs, Removes
  <2> QED BY <1>2, <2>1, <2>2 DEF Jobs, Idle
<1>7. Same' /\ Present'
  BY <1>1, <1>2, <1>3 DEF Same, Present, Complete
<1> QED BY <1>4, <1>5, <1>6, <1>7, Together

LEMMA AuditInv == ASSUME IInv, Audit PROVE IInv'
<1>1. Fit /\ Vars /\ Absent /\ Jobs /\ Same /\ Present
  BY Parts
<1>2. /\ pc = "audit" /\ pc' = "idle" /\ job' = NoJob
      /\ UNCHANGED <<there, partial, flawed, todo, killed, now>>
      /\ PutAt(Dir, "audit.log", Appended(disk[Dir]["audit.log"]))
  BY DEF Audit, Recorded, PutAt
<1>3. Dir \in Place /\ "audit.log" \in File /\ "audit.log" \notin Csv
  BY PlaceFacts, FileFacts
<1>4. Fit'
  <2>1. Good(Appended(disk[Dir]["audit.log"]))
    BY <1>1, <1>3, AppendGood DEF Fit
  <2> QED BY <1>2, <1>3, <2>1, PutFit
<1>5. /\ \A q \in Place : q # Dir => disk'[q] = disk[q]
      /\ \A f \in Csv : disk'[Dir][f] = disk[Dir][f]
  BY <1>2, <1>3, FileFacts, PutEffect DEF IInv
<1>6. Vars' /\ Same'
  BY <1>1, <1>2, JobType DEF Vars, Same
<1>7. Jobs'
  BY <1>1, <1>2 DEF Jobs, Idle, Vars
<1>8. Absent'
  BY <1>1, <1>2, <1>5 DEF Absent, Vars
<1>9. Present'
  BY <1>1, <1>2, <1>5, PlaceFacts DEF Present, Complete
<1> QED BY <1>4, <1>6, <1>7, <1>8, <1>9, Together

LEMMA KillInv == ASSUME IInv, Kill PROVE IInv'
<1>1. Fit /\ Vars /\ Absent /\ Jobs /\ Same /\ Present
  BY Parts
<1>2. /\ ~Idle /\ pc' = "idle" /\ todo' = <<>>
      /\ killed' = \/ pc = "remove" /\ job.to = Tx
                   \/ pc = "copy" /\ job.to \in {Dir, Tx}
      /\ job' = IF killed' THEN job ELSE NoJob
      /\ UNCHANGED <<disk, there, partial, flawed, now>>
  BY DEF Kill
<1>3. Fit' /\ Absent' /\ Same' /\ Present'
  BY <1>1, <1>2, SameDisk DEF Absent, Same, Present, Complete
<1>4. Vars'
  <2>1. killed' \in BOOLEAN
    BY <1>2
  <2>2. job' \in Job
    BY <1>1, <1>2, JobType DEF Vars
  <2> QED BY <1>1, <1>2, <2>1, <2>2, NonePending DEF Vars
<1>5. Jobs'
  <2>1. CASE killed'
    <3>1. job' = job /\ job.to \in partial
          /\ (Installs(job) \/ (job.to = Tx /\ (Makes(job) \/ Removes(job))))
      BY <1>1, <1>2, <2>1, PlaceFacts DEF Jobs, Makes
    <3> QED BY <1>2, <2>1, <3>1 DEF Jobs, Idle
  <2>2. CASE ~killed'
    BY <1>2, <2>2 DEF Jobs, Idle
  <2> QED BY <2>1, <2>2
<1> QED BY <1>3, <1>4, <1>5, Together

LEMMA TickInv == ASSUME IInv, Tick PROVE IInv'
<1>1. Fit /\ Vars /\ Absent /\ Jobs /\ Same /\ Present
  BY Parts
<1>2. now' \in Time /\ UNCHANGED <<disk, there, partial, flawed, job, todo, pc, killed>>
  BY <1>1, WorkspaceAssumption DEF Tick, Vars, Time
<1>3. Fit' /\ Absent' /\ Jobs' /\ Same' /\ Present' /\ Vars'
  BY <1>1, <1>2, SameDisk DEF Absent, Jobs, Same, Present, Complete, Vars, Idle
<1> QED BY <1>3, Together

LEMMA AuditPruneInv == ASSUME IInv, NEW k, AuditPrune(k) PROVE IInv'
<1>1. Fit /\ Vars /\ Absent /\ Jobs /\ Same /\ Present
  BY Parts
<1>2. /\ Idle /\ PutAt(Dir, "audit.log", Missing)
      /\ UNCHANGED <<there, partial, flawed, job, todo, pc, killed, now>>
  BY DEF AuditPrune, PutAt
<1>3. Dir \in Place /\ "audit.log" \in File /\ "audit.log" \notin Csv
  BY PlaceFacts, FileFacts
<1>4. Fit'
  BY <1>2, <1>3, NoLogIsGood, PutFit
<1>5. /\ \A q \in Place : q # Dir => disk'[q] = disk[q]
      /\ \A f \in Csv : disk'[Dir][f] = disk[Dir][f]
  BY <1>2, <1>3, FileFacts, PutEffect DEF IInv
<1>6. Vars' /\ Jobs' /\ Same'
  BY <1>1, <1>2 DEF Vars, Jobs, Same, Idle
<1>7. Absent'
  BY <1>1, <1>2, <1>5 DEF Absent, Vars
<1>8. Present'
  BY <1>1, <1>2, <1>5, PlaceFacts DEF Present, Complete
<1> QED BY <1>4, <1>6, <1>7, <1>8, Together

\* The edit of a command at p: it writes no csv file, one, or both.
Edits(p) ==
    \E e \in Edit, fs \in {{}, {"products.csv"}, Csv} :
        LET edited == [disk EXCEPT ![p] = [f \in File |-> IF f \in fs THEN With(@[f], e) ELSE @[f]]]
        IN disk' = edited \/ Recorded(p, edited)

LEMMA EditsEffect ==
    ASSUME IInv, NEW p \in Place, Edits(p)
    PROVE  /\ disk' = [q \in Place |-> [f \in File |-> disk'[q][f]]]
           /\ \A q \in Place : q # p => disk'[q] = disk[q]
           /\ disk'[p]["audit.log"] \in {disk[p]["audit.log"], Appended(disk[p]["audit.log"])}
           /\ \E e \in Edit, fs \in SUBSET Csv : \A f \in Csv :
                disk'[p][f] = IF f \in fs THEN With(disk[p][f], e) ELSE disk[p][f]
<1>1. PICK e \in Edit, fs \in {{}, {"products.csv"}, Csv} :
        LET edited == [disk EXCEPT ![p] = [f \in File |-> IF f \in fs THEN With(@[f], e) ELSE @[f]]]
        IN disk' = edited \/ Recorded(p, edited)
  BY DEF Edits
<1> DEFINE at == [f \in File |-> IF f \in fs THEN With(disk[p][f], e) ELSE disk[p][f]]
           mid == [disk EXCEPT ![p] = at]
<1>2. disk' = mid \/ disk' = [mid EXCEPT ![p]["audit.log"] = Appended(@)]
  BY <1>1 DEF Recorded
<1>3. /\ DOMAIN disk = Place
      /\ \A q \in Place : disk[q] = [f \in File |-> disk[q][f]]
  BY DEF IInv, Shape
<1>4. fs \in SUBSET Csv /\ "audit.log" \notin fs /\ "audit.log" \in File
  BY FileFacts
<1>5. mid[p] = at /\ DOMAIN mid = Place /\ \A q \in Place : q # p => mid[q] = disk[q]
  BY <1>3
<1>6. DOMAIN at = File /\ \A f \in File : at[f] = IF f \in fs THEN With(disk[p][f], e) ELSE disk[p][f]
  OBVIOUS
<1>7. at["audit.log"] = disk[p]["audit.log"]
  BY <1>4, <1>6
<1> HIDE DEF at, mid
<1>8. /\ DOMAIN disk' = Place /\ \A q \in Place : q # p => disk'[q] = disk[q]
      /\ disk'[p] = at \/ disk'[p] = [at EXCEPT !["audit.log"] = Appended(@)]
  BY <1>2, <1>5
<1>9. /\ DOMAIN disk'[p] = File
      /\ \A f \in Csv : disk'[p][f] = at[f]
      /\ disk'[p]["audit.log"] \in {disk[p]["audit.log"], Appended(disk[p]["audit.log"])}
  BY <1>4, <1>6, <1>7, <1>8, FileFacts
<1>10. disk'[p] = [f \in File |-> disk'[p][f]]
  <2>1. CASE disk'[p] = at
    <3>1. at = [f \in File |-> at[f]]
      BY DEF at
    <3> QED BY <2>1, <3>1
  <2>2. CASE disk'[p] = [at EXCEPT !["audit.log"] = Appended(@)]
    <3>1. [at EXCEPT !["audit.log"] = Appended(@)]
            = [f \in File |-> IF f = "audit.log" THEN Appended(at["audit.log"]) ELSE at[f]]
      BY <1>6
    <3> QED BY <2>2, <3>1
  <2> QED BY <1>8, <2>1, <2>2
<1>11. \A q \in Place : disk'[q] = [f \in File |-> disk'[q][f]]
  <2> SUFFICES ASSUME NEW q \in Place PROVE disk'[q] = [f \in File |-> disk'[q][f]]
    OBVIOUS
  <2>1. CASE q = p
    BY <1>10, <2>1
  <2>2. CASE q # p
    <3>1. disk'[q] = disk[q]
      BY <1>8, <2>2
    <3> QED BY <1>3, <3>1
  <2> QED BY <2>1, <2>2
<1>12. disk' = [q \in Place |-> disk'[q]]
  <2>1. CASE disk' = mid
    <3>1. mid = [q \in Place |-> mid[q]]
      BY <1>3 DEF mid
    <3> QED BY <2>1, <3>1
  <2>2. CASE disk' # mid
    <3>1. disk' = [mid EXCEPT ![p]["audit.log"] = Appended(@)]
      BY <1>2, <2>2
    <3> QED BY <1>5, <3>1
  <2> QED BY <2>1, <2>2
<1>13. disk' = [q \in Place |-> [f \in File |-> disk'[q][f]]]
  BY <1>11, <1>12
<1>14. \A f \in Csv : disk'[p][f] = IF f \in fs THEN With(disk[p][f], e) ELSE disk[p][f]
  BY <1>6, <1>9, FileFacts
<1> QED BY <1>4, <1>8, <1>9, <1>13, <1>14

\* What an edit makes of a text.
LEMMA WithFacts ==
    ASSUME NEW x \in Text, NEW e \in Edit
    PROVE  /\ With(x, e) \in Text /\ With(x, e) # Missing
           /\ x # Torn => With(x, e) \in SUBSET Edit /\ With(x, e) # Torn
           /\ x \notin {Missing, Torn} => With(x, e) = x \cup {e}
<1>1. {e} \in SUBSET Edit
  OBVIOUS
<1>2. CASE x = Torn
  BY <1>2, TextFacts, WorkspaceAssumption DEF With
<1>3. CASE x = Missing
  <2>1. With(x, e) = {e}
    BY <1>3, WorkspaceAssumption DEF With
  <2>2. {e} \in Text /\ {e} # Missing /\ {e} # Torn
    BY <1>1, WorkspaceAssumption DEF Text
  <2> QED BY <1>1, <1>3, <2>1, <2>2
<1>4. CASE x \notin {Missing, Torn}
  <2>1. x \cup {e} \in SUBSET Edit /\ With(x, e) = x \cup {e}
    BY <1>4, TextFacts DEF With
  <2> QED BY <1>4, <2>1, TextFacts
<1> QED BY <1>2, <1>3, <1>4

LEMMA RunCommandInv == ASSUME IInv, NEW p \in {Dir, Tx}, RunCommand(p) PROVE IInv'
<1>1. Fit /\ Vars /\ Absent /\ Jobs /\ Same /\ Present
  BY Parts
<1>2. /\ Idle /\ p \in there /\ Edits(p)
      /\ UNCHANGED <<there, partial, flawed, job, todo, pc, killed, now>>
  BY DEF RunCommand, MayStart, Edits
<1>3. p \in Place
  BY PlaceFacts
<1>4. /\ disk' = [q \in Place |-> [f \in File |-> disk'[q][f]]]
      /\ \A q \in Place : q # p => disk'[q] = disk[q]
      /\ disk'[p]["audit.log"] \in {disk[p]["audit.log"], Appended(disk[p]["audit.log"])}
  BY <1>2, <1>3, EditsEffect
<1>5. \A f \in Csv : disk'[p][f] \in Text /\ (disk[p][f] # Missing => disk'[p][f] # Missing)
  <2>1. PICK e \in Edit, fs \in SUBSET Csv : \A f \in Csv :
          disk'[p][f] = IF f \in fs THEN With(disk[p][f], e) ELSE disk[p][f]
    BY <1>2, <1>3, EditsEffect
  <2>2. \A f \in Csv : disk[p][f] \in Text
    BY <1>1, <1>3 DEF Fit
  <2> QED BY <2>1, <2>2, WithFacts
<1>6. Fit'
  <2>1. Good(disk'[p]["audit.log"])
    BY <1>1, <1>3, <1>4, AppendGood DEF Fit
  <2>2. \A q \in Place : Good(disk'[q]["audit.log"])
    BY <1>1, <1>4, <2>1 DEF Fit
  <2>3. \A q \in Place, f \in Csv : disk'[q][f] \in Text
    BY <1>1, <1>4, <1>5 DEF Fit
  <2> QED BY <1>4, <2>2, <2>3 DEF Fit
<1>7. Vars' /\ Jobs' /\ Same'
  BY <1>1, <1>2 DEF Vars, Jobs, Same, Idle
<1>8. Absent'
  BY <1>1, <1>2, <1>4 DEF Absent
<1>9. Present'
  BY <1>1, <1>2, <1>4, <1>5, PlaceFacts DEF Present, Complete
<1> QED BY <1>6, <1>7, <1>8, <1>9, Together

-----------------------------------------------------------------------------
(* backup --keep                                                             *)
LEMMA RankFacts ==
    \A f \in Csv, t \in Time : Rank(f, t) \in Nat /\ Rank("orders.csv", t) < Rank("products.csv", t)
  BY WorkspaceAssumption, FileFacts DEF Rank, Time

LEMMA KeptFinite == IsFiniteSet(Kept) /\ Kept \subseteq Csv \X Time
<1>1. IsFiniteSet(Csv)
  <2>1. IsFiniteSet({"products.csv"})
    BY FS_Singleton
  <2>2. Csv = {"products.csv"} \cup {"orders.csv"}
    BY FileFacts
  <2> QED BY <2>1, <2>2, FS_AddElement
<1>2. IsFiniteSet(Time)
  <2>1. 0 \in Int /\ MaxTime \in Int
    BY WorkspaceAssumption
  <2> QED BY <2>1, FS_Interval DEF Time
<1>3. IsFiniteSet(Csv \X Time)
  BY <1>1, <1>2, FS_Product
<1>4. Kept \subseteq Csv \X Time
  BY DEF Kept
<1> QED BY <1>3, <1>4, FS_Subset

\* Of two files that are there the one with the greater rank stays longer.
LEMMA DoomedDown ==
    ASSUME NEW k \in Nat, NEW x \in Kept, NEW y \in Kept,
           Rank(x[1], x[2]) <= Rank(y[1], y[2]), y \in Doomed(k)
    PROVE  x \in Doomed(k)
<1> DEFINE above(z) == {w \in Kept : Rank(w[1], w[2]) > Rank(z[1], z[2])}
<1>1. \A w \in Kept : Rank(w[1], w[2]) \in Nat
  BY RankFacts, KeptFinite
<1>2. above(y) \subseteq above(x)
  BY <1>1
<1>3. IsFiniteSet(above(x))
  <2>1. above(x) \subseteq Kept
    OBVIOUS
  <2> HIDE DEF above
  <2> QED BY <2>1, KeptFinite, FS_Subset
<1>4. above(y) \in SUBSET above(x)
  BY <1>2
<1>5. Cardinality(above(y)) >= k
  BY DEF Doomed
<1> HIDE DEF above
<1>6. /\ Cardinality(above(x)) \in Nat /\ Cardinality(above(y)) <= Cardinality(above(x))
      /\ Cardinality(above(y)) \in Nat
  BY <1>3, <1>4, FS_Subset, FS_CardinalityType
<1>7. Cardinality(above(x)) >= k
  BY <1>5, <1>6
<1> QED BY <1>7 DEF Doomed, above

\* What a pruning of backups does, when these files are doomed and these of them
\* cannot be removed.
Prunes(doomed, stuck) ==
    LET left == {Backup(x[2]) : x \in stuck}
        gone == {Backup(t) : t \in {u \in Time : disk'[Backup(u)] = Nothing}}
    IN /\ pc = "prune" /\ pc' = "audit"
       /\ disk' = [p \in Place |->
            IF p[1] = "backup"
            THEN [f \in File |-> IF <<f, p[2]>> \in doomed \ stuck THEN Missing ELSE disk[p][f]]
            ELSE disk[p]]
       /\ there' = there \ gone /\ partial' = partial \ gone
       /\ flawed' = (flawed \cup left) \ gone
       /\ UNCHANGED <<job, todo, killed, now>>

LEMMA PrunesFacts ==
    ASSUME PruneBackups
    PROVE  \E doomed \in {{}} \cup {Doomed(k) : k \in Keep} : \E stuck \in SUBSET doomed :
             Prunes(doomed, stuck)
  BY DEF PruneBackups, Prunes

LEMMA KeptDoomed ==
    ASSUME NEW doomed \in {{}} \cup {Doomed(k) : k \in Keep}, NEW stuck \in SUBSET doomed
    PROVE  stuck \subseteq Kept
<1>1. \A k : Doomed(k) \subseteq Kept
  BY DEF Doomed
<1> QED BY <1>1

LEMMA PrunesEffect ==
    ASSUME Fit, NEW doomed, NEW stuck, Prunes(doomed, stuck)
    PROVE  /\ \A p \in Place : disk'[p] = [f \in File |-> disk'[p][f]]
           /\ disk' = [p \in Place |-> disk'[p]]
           /\ \A p \in Place, f \in File : disk'[p][f] \in {disk[p][f], Missing}
           /\ \A p \in Place : (\A t : p # Backup(t)) => disk'[p] = disk[p]
           /\ \A t \in Time, f \in File :
                 disk'[Backup(t)][f] = IF <<f, t>> \in doomed \ stuck
                                       THEN Missing ELSE disk[Backup(t)][f]
<1>1. disk' = [p \in Place |->
        IF p[1] = "backup"
        THEN [f \in File |-> IF <<f, p[2]>> \in doomed \ stuck THEN Missing ELSE disk[p][f]]
        ELSE disk[p]]
  BY DEF Prunes
<1>2. \A p \in Place : (\A t : p # Backup(t)) => disk'[p] = disk[p]
  BY <1>1, KindFacts
<1>3. \A t \in Time : disk'[Backup(t)]
        = [f \in File |-> IF <<f, t>> \in doomed \ stuck THEN Missing ELSE disk[Backup(t)][f]]
  BY <1>1, PlaceFacts DEF Backup
<1>4. \A p \in Place : disk'[p] = disk[p] \/ \E t \in Time : p = Backup(t)
  BY <1>2, KindFacts
<1>5. \A t \in Time, f \in File :
        disk'[Backup(t)][f] = IF <<f, t>> \in doomed \ stuck THEN Missing ELSE disk[Backup(t)][f]
  BY <1>3
<1>6. \A p \in Place : disk'[p] = [f \in File |-> disk'[p][f]]
  <2>1. \A p \in Place : disk[p] = [f \in File |-> disk[p][f]]
    BY DEF Fit
  <2>2. \A t \in Time : disk'[Backup(t)] = [f \in File |-> disk'[Backup(t)][f]]
    BY <1>3
  <2> QED BY <1>4, <2>1, <2>2
<1>7. disk' = [p \in Place |-> disk'[p]]
  BY <1>1
<1>8. \A p \in Place, f \in File : disk'[p][f] \in {disk[p][f], Missing}
  <2> SUFFICES ASSUME NEW p \in Place, NEW f \in File
               PROVE  disk'[p][f] \in {disk[p][f], Missing}
    OBVIOUS
  <2>1. CASE disk'[p] = disk[p]
    BY <2>1
  <2>2. CASE \E t \in Time : p = Backup(t)
    BY <1>5, <2>2
  <2> QED BY <1>4, <2>1, <2>2
<1> QED BY <1>2, <1>5, <1>6, <1>7, <1>8

LEMMA PruneBackupsInv == ASSUME IInv, PruneBackups PROVE IInv'
<1>1. Fit /\ Vars /\ Absent /\ Jobs /\ Same /\ Present
  BY Parts
<1>2. PICK doomed \in {{}} \cup {Doomed(k) : k \in Keep} :
        \E stuck \in SUBSET doomed : Prunes(doomed, stuck)
  BY PrunesFacts
<1>3. PICK stuck \in SUBSET doomed : Prunes(doomed, stuck)
  BY <1>2
<1> DEFINE gone == {Backup(t) : t \in {u \in Time : disk'[Backup(u)] = Nothing}}
           left == {Backup(x[2]) : x \in stuck}
<1>4. /\ pc = "prune" /\ pc' = "audit" /\ there' = there \ gone /\ partial' = partial \ gone
      /\ flawed' = (flawed \cup left) \ gone
      /\ UNCHANGED <<job, todo, killed, now>>
  BY <1>3 DEF Prunes
<1>5. /\ Dir \notin gone /\ \A p \in gone : disk'[p] = Nothing
      /\ \A t \in Time : Backup(t) \in there' => disk'[Backup(t)] # Nothing
  <2>1. \A t \in Time : disk'[Backup(t)] = Nothing => Backup(t) \in gone
    OBVIOUS
  <2> QED BY <1>4, <2>1, PlaceFacts
<1>6. left \subseteq there \cup gone
  <2> SUFFICES ASSUME NEW x \in stuck PROVE Backup(x[2]) \in there
    OBVIOUS
  <2>1. x \in Kept
    BY KeptDoomed
  <2>2. x[2] \in Time /\ x[1] \in Csv /\ disk[Backup(x[2])][x[1]] # Missing
    BY <2>1, KeptFinite DEF Kept
  <2> QED BY <1>1, <2>2, PlaceFacts, NothingFacts, FileFacts DEF Absent
<1>7. \A t \in Time : Backup(t) \notin flawed' /\ Backup(t) \in there' =>
        Backup(t) \notin flawed /\ \A x \in stuck : x[2] # t
  <2>1. \A x \in stuck : Backup(x[2]) \in left
    OBVIOUS
  <2> QED BY <1>4, <2>1
<1> HIDE DEF gone, left
<1>8. Vars' /\ Same'
  BY <1>1, <1>4, <1>5, <1>6 DEF Vars, Same
<1>9. Jobs'
  <2>1. job.op = "backup" /\ killed = FALSE
    BY <1>1, <1>4 DEF Jobs, Idle, Vars
  <2> QED BY <1>4, <2>1 DEF Jobs, Idle
<1>10. /\ \A p \in Place : disk'[p] = [f \in File |-> disk'[p][f]]
       /\ disk' = [p \in Place |-> disk'[p]]
       /\ \A p \in Place, f \in File : disk'[p][f] \in {disk[p][f], Missing}
       /\ \A p \in Place : (\A t : p # Backup(t)) => disk'[p] = disk[p]
       /\ \A t \in Time, f \in File :
             disk'[Backup(t)][f] = IF <<f, t>> \in doomed \ stuck THEN Missing ELSE disk[Backup(t)][f]
  BY <1>1, <1>3, PrunesEffect
<1>11. Fit'
  <2>1. disk' = [p \in Place |-> [f \in File |-> disk'[p][f]]]
    BY <1>10
  <2>2. \A p \in Place : Good(disk'[p]["audit.log"])
    BY <1>1, <1>10, FileFacts, NoLogIsGood DEF Fit
  <2>3. \A p \in Place, f \in Csv : disk'[p][f] \in Text
    BY <1>1, <1>10, FileFacts, TextFacts DEF Fit
  <2> QED BY <2>1, <2>2, <2>3 DEF Fit
<1>12. Absent'
  <2> SUFFICES ASSUME NEW p \in Place \ there' PROVE disk'[p] = Nothing
    BY DEF Absent
  <2>1. CASE p \in gone
    BY <1>5, <2>1
  <2>2. CASE p \notin gone
    <3>1. disk[p] = Nothing
      BY <1>1, <1>4, <2>2 DEF Absent
    <3>2. \A f \in File : disk'[p][f] = Missing
      BY <1>10, <3>1, NothingFacts
    <3> QED BY <1>10, <3>2, NothingFacts
  <2> QED BY <2>1, <2>2
<1>13. Present'
  <2>1. \A f \in Csv : disk'[Dir][f] # Missing
    BY <1>1, <1>10, PlaceFacts DEF Present
  <2>2. ASSUME NEW t \in Time
        PROVE  /\ disk'[Backup(t)]["audit.log"] = Missing
               /\ Backup(t) \in there' \ (partial' \cup flawed')
                    => disk'[Backup(t)]["products.csv"] # Missing
    <3>1. disk'[Backup(t)]["audit.log"] = Missing
      BY <1>1, <1>10, PlaceFacts, FileFacts DEF Present
    <3>2. ASSUME Backup(t) \in there' \ (partial' \cup flawed'),
                 disk'[Backup(t)]["products.csv"] = Missing
          PROVE  FALSE
      <4>1. Backup(t) \in there \ (partial \cup flawed) /\ \A x \in stuck : x[2] # t
        BY <1>4, <1>5, <1>7, <3>2
      <4>2. disk[Backup(t)]["products.csv"] # Missing
        BY <1>1, <4>1 DEF Present, Complete
      <4>3. <<"products.csv", t>> \in doomed
        BY <1>10, <3>2, <4>2, FileFacts
      <4>4. disk'[Backup(t)]["orders.csv"] # Missing
        <5>1. \E f \in File : disk'[Backup(t)][f] # Missing
          BY <1>5, <1>10, <3>2, NothingFacts, PlaceFacts
        <5> QED BY <3>1, <3>2, <5>1, FileFacts
      <4>5. <<"orders.csv", t>> \notin doomed /\ disk[Backup(t)]["orders.csv"] # Missing
        <5>1. <<"orders.csv", t>> \notin stuck
          <6>1. <<"orders.csv", t>>[2] = t
            OBVIOUS
          <6> QED BY <4>1, <6>1
        <5> QED BY <1>10, <4>4, <5>1, FileFacts
      <4>6. <<"products.csv", t>> \in Kept /\ <<"orders.csv", t>> \in Kept
        BY <4>2, <4>5, FileFacts DEF Kept
      <4>7. PICK k \in Keep : doomed = Doomed(k)
        BY <4>3
      <4>8. Rank("orders.csv", t) <= Rank("products.csv", t) /\ k \in Nat
        BY RankFacts, FileFacts, WorkspaceAssumption
      <4> QED BY <4>3, <4>5, <4>6, <4>7, <4>8, DoomedDown
    <3> QED BY <3>1, <3>2
  <2> QED BY <2>1, <2>2 DEF Present, Complete
<1> QED BY <1>8, <1>9, <1>11, <1>12, <1>13, Together

\* Nothing but backups is pruned.
LEMMA PrunesOthers ==
    ASSUME IInv, PruneBackups
    PROVE  /\ \A p \in Slot \cup {Dir, Tx} :
                disk'[p] = disk[p] /\ (p \in flawed' <=> p \in flawed)
                                   /\ (p \in there' \ partial' <=> p \in there \ partial)
           /\ partial' \subseteq partial /\ UNCHANGED <<job, killed>>
           /\ pc = "prune" /\ pc' = "audit"
<1>1. PICK doomed \in {{}} \cup {Doomed(k) : k \in Keep} :
        \E stuck \in SUBSET doomed : Prunes(doomed, stuck)
  BY PrunesFacts
<1>2. PICK stuck \in SUBSET doomed : Prunes(doomed, stuck)
  BY <1>1
<1> DEFINE gone == {Backup(t) : t \in {u \in Time : disk'[Backup(u)] = Nothing}}
           left == {Backup(x[2]) : x \in stuck}
<1>3. /\ pc = "prune" /\ pc' = "audit" /\ there' = there \ gone /\ partial' = partial \ gone
      /\ flawed' = (flawed \cup left) \ gone
      /\ UNCHANGED <<job, todo, killed, now>>
  BY <1>2 DEF Prunes
<1>4. \A p \in Slot \cup {Dir, Tx} : p \notin gone /\ p \notin left /\ \A t : p # Backup(t)
  BY SlotFacts, PlaceFacts
<1> HIDE DEF gone, left
<1>5. \A p \in Slot \cup {Dir, Tx} : disk'[p] = disk[p]
  BY <1>2, <1>4, PrunesEffect, Parts, SlotFacts, PlaceFacts
<1> QED BY <1>3, <1>4, <1>5

-----------------------------------------------------------------------------
(* The theorems that need no careful operator                                *)
LEMMA NextInv == IInv /\ [Next]_vars => IInv'
<1> SUFFICES ASSUME IInv, [Next]_vars PROVE IInv'
  OBVIOUS
<1>1. CASE UNCHANGED vars
  <2>1. UNCHANGED <<disk, there, partial, flawed, job, todo, pc, killed, now>>
    BY <1>1 DEF vars
  <2>2. Fit' /\ Vars' /\ Absent' /\ Jobs' /\ Same' /\ Present'
    BY <2>1, Parts, SameDisk DEF Vars, Absent, Jobs, Same, Present, Complete, Idle
  <2> QED BY <2>2, Together
<1>2. CASE Step
  BY <1>2, CopyInv, CopiedInv, RemoveFileInv, RemoveDirInv, PruneBackupsInv, AuditInv DEF Step
<1>3. CASE Next /\ ~Step
  BY <1>3, StartsInv, RunCommandInv, AuditPruneInv, KillInv, TickInv DEF Next, Starts
<1> QED BY <1>1, <1>2, <1>3

\* Every step of every command keeps the invariant, and so does a kill between
\* any two of them, whatever is run next: no careful operator is needed for it.
THEOREM Inductive == Spec => []IInv
  BY InitInv, NextInv, PTL DEF Spec

\* The variables keep their types, and what does not exist holds nothing,
\* whatever is killed and whoever goes on after it.
THEOREM TypeCorrect == Spec => []TypeOK
<1>1. IInv => TypeOK
  BY DEF IInv
<1> QED BY <1>1, Inductive, PTL

\* Every audit log that was not cut short verifies, for every hash function:
\* the dataset's, the one that grows in .tx, and one put back from an archive.
THEOREM ChainsVerify == Spec => []AuditIntact
<1>1. IInv => AuditIntact
  BY DEF IInv
<1> QED BY <1>1, Inductive, PTL

\* Pruning backups, to however few files, never leaves the orders of a backup
\* without its products, or an old file and not a newer one, but where a file
\* could not be copied or removed.
THEOREM OldestGoFirst == Spec => []PruneOldest
<1>1. IInv => PruneOldest
  BY DEF IInv, Present, PruneOldest
<1> QED BY <1>1, Inductive, PTL

\* When a commit is put on record every file of it has been copied or given up,
\* and the working copy is gone unless its removal failed.
THEOREM CommitIsDone == Spec => CommitRecordedLast
<1>1. IInv /\ [Next]_vars =>
        [pc = "audit" /\ pc' = "idle" /\ disk' # disk /\ job.op = "tx commit"
           => /\ Tx \notin there \/ Tx \in flawed
              /\ Dir \notin partial /\ Tx \notin partial]_vars
  BY DEF IInv, Jobs
<1> QED BY <1>1, Inductive, PTL DEF Spec, CommitRecordedLast

-----------------------------------------------------------------------------
(* The audit log of the dataset                                              *)
\* No log is confused with one that is missing or torn.
Distinct == \A s : IsSeq(s) => s \notin {Missing, Torn}

\* A log, with one more entry or not, still starts with what it was.
Extends(x, y) ==
    /\ y # Torn
    /\ Len(Entries(x)) <= Len(Entries(y))
    /\ SubSeq(Entries(y), 1, Len(Entries(x))) = Entries(x)

LEMMA EntriesSeq ==
    ASSUME NEW x, Good(x), x # Torn
    PROVE  IsSeq(Entries(x))
<1>1. <<>> \in Seq({})
  OBVIOUS
<1> QED BY <1>1 DEF Good, Entries, IsSeq

LEMMA PrefixExtends ==
    ASSUME NEW s, IsSeq(s), NEW t, IsSeq(t), Len(s) <= Len(t), \A i \in 1 .. Len(s) : t[i] = s[i]
    PROVE  SubSeq(t, 1, Len(s)) = s
<1>1. PICK S : s \in Seq(S)
  BY DEF IsSeq
<1>2. Len(s) \in Nat /\ \A i \in 1 .. Len(s) : s[i] \in S
  BY <1>1
<1>3. \A i \in 1 .. Len(s) : t[i] \in S
  BY <1>2
<1>4. /\ SubSeq(t, 1, Len(s)) \in Seq(S)
      /\ Len(SubSeq(t, 1, Len(s))) = IF 1 <= Len(s) THEN Len(s) - 1 + 1 ELSE 0
      /\ \A i \in 1 .. Len(s) - 1 + 1 : SubSeq(t, 1, Len(s))[i] = t[1 + i - 1]
  BY <1>2, <1>3, SubSeqProperties
<1>5. /\ Len(SubSeq(t, 1, Len(s))) = Len(s)
      /\ \A i \in 1 .. Len(s) : SubSeq(t, 1, Len(s))[i] = s[i]
  BY <1>2, <1>4
<1> QED BY <1>1, <1>4, <1>5, SeqEqual

LEMMA OneMore ==
    ASSUME Distinct, NEW x, Good(x), x # Torn, NEW y \in {x, Appended(x)}
    PROVE  Extends(x, y)
<1> DEFINE s == Entries(x)
<1>1. IsSeq(s)
  BY EntriesSeq
<1>2. CASE y = x
  <2>1. Len(s) \in Int
    BY <1>1, AppendShape
  <2>2. SubSeq(s, 1, Len(s)) = s
    BY <1>1, <2>1, PrefixExtends
  <2> QED BY <1>2, <2>1, <2>2 DEF Extends
<1>3. CASE y = Appended(x)
  <2> DEFINE e == Entry(LastHash(s), "op")
  <2>1. y = Append(s, e)
    BY <1>3 DEF Appended
  <2> HIDE DEF e, s
  <2>2. /\ IsSeq(y) /\ Len(s) \in Nat /\ Len(y) = Len(s) + 1
        /\ \A i \in 1 .. Len(s) : y[i] = s[i]
    BY <1>1, <2>1, AppendShape
  <2>3. y # Torn /\ Entries(y) = y
    BY <2>2 DEF Distinct, Entries
  <2>4. SubSeq(y, 1, Len(s)) = s
    BY <1>1, <2>2, PrefixExtends
  <2> QED BY <2>2, <2>3, <2>4 DEF Extends, s
<1> QED BY <1>2, <1>3

LEMMA DirLog ==
    ASSUME IInv, Next, job.op # "archive extract", ~\E k \in Keep : AuditPrune(k)
    PROVE  disk'[Dir]["audit.log"] \in {disk[Dir]["audit.log"], Appended(disk[Dir]["audit.log"])}
<1>1. Shape /\ Dir \in Place /\ "audit.log" \in File
  BY PlaceFacts, FileFacts DEF IInv
<1>2. CASE RunCommand(Dir) \/ RunCommand(Tx)
  <2>1. PICK p \in {Dir, Tx} : RunCommand(p)
    BY <1>2
  <2>2. p \in Place /\ Edits(p)
    BY <2>1, PlaceFacts DEF RunCommand, Edits
  <2>3. /\ \A q \in Place : q # p => disk'[q] = disk[q]
        /\ disk'[p]["audit.log"] \in {disk[p]["audit.log"], Appended(disk[p]["audit.log"])}
    BY <2>2, EditsEffect
  <2> QED BY <1>1, <2>3
<1>3. CASE UNCHANGED disk
  BY <1>3
<1>4. CASE CopyOpen \/ CopyFill
  <2>1. pc = "copy" /\ todo # <<>> /\ \E x : PutAt(job.to, Head(todo), x)
    BY <1>4 DEF CopyOpen, CopyFill, Put, PutAt
  <2>2. /\ job.to \in Place /\ (Makes(job) \/ Installs(job))
        /\ Head(todo) \in File /\ Head(todo) \in Pending(todo)
    BY <2>1, CopyNext
  <2>3. job.to # Dir \/ Head(todo) # "audit.log"
    <3>1. Pending(todo) \subseteq Csv \/ job.op \in {"tx begin", "archive create"}
      BY <2>1 DEF IInv, Jobs
    <3> QED BY <2>2, <3>1, PlaceFacts, FileFacts DEF Makes, Installs
  <2>4. PICK x : PutAt(job.to, Head(todo), x)
    BY <2>1
  <2>5. \A q \in Place, g \in File : q # job.to \/ g # Head(todo) => disk'[q][g] = disk[q][g]
    BY <1>1, <2>2, <2>4, PutEffect
  <2> QED BY <1>1, <2>3, <2>5
<1>5. CASE RemoveFile
  <2>1. PICK f \in File : PutAt(job.to, f, Missing)
    BY <1>5 DEF RemoveFile, PutAt
  <2>2. job.to \in Place /\ job.to # Dir
    BY <1>5, RemovePlace DEF RemoveFile
  <2> QED BY <1>1, <2>1, <2>2, PutEffect
<1>6. CASE PruneBackups
  <2>1. disk'[Dir] = disk[Dir]
    BY <1>1, <1>6, PrunesFacts, PrunesEffect, Parts, PlaceFacts
  <2> QED BY <2>1
<1>7. CASE Audit
  <2>1. PutAt(Dir, "audit.log", Appended(disk[Dir]["audit.log"]))
    BY <1>7 DEF Audit, Recorded, PutAt
  <2> QED BY <1>1, <2>1, PutEffect
<1>8. CASE Starts
  BY <1>8 DEF Starts, TxBegin, TxCommit, TxAbort, SnapshotCreate, SnapshotRestore, SnapshotPrune,
         ArchiveCreate, ArchiveExtract, MakeBackup, Restore, Start, Remove
<1>9. CASE CopyFails \/ CopySkip \/ Copied \/ RemoveDir \/ RemoveFails \/ Kill \/ Tick
  BY <1>9 DEF CopyFails, CopySkip, Copied, RemoveDir, RemoveFails, Kill, Tick
<1> QED BY <1>2, <1>3, <1>4, <1>5, <1>6, <1>7, <1>8, <1>9 DEF Next, Step, Starts

\* The audit log of the dataset only grows, whatever is committed, restored or
\* killed, but for archive extract and audit prune.
THEOREM LogGrows == ASSUME Distinct PROVE Spec => AuditGrows
<1>1. ASSUME IInv, [Next]_vars, job.op # "archive extract", ~\E k \in Keep : AuditPrune(k),
             disk[Dir]["audit.log"] # Torn
      PROVE  Extends(disk[Dir]["audit.log"], disk'[Dir]["audit.log"])
  <2>1. Good(disk[Dir]["audit.log"])
    BY <1>1, AllGood, PlaceFacts
  <2>2. disk'[Dir]["audit.log"] \in {disk[Dir]["audit.log"], Appended(disk[Dir]["audit.log"])}
    BY <1>1, DirLog DEF vars
  <2> QED BY <1>1, <2>1, <2>2, OneMore
<1>2. IInv /\ [Next]_vars =>
        [job.op # "archive extract" /\ ~(\E k \in Keep : AuditPrune(k))
           /\ disk[Dir]["audit.log"] # Torn
         => /\ disk'[Dir]["audit.log"] # Torn
            /\ Len(Log(Dir)) <= Len(Log(Dir)')
            /\ SubSeq(Log(Dir)', 1, Len(Log(Dir))) = Log(Dir)]_vars
  BY <1>1 DEF Extends, Log
<1> QED BY <1>2, Inductive, PTL DEF Spec, AuditGrows

-----------------------------------------------------------------------------
(* The careful operator: WInv is inductive.                                  *)
LEMMA WInit == Init => WInv
<1> SUFFICES ASSUME Init PROVE WInv
  OBVIOUS
<1>1. partial = {} /\ there = {Dir}
  BY DEF Init
<1>2. \A f \in Csv : disk[Dir][f] = {}
  BY PlaceFacts, FileFacts DEF Init
<1>3. \A f \in Csv : disk[Dir][f] # Torn
  BY <1>2, WorkspaceAssumption
<1>4. \A p \in Slot \cup {Tx} : ~Complete(p)
  BY <1>1, SlotFacts, PlaceFacts DEF Complete
<1> QED BY <1>1, <1>3, <1>4 DEF WInv, Under, Unbroken, Remains

\* Between two commands nothing of the dataset or of .tx is half done, unless
\* the last one was killed.
LEMMA Rest ==
    ASSUME IInv, WInv, Idle, ~killed
    PROVE  job = NoJob /\ Dir \notin partial /\ Tx \notin partial
<1>1. job = NoJob
  BY Parts DEF Jobs
<1> QED BY <1>1, PlaceFacts DEF WInv, Under, Installs, Idle, NoJob

\* What a killed command can be, and what may be run after it.
LEMMA Afterwards ==
    ASSUME Careful, IInv, WInv, NEW op, NEW from, MayStart(op, from), killed
    PROVE  /\ Remedy(op, from)
           /\ \/ /\ job.op = "tx begin" /\ job.to = Tx /\ job.from = Dir
                 /\ op = "tx abort" /\ Dir \notin partial
              \/ /\ job.op = "tx abort" /\ job.to = Tx
                 /\ op = "tx abort" /\ Dir \notin partial
              \/ /\ job.op = "tx commit" /\ job.from = Tx /\ job.to = Tx
                 /\ op = "tx commit" /\ Dir \notin partial /\ Tx \in partial
              \/ /\ job.op = "tx commit" /\ job.from = Tx /\ job.to = Dir
                 /\ op = "tx commit" /\ Dir \in partial
              \/ /\ Installs(job) /\ job.op \in {"archive extract", "snapshot restore", "restore"}
                 /\ op = job.op /\ from = job.from /\ Dir \in partial /\ Tx \notin partial
<1>1. Remedy(op, from) /\ Jobs
  BY Parts DEF MayStart
<1>2. /\ job.to \in partial
      /\ Installs(job) \/ (job.to = Tx /\ (Makes(job) \/ Removes(job)))
  BY <1>1 DEF Jobs
<1>3. Dir \in partial => Installs(job)
  BY DEF WInv, Under
<1>4. Tx \in partial => job.op \in {"tx begin", "tx commit", "tx abort"}
  BY DEF WInv, Under
<1>5. CASE job.to = Tx /\ Makes(job)
  <2>1. job.op = "tx begin" /\ job.from = Dir /\ ~Installs(job)
    BY <1>5, PlaceFacts DEF Makes, Installs
  <2> QED BY <1>1, <1>3, <1>5, <2>1 DEF Remedy
<1>6. CASE job.to = Tx /\ Removes(job)
  <2>1. /\ ~Installs(job)
        /\ job.op = "tx abort" \/ (job.op = "tx commit" /\ job.from = Tx)
    BY <1>6, PlaceFacts DEF Removes, Installs
  <2> QED BY <1>1, <1>2, <1>3, <1>6, <2>1 DEF Remedy
<1>7. CASE Installs(job)
  <2>1. job.to = Dir
    BY <1>7 DEF Installs
  <2>2. CASE job.op = "tx commit"
    <3>1. job.from = Tx
      BY <1>7, <2>2 DEF Installs
    <3> QED BY <1>1, <1>2, <2>1, <2>2, <3>1 DEF Remedy
  <2>3. CASE job.op # "tx commit"
    <3>1. job.op \in {"archive extract", "snapshot restore", "restore"}
      BY <1>7, <2>3 DEF Installs
    <3> QED BY <1>1, <1>2, <1>4, <1>7, <2>1, <3>1 DEF Remedy
  <2> QED BY <2>2, <2>3
<1> QED BY <1>2, <1>5, <1>6, <1>7

\* How a careful operator starts a command that copies: at rest, or to run
\* again an install that was killed.
LEMMA CarefulStart ==
    ASSUME Careful, IInv, WInv, NEW op, NEW from, NEW to, NEW files, Start(op, from, to, files),
           Copies([op |-> op, from |-> from, to |-> to], files)
    PROVE  /\ killed => to = Dir
           /\ \/ /\ ~killed /\ job = NoJob
                 /\ Dir \notin partial /\ Tx \notin partial /\ from \notin partial
              \/ /\ killed /\ op = "tx commit" /\ job.op = op /\ from = Tx
                 /\ job.from = Tx /\ Dir \notin partial /\ Tx \in partial
              \/ /\ killed /\ op = job.op /\ from = job.from
                 /\ Installs(job) /\ Dir \in partial
                 /\ Tx \in partial => op = "tx commit"
<1> DEFINE j == [op |-> op, from |-> from, to |-> to]
<1>1. MayStart(op, from) /\ Idle /\ (Careful => from \notin partial \/ Remedy(op, from))
  BY DEF Start, MayStart
<1>2. (Makes(j) \/ Installs(j)) /\ j.op = op /\ j.from = from /\ j.to = to
  BY DEF Copies
<1> HIDE DEF j
<1>3. op \in {"tx commit", "archive extract", "snapshot restore", "restore"} => Installs(j)
  BY <1>2 DEF Makes
<1>4. op # "tx abort" /\ op # "none"
  BY <1>2 DEF Makes, Installs
<1>5. CASE ~killed
  <2>1. job = NoJob /\ Dir \notin partial /\ Tx \notin partial
    BY <1>1, <1>5, Rest
  <2>2. ~Remedy(op, from)
    BY <2>1, <1>4 DEF Remedy, NoJob
  <2> QED BY <1>1, <1>5, <2>1, <2>2
<1>6. CASE killed
  <2>1. op = "tx commit" => from = Tx /\ to = Dir
    BY <1>2, <1>3 DEF Installs
  <2>2. op \in {"archive extract", "snapshot restore", "restore"} => to = Dir
    BY <1>2, <1>3 DEF Installs
  <2>3. job.op = "tx commit" /\ job.from = Tx /\ job.to = Dir => Installs(job)
    BY DEF Installs
  <2>4. \/ op = "tx commit" /\ job.op = op /\ job.from = Tx /\ job.to = Tx
              /\ Dir \notin partial /\ Tx \in partial
        \/ op = "tx commit" /\ job.op = op /\ job.from = Tx /\ job.to = Dir /\ Dir \in partial
        \/ /\ Installs(job) /\ job.op \in {"archive extract", "snapshot restore", "restore"}
           /\ op = job.op /\ from = job.from /\ Dir \in partial /\ Tx \notin partial
    <3>1. MayStart(op, from)
      BY <1>1
    <3> QED BY <1>4, <1>6, <3>1, Afterwards
  <2> QED BY <1>6, <2>1, <2>2, <2>3, <2>4
<1> QED BY <1>5, <1>6

\* What a command that installs finds where it copies from.
Whole(p) == p = Backups \/ p \in (Slot \cup {Tx}) \cap there

LEMMA StartWInv ==
    ASSUME Careful, IInv, WInv, NEW op, NEW from, NEW to, NEW files, Start(op, from, to, files),
           Copies([op |-> op, from |-> from, to |-> to], files), to = Dir => Whole(from)
    PROVE  WInv'
<1> DEFINE j == [op |-> op, from |-> from, to |-> to]
<1>1. Fit /\ Vars /\ Absent /\ Jobs /\ Same /\ Present
  BY Parts
<1>2. /\ pc' = "copy" /\ job' = j /\ todo' = files /\ killed' = FALSE
      /\ there' = there \cup {to} /\ partial' = partial \cup {to}
      /\ disk' = disk /\ now' = now
  BY DEF Start
<1>3. j \in Job /\ (Makes(j) \/ Installs(j)) /\ j.op = op /\ j.from = from /\ j.to = to
  BY DEF Copies
<1>4. to = Dir => Installs(j) /\ op # "tx begin"
  BY <1>3, PlaceFacts DEF Makes, Installs
<1>5. to = Tx => op = "tx begin"
  BY <1>3, PlaceFacts DEF Makes, Installs
<1>6. op = "tx commit" => to = Dir
  BY <1>3 DEF Makes, Installs
<1> HIDE DEF j
<1>7. \/ ~killed /\ Dir \notin partial /\ Tx \notin partial /\ from \notin partial
      \/ /\ op = "tx commit" /\ job.op = op /\ from = Tx /\ to = Dir
         /\ Dir \notin partial /\ Tx \in partial
      \/ /\ from = job.from /\ to = Dir /\ Dir \in partial
         /\ Tx \in partial => op = "tx commit"
  <2>1. \/ /\ ~killed /\ job = NoJob
           /\ Dir \notin partial /\ Tx \notin partial /\ from \notin partial
        \/ /\ killed /\ op = "tx commit" /\ job.op = op /\ from = Tx
           /\ job.from = Tx /\ Dir \notin partial /\ Tx \in partial
        \/ /\ killed /\ op = job.op /\ from = job.from
           /\ Installs(job) /\ Dir \in partial
           /\ Tx \in partial => op = "tx commit"
    BY CarefulStart, Zenon
  <2>2. killed => to = Dir
    BY CarefulStart, Zenon
  <2> QED BY <2>1, <2>2
<1>8. /\ \A p : p # to => (p \in flawed' <=> p \in flawed)
      /\ to \notin flawed' => \/ from \in there \ (partial \cup flawed)
                              \/ to \notin flawed /\ from \notin flawed
  BY StartFlawed
<1>9. Under'
  <2>1. Dir \in partial' => to = Dir
    BY <1>2, <1>7
  <2>2. Tx \in partial' => op \in {"tx begin", "tx commit"}
    BY <1>2, <1>5, <1>7
  <2> QED BY <1>2, <1>3, <1>4, <2>1, <2>2 DEF Under
<1>10. Unbroken'
  <2>1. Dir \notin partial' \cup flawed' => \A f \in Csv : disk[Dir][f] # Torn
    BY <1>2, <1>8 DEF WInv, Unbroken
  <2>2. ASSUME Dir \in partial' \ flawed', NEW f \in Csv
        PROVE  disk[from][f] # Torn /\ (disk[from][f] = Missing => disk[Dir][f] # Torn)
    <3>1. to = Dir
      BY <1>2, <1>7, <2>2
    <3>2. CASE from \in there \ (partial \cup flawed)
      <4>1. from # Backups /\ Complete(from)
        BY <1>1, <3>2 DEF Vars, Complete
      <4>2. from \in Slot \cup {Tx}
        BY <3>1, <4>1 DEF Whole
      <4> QED BY <4>1, <4>2 DEF WInv, Unbroken
    <3>3. CASE Dir \notin flawed /\ from = Backups /\ Dir \notin partial
      <4>1. disk[Dir][f] # Torn
        BY <3>3 DEF WInv, Unbroken
      <4>2. disk[from] = Nothing
        BY <1>1, <3>3, PlaceFacts DEF Vars, Absent
      <4> QED BY <4>1, <4>2, NothingFacts, FileFacts, WorkspaceAssumption
    <3>4. CASE /\ op = "tx commit" /\ job.op = op /\ from = Tx
               /\ Dir \notin partial \cup flawed /\ Tx \in partial
      <4>1. disk[Dir][f] # Torn
        BY <3>4 DEF WInv, Unbroken
      <4>2. disk[Tx][f] \in {Missing, disk[Dir][f]}
        BY <3>4 DEF WInv, Remains
      <4> QED BY <3>4, <4>1, <4>2, WorkspaceAssumption
    <3>5. CASE from = job.from /\ Dir \in partial \ flawed
      BY <3>5 DEF WInv, Unbroken
    <3>6. \/ from \in there \ (partial \cup flawed)
          \/ Dir \notin flawed /\ from \notin flawed
      BY <1>8, <2>2, <3>1
    <3>7. Whole(from)
      BY <3>1
    <3> QED BY <1>7, <3>2, <3>3, <3>4, <3>5, <3>6, <3>7 DEF Whole
  <2>3. ASSUME NEW p \in Slot \cup {Tx}, p \in there' \ (partial' \cup flawed'), NEW f \in Csv
        PROVE  disk[p][f] \notin {Torn, Missing}
    <3>1. Complete(p)
      BY <1>2, <1>8, <2>3 DEF Complete
    <3> QED BY <3>1 DEF WInv, Unbroken
  <2> QED BY <1>2, <1>3, <2>1, <2>2, <2>3 DEF Unbroken, Complete
<1>11. Remains'
  BY <1>2, <1>3, <1>6 DEF Remains
<1> QED BY <1>9, <1>10, <1>11 DEF WInv

LEMMA StartsWInv == ASSUME Careful, IInv, WInv, Starts PROVE WInv'
<1> USE PlaceFacts, SlotFacts
<1>1. now \in Time
  BY DEF IInv, TypeOK
<1>2. CASE TxBegin
  <2>1. Copies([op |-> "tx begin", from |-> Dir, to |-> Tx], WithAudit)
    BY DEF Copies, Makes, Job
  <2> QED BY <1>2, <2>1, StartWInv DEF TxBegin
<1>3. CASE TxCommit
  <2>1. Copies([op |-> "tx commit", from |-> Tx, to |-> Dir], Both) /\ Whole(Tx)
    BY <1>3 DEF TxCommit, Copies, Installs, Job, Whole
  <2> QED BY <1>3, <2>1, StartWInv DEF TxCommit
<1>4. CASE TxAbort
  <2>1. /\ pc' = "remove" /\ job'.op = "tx abort" /\ partial' = partial \cup {Tx}
        /\ UNCHANGED <<disk, there, flawed>> /\ MayStart("tx abort", Dir)
    BY <1>4 DEF TxAbort, Remove
  <2>2. Dir \notin partial
    <3>1. CASE ~killed
      BY <2>1, <3>1, Rest DEF MayStart
    <3>2. CASE killed
      BY <2>1, <3>2, Afterwards
    <3> QED BY <3>1, <3>2
  <2> QED BY <2>1, <2>2 DEF WInv, Under, Unbroken, Complete, Remains
<1>5. CASE SnapshotCreate
  <2>1. Copies([op |-> "snapshot create", from |-> Dir, to |-> Snapshot(now)], Both)
    BY <1>1 DEF Copies, Makes, Job
  <2> QED BY <1>5, <2>1, StartWInv DEF SnapshotCreate
<1>6. ASSUME NEW t \in Time, SnapshotRestore(t) PROVE WInv'
  <2>1. Copies([op |-> "snapshot restore", from |-> Snapshot(t), to |-> Dir], Both)
        /\ Whole(Snapshot(t))
    BY <1>6 DEF SnapshotRestore, Copies, Installs, Job, Whole
  <2> QED BY <1>6, <2>1, StartWInv DEF SnapshotRestore
<1>7. ASSUME NEW k \in Keep, SnapshotPrune(k) PROVE WInv'
  <2>1. PICK t \in Pruned(k) : Remove("snapshot prune", Snapshot(t))
    BY <1>7 DEF SnapshotPrune
  <2>2. /\ pc' = "remove" /\ job'.op = "snapshot prune" /\ partial' = partial \cup {Snapshot(t)}
        /\ UNCHANGED <<disk, there, flawed>> /\ MayStart("snapshot prune", Dir)
    BY <1>7, <2>1 DEF SnapshotPrune, Remove
  <2>3. Dir \notin partial /\ Tx \notin partial
    <3>1. CASE ~killed
      BY <2>2, <3>1, Rest DEF MayStart
    <3>2. CASE killed
      BY <2>2, <3>2, Afterwards
    <3> QED BY <3>1, <3>2
  <2>4. Dir \notin partial' /\ Tx \notin partial'
    BY <2>2, <2>3
  <2> QED BY <2>2, <2>4 DEF WInv, Under, Unbroken, Complete, Remains
<1>8. CASE ArchiveCreate
  <2>1. Copies([op |-> "archive create", from |-> Dir, to |-> Archive], WithAudit)
    BY DEF Copies, Makes, Job
  <2> QED BY <1>8, <2>1, StartWInv DEF ArchiveCreate
<1>9. CASE ArchiveExtract
  <2>1. Copies([op |-> "archive extract", from |-> Archive, to |-> Dir], WithAudit)
        /\ Whole(Archive)
    BY <1>9 DEF ArchiveExtract, Copies, Installs, Job, Whole
  <2> QED BY <1>9, <2>1, StartWInv DEF ArchiveExtract
<1>10. CASE MakeBackup
  <2>1. Copies([op |-> "backup", from |-> Dir, to |-> Backup(now)], Both)
    BY <1>1 DEF Copies, Makes, Job
  <2> QED BY <1>10, <2>1, StartWInv DEF MakeBackup
<1>11. ASSUME NEW p \in {Backups} \cup {Snapshot(t) : t \in Time}, Restore(p) PROVE WInv'
  <2>1. Copies([op |-> "restore", from |-> p, to |-> Dir], Both)
    BY DEF Copies, Installs, Job
  <2>2. Whole(p)
    BY <1>11 DEF Restore, Whole
  <2> QED BY <1>11, <2>1, <2>2, StartWInv DEF Restore
<1> QED BY <1>2, <1>3, <1>4, <1>5, <1>6, <1>7, <1>8, <1>9, <1>10, <1>11 DEF Starts

\* The dataset is not being installed while a copy of it is made, or one removed.
LEMMA NotInstalling ==
    ASSUME IInv, WInv, ~Idle, ~Installs(job)
    PROVE  Dir \notin partial
  BY DEF WInv, Under

\* Outside of copying and removing nothing of it is half done.
LEMMA Quiet ==
    ASSUME IInv, WInv, pc \in {"prune", "audit"}
    PROVE  Dir \notin partial /\ Tx \notin partial
<1>1. ~killed
  BY Parts DEF Jobs, Idle
<1> QED BY <1>1 DEF WInv, Under

\* A step of a copy, or of a removal, writes only the place it is at work on.
LEMMA WriteWInv ==
    ASSUME IInv, WInv, pc \in {"copy", "remove"}, NEW f \in File, NEW x, PutAt(job.to, f, x),
           pc = "copy" => disk[job.from][f] # Missing,
           pc = "remove" => x = Missing,
           UNCHANGED <<there, partial, flawed, job, pc, killed>>
    PROVE  WInv'
<1>1. Vars /\ Jobs /\ Shape
  BY Parts DEF IInv
<1>2. /\ job.to \in Place /\ job.from \in Place /\ job.to \in partial
      /\ \/ pc = "copy" /\ (Makes(job) \/ Installs(job))
         \/ pc = "remove" /\ Removes(job)
  BY <1>1 DEF Vars, Jobs, Job
<1>3. \A q \in Place, g \in File : q # job.to \/ g # f => disk'[q][g] = disk[q][g]
  BY <1>1, <1>2, PutEffect
<1>4. disk'[job.to][f] = x
  BY <1>1, <1>2, PutEffect
<1>5. Under'
  BY DEF WInv, Under
<1>6. Unbroken'
  <2>1. ASSUME Dir \notin partial \cup flawed, NEW g \in Csv PROVE disk'[Dir][g] # Torn
    <3>1. Dir # job.to /\ g \in File /\ Dir \in Place
      BY <1>2, <2>1, FileFacts, PlaceFacts
    <3>2. disk'[Dir][g] = disk[Dir][g]
      BY <1>3, <3>1
    <3> QED BY <2>1, <3>2 DEF WInv, Unbroken
  <2>2. ASSUME Dir \in partial \ flawed, NEW g \in Csv
        PROVE  disk'[job.from][g] # Torn /\ (disk'[job.from][g] = Missing => disk'[Dir][g] # Torn)
    <3>1. Installs(job)
      BY <2>2 DEF WInv, Under
    <3>2. job.to = Dir /\ job.from # Dir /\ g \in File /\ Dir \in Place
      BY <3>1, FileFacts, PlaceFacts DEF Installs
    <3>3. disk'[job.from][g] = disk[job.from][g]
      BY <1>2, <1>3, <3>2
    <3>4. pc = "copy"
      <4>1. ~Removes(job)
        BY <3>1, <3>2, PlaceFacts DEF Removes
      <4> QED BY <1>2, <4>1
    <3>5. disk[job.from][g] = Missing => disk'[Dir][g] = disk[Dir][g]
      BY <1>3, <3>2, <3>4
    <3> QED BY <2>2, <3>3, <3>5 DEF WInv, Unbroken
  <2>3. ASSUME NEW p \in Slot \cup {Tx}, Complete(p), NEW g \in Csv
        PROVE  disk'[p][g] \notin {Torn, Missing}
    <3>1. p # job.to /\ g \in File /\ p \in Place
      BY <1>2, <2>3, FileFacts, PlaceFacts, SlotFacts DEF Complete
    <3>2. disk'[p][g] = disk[p][g]
      BY <1>3, <3>1
    <3> QED BY <2>3, <3>2 DEF WInv, Unbroken
  <2> QED BY <2>1, <2>2, <2>3 DEF Unbroken, Complete
<1>7. Remains'
  <2> SUFFICES ASSUME job.op = "tx commit", Tx \in partial, Dir \notin partial \cup flawed,
                      NEW g \in Csv
               PROVE  disk'[Tx][g] \in {Missing, disk'[Dir][g]}
    BY DEF Remains
  <2>1. pc = "remove" /\ job.to = Tx
    BY <1>2 DEF Makes, Installs, Removes
  <2>2. disk'[Dir][g] = disk[Dir][g]
    BY <1>3, <2>1, FileFacts, PlaceFacts
  <2>3. disk'[Tx][g] \in {Missing, disk[Tx][g]}
    BY <1>3, <1>4, <2>1, FileFacts, PlaceFacts
  <2> QED BY <2>2, <2>3 DEF WInv, Remains
<1> QED BY <1>5, <1>6, <1>7 DEF WInv

\* Where a copy or a removal fails nothing is promised any more.
LEMMA FlawedWInv ==
    ASSUME WInv, flawed \subseteq flawed',
           UNCHANGED <<disk, there, partial, job, pc, killed>>
    PROVE  WInv'
  BY DEF WInv, Under, Unbroken, Complete, Remains

LEMMA CopyWInv == ASSUME IInv, WInv, CopyOpen \/ CopyFill \/ CopyFails \/ CopySkip PROVE WInv'
<1>1. CASE CopyOpen \/ CopyFill
  <2>1. /\ pc = "copy" /\ todo # <<>> /\ Source # Missing
        /\ UNCHANGED <<there, partial, flawed, job, pc, killed>>
    BY <1>1 DEF CopyOpen, CopyFill
  <2>2. PICK x : PutAt(job.to, Head(todo), x)
    BY <1>1 DEF CopyOpen, CopyFill, Put, PutAt
  <2>3. Head(todo) \in File /\ disk[job.from][Head(todo)] # Missing
    BY <2>1, CopyNext DEF Source
  <2> QED BY <2>1, <2>2, <2>3, WriteWInv
<1>2. CASE CopyFails \/ CopySkip
  <2>1. /\ flawed \subseteq flawed'
        /\ UNCHANGED <<disk, there, partial, job, pc, killed>>
    BY <1>2 DEF CopyFails, Unnoticed, CopySkip
  <2> QED BY <2>1, FlawedWInv
<1> QED BY <1>1, <1>2

LEMMA RemoveFileWInv == ASSUME IInv, WInv, RemoveFile PROVE WInv'
<1>1. pc = "remove" /\ UNCHANGED <<there, partial, flawed, job, pc, killed>>
  BY DEF RemoveFile
<1>2. PICK f \in File : PutAt(job.to, f, Missing)
  BY DEF RemoveFile, PutAt
<1> QED BY <1>1, <1>2, WriteWInv

\* When a copy has ended and none of it failed, every csv file is like its source.
LEMMA AllCopied ==
    ASSUME IInv, pc = "copy", todo = <<>>, job.to \notin flawed
    PROVE  /\ job.from \notin flawed
           /\ \A f \in Csv : disk[job.from][f] # Missing => disk[job.to][f] = disk[job.from][f]
  BY Parts, NonePending DEF Same

LEMMA CopiedWInv == ASSUME IInv, WInv, Copied PROVE WInv'
<1>1. Vars /\ Jobs /\ Present
  BY Parts
<1>2. /\ pc = "copy" /\ todo = <<>> /\ pc' = AfterCopy(job.op)
      /\ UNCHANGED <<disk, there, flawed, killed>>
      /\ Makes(job) \/ Installs(job)
      /\ ~killed
  BY <1>1 DEF Copied, Jobs, Idle
<1>3. job.to \notin flawed =>
        /\ job.from \notin flawed
        /\ \A f \in Csv : disk[job.from][f] # Missing => disk[job.to][f] = disk[job.from][f]
  BY <1>2, AllCopied
<1>4. Installs(job) /\ Dir \notin flawed => \A f \in Csv : disk[Dir][f] # Torn
  <2> SUFFICES ASSUME Installs(job), Dir \notin flawed, NEW f \in Csv PROVE disk[Dir][f] # Torn
    OBVIOUS
  <2>1. job.to = Dir /\ Dir \in partial
    BY <1>1, <1>2 DEF Installs, Jobs
  <2> QED BY <1>3, <2>1 DEF WInv, Unbroken
<1>5. Makes(job) => /\ Dir \notin partial
                    /\ Dir \notin flawed => \A f \in Csv : disk[Dir][f] # Torn
  <2>1. Makes(job) => ~Installs(job)
    BY PlaceFacts DEF Makes, Installs
  <2> QED BY <1>2, <2>1 DEF WInv, Under, Unbroken
<1>6. CASE job.op = "tx commit"
  <2>1. Installs(job) /\ job.from = Tx /\ job.to = Dir
    BY <1>2, <1>6 DEF Makes, Installs
  <2>2. /\ partial' = (partial \ {Dir}) \cup {Tx} /\ job' = [job EXCEPT !.to = Tx]
        /\ pc' = "remove"
    BY <1>2, <1>6 DEF Copied, AfterCopy
  <2>3. job'.op = "tx commit"
    BY <1>1, <1>6, <2>2 DEF Vars, Job
  <2>4. Dir \notin partial' /\ Tx \in partial'
    <3>1. Dir # Tx /\ partial' = (partial \ {Dir}) \cup {Tx}
      BY <2>2, PlaceFacts
    <3> QED BY ONLY <3>1
  <2>5. Under'
    BY <2>2, <2>3, <2>4 DEF Under
  <2>6. Unbroken'
    <3>1. \A p \in Slot \cup {Tx} : p \in there \ (partial' \cup flawed) => Complete(p)
      BY <2>2, SlotFacts, PlaceFacts DEF Complete
    <3> QED BY <1>2, <1>4, <2>1, <2>4, <3>1 DEF WInv, Unbroken, Complete
  <2>7. Remains'
    BY <1>2, <1>3, <2>1 DEF Remains
  <2> QED BY <2>5, <2>6, <2>7 DEF WInv
<1>7. CASE job.op # "tx commit"
  <2>1. /\ partial' = partial \ {job.to}
        /\ job'.op # "tx commit"
    <3>1. job' \in {job, NoJob} /\ partial' = partial \ {job.to}
      BY <1>2, <1>7 DEF Copied, Done
    <3>2. NoJob.op # "tx commit"
      BY DEF NoJob
    <3> QED BY <1>7, <3>1, <3>2
  <2>2. Dir \notin partial' /\ Tx \notin partial'
    <3>1. Dir \notin partial'
      BY <1>2, <1>5, <2>1 DEF Installs
    <3>2. Tx \in partial => job.to = Tx
      <4>1. Tx \in partial => job.op \in {"tx begin", "tx abort"}
        BY <1>7 DEF WInv, Under
      <4> QED BY <1>2, <4>1 DEF Makes, Installs
    <3> QED BY <2>1, <3>1, <3>2
  <2>3. Dir \notin flawed => \A f \in Csv : disk[Dir][f] # Torn
    BY <1>2, <1>4, <1>5
  <2>4. ASSUME NEW p \in Slot \cup {Tx}, p \in there \ (partial' \cup flawed), NEW f \in Csv
        PROVE  disk[p][f] \notin {Torn, Missing}
    <3>1. CASE p # job.to
      BY <2>1, <2>4, <3>1 DEF WInv, Unbroken, Complete
    <3>2. CASE p = job.to
      <4>1. job.from = Dir
        BY <1>2, <3>2, SlotFacts, PlaceFacts DEF Makes, Installs
      <4>2. disk[Dir][f] # Missing
        BY <1>1 DEF Present
      <4> QED BY <1>3, <2>3, <2>4, <3>2, <4>1, <4>2
    <3> QED BY <3>1, <3>2
  <2>5. Under' /\ Remains'
    BY <2>1, <2>2 DEF Under, Remains
  <2>6. Unbroken'
    BY <1>2, <2>2, <2>3, <2>4 DEF Unbroken, Complete
  <2> QED BY <2>5, <2>6 DEF WInv
<1> QED BY <1>6, <1>7

LEMMA RemoveDirWInv == ASSUME IInv, WInv, RemoveDir \/ RemoveFails PROVE WInv'
<1>1. /\ pc = "remove" /\ partial' = partial \ {job.to}
      /\ UNCHANGED <<disk, killed>>
      /\ \/ there' = there \ {job.to} /\ flawed' = flawed \ {job.to}
         \/ there' = there /\ flawed' = flawed \cup {job.to}
  BY DEF RemoveDir, RemoveFails, Unnoticed
<1>2. Removes(job)
  BY <1>1, Parts DEF Jobs
<1>3. Dir \notin partial /\ job.to # Dir
  <2>1. ~Installs(job) /\ job.to # Dir
    BY <1>2, PlaceFacts DEF Removes, Installs
  <2> QED BY <1>1, <2>1, NotInstalling DEF Idle
<1>4. Tx \in partial => job.to = Tx
  BY <1>2 DEF Removes, WInv, Under
<1>5. Dir \notin partial' /\ Tx \notin partial'
  BY <1>1, <1>3, <1>4
<1>6. /\ there' \ (partial' \cup flawed') \subseteq there \ (partial \cup flawed)
      /\ Dir \in flawed' <=> Dir \in flawed
  BY <1>1, <1>3
<1>7. Unbroken'
  BY <1>1, <1>3, <1>5, <1>6 DEF WInv, Unbroken, Complete
<1> QED BY <1>5, <1>7 DEF WInv, Under, Remains

LEMMA PruneBackupsWInv == ASSUME IInv, WInv, PruneBackups PROVE WInv'
<1>1. Dir \notin partial /\ Tx \notin partial
  BY Quiet DEF PruneBackups
<1>2. /\ \A p \in Slot \cup {Dir, Tx} :
           disk'[p] = disk[p] /\ (p \in flawed' <=> p \in flawed)
                              /\ (p \in there' \ partial' <=> p \in there \ partial)
      /\ partial' \subseteq partial /\ UNCHANGED <<job, killed>>
  BY PrunesOthers
<1>3. Unbroken'
  BY <1>1, <1>2 DEF WInv, Unbroken, Complete
<1> QED BY <1>1, <1>2, <1>3 DEF WInv, Under, Remains

\* A step that changes no csv file, and begins or ends nothing of the dataset.
LEMMA CsvKept ==
    ASSUME IInv, WInv, \A p \in Place, f \in Csv : disk'[p][f] = disk[p][f],
           UNCHANGED <<there, partial, flawed>>,
           UNCHANGED <<job, pc, killed>> \/ (Dir \notin partial /\ Tx \notin partial)
    PROVE  WInv'
<1>1. Dir \in Place /\ Tx \in Place /\ Slot \subseteq Place /\ job.from \in Place
  BY PlaceFacts, SlotFacts DEF IInv, TypeOK
<1>2. Under' /\ Remains'
  BY <1>1 DEF WInv, Under, Remains
<1>3. Unbroken'
  BY <1>1 DEF WInv, Unbroken, Complete
<1> QED BY <1>2, <1>3 DEF WInv

LEMMA AuditWInv == ASSUME IInv, WInv, Audit PROVE WInv'
<1>1. /\ Dir \notin partial /\ Tx \notin partial /\ UNCHANGED <<there, partial, flawed>>
      /\ PutAt(Dir, "audit.log", Appended(disk[Dir]["audit.log"]))
  BY Quiet DEF Audit, Recorded, PutAt
<1>2. \A p \in Place, f \in Csv : disk'[p][f] = disk[p][f]
  BY <1>1, PutEffect, PlaceFacts, FileFacts DEF IInv
<1> QED BY <1>1, <1>2, CsvKept

LEMMA AuditPruneWInv == ASSUME IInv, WInv, NEW k, AuditPrune(k) PROVE WInv'
<1>1. UNCHANGED <<there, partial, flawed, job, pc, killed>> /\ PutAt(Dir, "audit.log", Missing)
  BY DEF AuditPrune, PutAt
<1>2. \A p \in Place, f \in Csv : disk'[p][f] = disk[p][f]
  BY <1>1, PutEffect, PlaceFacts, FileFacts DEF IInv
<1> QED BY <1>1, <1>2, CsvKept

LEMMA KillWInv == ASSUME IInv, WInv, Kill PROVE WInv'
<1>1. /\ ~Idle /\ pc' = "idle" /\ UNCHANGED <<disk, there, partial, flawed>>
      /\ killed' = \/ pc = "remove" /\ job.to = Tx
                   \/ pc = "copy" /\ job.to \in {Dir, Tx}
      /\ job' = IF killed' THEN job ELSE NoJob
  BY DEF Kill
<1>2. Jobs /\ ~killed
  BY <1>1, Parts DEF Jobs
<1>3. Dir \in partial => killed' /\ Installs(job)
  BY <1>1, <1>2 DEF WInv, Under, Installs
<1>4. Tx \in partial => killed' /\ job.op \in {"tx begin", "tx commit", "tx abort"}
  <2> SUFFICES ASSUME Tx \in partial PROVE killed' /\ job.op \in {"tx begin", "tx commit", "tx abort"}
    OBVIOUS
  <2>1. job.op \in {"tx begin", "tx commit", "tx abort"} /\ pc \in {"copy", "remove"}
    BY <1>2 DEF WInv, Under
  <2>2. CASE pc = "copy"
    <3>1. job.to \in {Dir, Tx}
      BY <1>2, <2>1, <2>2 DEF Jobs, Makes, Installs
    <3> QED BY <1>1, <2>1, <2>2, <3>1
  <2>3. CASE pc = "remove"
    <3>1. job.to = Tx
      BY <1>2, <2>1, <2>3 DEF Jobs, Removes
    <3> QED BY <1>1, <2>1, <2>3, <3>1
  <2> QED BY <2>1, <2>2, <2>3
<1>5. killed' => job' = job
  BY <1>1
<1>6. Under'
  BY <1>1, <1>3, <1>4, <1>5 DEF Under
<1>7. Unbroken' /\ Remains'
  BY <1>1, <1>3, <1>4, <1>5 DEF WInv, Unbroken, Complete, Remains
<1> QED BY <1>6, <1>7 DEF WInv

\* An edit of a careful operator changes whole texts only, but where a copy failed.
LEMMA EditsWhole ==
    ASSUME Careful, IInv, WInv, NEW p \in {Dir, Tx}, RunCommand(p)
    PROVE  /\ job = NoJob /\ Dir \notin partial /\ Tx \notin partial /\ p \in there
           /\ UNCHANGED <<there, partial, flawed, job, pc, killed>>
           /\ \A q \in Place : q # p => disk'[q] = disk[q]
           /\ p \notin flawed =>
                /\ \A f \in Csv : disk[p][f] \in SUBSET Edit /\ disk'[p][f] \in SUBSET Edit
                /\ \E e \in Edit, fs \in SUBSET Csv : \A f \in Csv :
                     disk'[p][f] = IF f \in fs THEN disk[p][f] \cup {e} ELSE disk[p][f]
<1>1. /\ MayStart("edit", p) /\ p \in there /\ Edits(p)
      /\ UNCHANGED <<there, partial, flawed, job, pc, killed>>
  BY DEF RunCommand, Edits
<1>2. ~killed
  <2>1. killed => "edit" \in {"tx abort", "tx commit", "archive extract", "snapshot restore", "restore"}
    BY <1>1, Afterwards, Zenon
  <2> QED BY <2>1
<1>3. job = NoJob /\ Dir \notin partial /\ Tx \notin partial
  BY <1>1, <1>2, Rest DEF MayStart
<1>4. p \in Place /\ Present /\ Fit
  BY Parts, PlaceFacts
<1>5. \A q \in Place : q # p => disk'[q] = disk[q]
  BY <1>1, <1>4, EditsEffect
<1>6. ASSUME p \notin flawed
      PROVE  /\ \A f \in Csv : disk[p][f] \in SUBSET Edit /\ disk'[p][f] \in SUBSET Edit
             /\ \E e \in Edit, fs \in SUBSET Csv : \A f \in Csv :
                  disk'[p][f] = IF f \in fs THEN disk[p][f] \cup {e} ELSE disk[p][f]
  <2>1. \A f \in Csv : disk[p][f] \in Text \ {Missing, Torn}
    <3>1. \A f \in Csv : disk[p][f] \in Text
      BY <1>4 DEF Fit
    <3>2. CASE p = Dir
      BY <1>3, <1>4, <1>6, <3>1, <3>2 DEF Present, WInv, Unbroken
    <3>3. CASE p = Tx
      BY <1>1, <1>3, <1>6, <3>1, <3>3 DEF WInv, Unbroken, Complete
    <3> QED BY <3>2, <3>3
  <2>2. PICK e \in Edit, fs \in SUBSET Csv : \A f \in Csv :
          disk'[p][f] = IF f \in fs THEN With(disk[p][f], e) ELSE disk[p][f]
    BY <1>1, <1>4, EditsEffect
  <2>3. \A f \in Csv : disk'[p][f] = IF f \in fs THEN disk[p][f] \cup {e} ELSE disk[p][f]
    BY <2>1, <2>2, WithFacts
  <2>4. \A f \in Csv : disk[p][f] \in SUBSET Edit
    BY <2>1, TextFacts
  <2>5. \A f \in Csv : disk'[p][f] \in SUBSET Edit
    BY <2>3, <2>4
  <2> QED BY <2>3, <2>4, <2>5
<1> QED BY <1>1, <1>3, <1>5, <1>6

LEMMA RunCommandWInv ==
    ASSUME Careful, IInv, WInv, NEW p \in {Dir, Tx}, RunCommand(p)
    PROVE  WInv'
<1>1. /\ job = NoJob /\ Dir \notin partial /\ Tx \notin partial /\ p \in there
      /\ UNCHANGED <<there, partial, flawed, job, pc, killed>>
      /\ \A q \in Place : q # p => disk'[q] = disk[q]
      /\ p \notin flawed => \A f \in Csv : disk'[p][f] \in SUBSET Edit
  BY EditsWhole
<1>2. p \notin flawed => \A f \in Csv : disk'[p][f] \notin {Torn, Missing}
  BY <1>1, TextFacts
<1>3. Unbroken'
  BY <1>1, <1>2, PlaceFacts, SlotFacts DEF WInv, Unbroken, Complete
<1> QED BY <1>1, <1>3 DEF WInv, Under, Remains

LEMMA NextWInv == ASSUME Careful PROVE IInv /\ WInv /\ [Next]_vars => WInv'
<1> SUFFICES ASSUME IInv, WInv, [Next]_vars PROVE WInv'
  OBVIOUS
<1>1. CASE UNCHANGED vars
  BY <1>1, CsvKept DEF vars
<1>2. CASE Step
  BY <1>2, CopyWInv, CopiedWInv, RemoveFileWInv, RemoveDirWInv, PruneBackupsWInv, AuditWInv DEF Step
<1>3. CASE Tick
  BY <1>3, CsvKept DEF Tick
<1>4. CASE Next /\ ~Step /\ ~Tick
  BY <1>4, StartsWInv, RunCommandWInv, AuditPruneWInv, KillWInv DEF Next, Starts
<1> QED BY <1>1, <1>2, <1>3, <1>4

LEMMA CarefulInv == ASSUME Careful PROVE Spec => [](IInv /\ WInv)
<1>1. IInv /\ WInv /\ [Next]_vars => (IInv /\ WInv)'
  BY NextInv, NextWInv
<1> QED BY <1>1, InitInv, WInit, PTL DEF Spec

\* With a careful operator no file of the dataset is ever found torn or missing
\* but while a copy is being installed, or after one has failed and until another
\* is installed; nor is a file of a working copy whose making did not fail.
THEOREM CarefulNothingTorn == ASSUME Careful PROVE Spec => []NothingTorn
<1>1. IInv /\ WInv => NothingTorn
  BY DEF IInv, WInv, Present, Unbroken, NothingTorn, Installing, Complete
<1> QED BY <1>1, CarefulInv, PTL

-----------------------------------------------------------------------------
(* The refinement.  What the abstract specification sees of this one:        *)
Base == IF Dir \in flawed THEN None ELSE [f \in Csv |-> BaseFile(f)]
Work == IF Complete(Tx) /\ ~Committing THEN Pair(Tx) ELSE None
Saved == [s \in Slot |-> IF Complete(s) THEN Pair(s) ELSE None]

\* A step it does not see.
Unseen == Base' = Base /\ Work' = Work /\ Saved' = Saved

\* The dataset as it is, when nothing is being installed.
LEMMA BaseAtRest ==
    /\ Dir \notin partial /\ Dir \notin flawed => Base = Pair(Dir)
    /\ Dir \in flawed => Base = None
  BY DEF Base, BaseFile, Installing, Pair

LEMMA BaseAtRestNext ==
    /\ Dir \notin partial' /\ Dir \notin flawed' => Base' = Pair(Dir)'
    /\ Dir \in flawed' => Base' = None
  BY DEF Base, BaseFile, Installing, Pair

LEMMA PairKept ==
    ASSUME NEW p, \A f \in Csv : disk'[p][f] = disk[p][f]
    PROVE  Pair(p)' = Pair(p)
  BY DEF Pair

\* While a commit is under way there is no working copy to be seen.
LEMMA WorkFacts ==
    /\ ~Complete(Tx) \/ Committing => Work = None
    /\ Complete(Tx) /\ ~Committing => Work = Pair(Tx)
  BY DEF Work

LEMMA WorkFactsNext ==
    /\ ~Complete(Tx)' \/ Committing' => Work' = None
    /\ Complete(Tx)' /\ ~Committing' => Work' = Pair(Tx)'
  BY DEF Work

\* Nothing of the copies in slots changes as long as the same ones are complete,
\* and their files are the same.
LEMMA SavedKept ==
    ASSUME \A s \in Slot : Complete(s)' <=> Complete(s),
           \A s \in Slot, f \in Csv : Complete(s) => disk'[s][f] = disk[s][f]
    PROVE  Saved' = Saved
<1>1. \A s \in Slot : Complete(s) => Pair(s)' = Pair(s)
  BY DEF Pair
<1> QED BY <1>1 DEF Saved

\* One slot changes.
LEMMA SavedOne ==
    ASSUME NEW s \in Slot, NEW v,
           \A r \in Slot \ {s} : Complete(r)' <=> Complete(r),
           \A r \in Slot \ {s}, f \in Csv : Complete(r) => disk'[r][f] = disk[r][f],
           v = IF Complete(s)' THEN Pair(s)' ELSE None
    PROVE  Saved' = [Saved EXCEPT ![s] = v]
<1>1. \A r \in Slot \ {s} : Complete(r) => Pair(r)' = Pair(r)
  BY DEF Pair
<1>2. Saved' = [r \in Slot |-> IF Complete(r)' THEN Pair(r)' ELSE None]
  BY DEF Saved
<1>3. Saved = [r \in Slot |-> IF Complete(r) THEN Pair(r) ELSE None]
  BY DEF Saved
<1>4. [Saved EXCEPT ![s] = v] = [r \in Slot |-> IF r = s THEN v ELSE Saved[r]]
  BY <1>3
<1> QED BY <1>1, <1>2, <1>3, <1>4

LEMMA WorkKept ==
    ASSUME Complete(Tx)' <=> Complete(Tx),
           Complete(Tx) => (Committing' <=> Committing),
           Complete(Tx) => \A f \in Csv : disk'[Tx][f] = disk[Tx][f]
    PROVE  Work' = Work
<1>1. Complete(Tx) => Pair(Tx)' = Pair(Tx)
  BY DEF Pair
<1> QED BY <1>1 DEF Work

\* Nothing is installed before or after, and the files of the dataset stay.
LEMMA BaseKept ==
    ASSUME Dir \notin partial, Dir \notin partial', Dir \in flawed' <=> Dir \in flawed,
           Dir \notin flawed => \A f \in Csv : disk'[Dir][f] = disk[Dir][f]
    PROVE  Base' = Base
  BY BaseAtRest, BaseAtRestNext, PairKept

\* A whole copy is a dataset.
LEMMA WholePair ==
    ASSUME IInv, WInv, NEW p \in Slot \cup {Tx}, Complete(p)
    PROVE  Pair(p) # None /\ \A f \in Csv : disk[p][f] # Missing
<1>1. \A f \in Csv : disk[p][f] \in Text \ {Missing, Torn}
  <2>1. p \in Place
    BY SlotFacts, PlaceFacts
  <2> QED BY <2>1, Parts DEF Fit, WInv, Unbroken
<1>2. \A f \in Csv : disk[p][f] \in SUBSET Edit
  BY <1>1, TextFacts
<1>3. Pair(p) \in [Csv -> SUBSET Edit]
  BY <1>2 DEF Pair
<1> QED BY <1>1, <1>3, WorkspaceAssumption

\* The abstract actions, as the mapping shows them.
LEMMA SeenEditBase ==
    ASSUME NEW e \in Edit, NEW fs \in SUBSET Csv, Work' = Work, Saved' = Saved, Base # None,
           Base' = [f \in Csv |-> IF f \in fs THEN Base[f] \cup {e} ELSE Base[f]]
    PROVE  Atomic!Next
<1>1. Atomic!EditBase
  BY DEF Atomic!EditBase, Atomic!Edited, Atomic!File, Csv, Base, Work, Saved
<1> QED BY <1>1 DEF Atomic!Next

LEMMA SeenEditWork ==
    ASSUME NEW e \in Edit, NEW fs \in SUBSET Csv, Base' = Base, Saved' = Saved, Work # None,
           Work' = [f \in Csv |-> IF f \in fs THEN Work[f] \cup {e} ELSE Work[f]]
    PROVE  Atomic!Next
<1>1. Atomic!EditWork
  BY DEF Atomic!EditWork, Atomic!Edited, Atomic!File, Csv, Base, Work, Saved
<1> QED BY <1>1 DEF Atomic!Next

LEMMA SeenWork ==
    /\ Work = None /\ Work' = Base /\ Base' = Base /\ Saved' = Saved => Atomic!Next
    /\ Work # None /\ Base' = Work /\ Work' = None /\ Saved' = Saved => Atomic!Next
    /\ Work # None /\ Work' = None /\ Base' = Base /\ Saved' = Saved => Atomic!Next
<1>1. Work = None /\ Work' = Base /\ Base' = Base /\ Saved' = Saved => Atomic!Begin
  BY DEF Atomic!Begin, Base, Work, Saved
<1>2. Work # None /\ Base' = Work /\ Work' = None /\ Saved' = Saved => Atomic!Commit
  BY DEF Atomic!Commit, Base, Work, Saved
<1>3. Work # None /\ Work' = None /\ Base' = Base /\ Saved' = Saved => Atomic!Abort
  BY DEF Atomic!Abort, Base, Work, Saved
<1> QED BY <1>1, <1>2, <1>3 DEF Atomic!Next

LEMMA SeenSpoil == Base' = None /\ Work' = Work /\ Saved' = Saved => Atomic!Next
<1>1. Base' = None /\ Work' = Work /\ Saved' = Saved => Atomic!Spoil
  BY DEF Atomic!Spoil, Base, Work, Saved
<1> QED BY <1>1 DEF Atomic!Next

LEMMA SeenSlot ==
    ASSUME NEW s \in Slot, Work' = Work,
           \/ Base' = Base /\ Saved' = [Saved EXCEPT ![s] = Base]
           \/ Base' = Base /\ Saved' = [Saved EXCEPT ![s] = None]
           \/ Saved[s] # None /\ Base' = Saved[s] /\ Saved' = Saved
    PROVE  Atomic!Next
<1>1. Atomic!Save(s) \/ Atomic!Drop(s) \/ Atomic!Restore(s)
  BY DEF Atomic!Save, Atomic!Drop, Atomic!Restore, Base, Work, Saved
<1> QED BY <1>1 DEF Atomic!Next

LEMMA NotSeen == Unseen => UNCHANGED Atomic!vars
  BY DEF Unseen, Atomic!vars, Base, Work, Saved

LEMMA SeenInit == Init => Atomic!Init
<1> SUFFICES ASSUME Init PROVE Atomic!Init
  OBVIOUS
<1>1. partial = {} /\ flawed = {} /\ there = {Dir} /\ \A f \in Csv : disk[Dir][f] = {}
  BY PlaceFacts, FileFacts DEF Init
<1>2. Base = [f \in Csv |-> {}]
  BY <1>1 DEF Base, BaseFile, Installing
<1>3. Work = None
  BY <1>1, PlaceFacts DEF Work, Complete
<1>4. Saved = [s \in Slot |-> None]
  <2>1. \A s \in Slot : s \notin there
    BY <1>1, SlotFacts
  <2> QED BY <2>1 DEF Saved, Complete
<1> QED BY <1>2, <1>3, <1>4 DEF Atomic!Init, Atomic!File, Csv, Base, Work, Saved

\* An edit of the dataset, or of the working copy, is one; of what is flawed it
\* is not seen.
LEMMA RunCommandMaps ==
    ASSUME Careful, IInv, WInv, NEW p \in {Dir, Tx}, RunCommand(p)
    PROVE  Atomic!Next \/ Unseen
<1>1. /\ job = NoJob /\ Dir \notin partial /\ Tx \notin partial /\ p \in there
      /\ UNCHANGED <<there, partial, flawed, job, pc, killed>>
      /\ \A q \in Place : q # p => disk'[q] = disk[q]
  BY EditsWhole
<1>2. ~Committing /\ ~Committing' /\ \A q : Complete(q)' <=> Complete(q)
  BY <1>1 DEF Committing, NoJob, Complete
<1>3. Saved' = Saved
  BY <1>1, <1>2, SavedKept, SlotFacts
<1>4. p # Dir => Base' = Base
  BY <1>1, BaseKept, PlaceFacts
<1>5. p # Tx => Work' = Work
  BY <1>1, <1>2, WorkKept, PlaceFacts
<1>6. CASE p \in flawed
  <2>1. p = Dir => Base' = Base
    BY <1>1, <1>6, BaseAtRest, BaseAtRestNext
  <2>2. p = Tx => Work' = Work
    <3>1. p = Tx => ~Complete(Tx)
      BY <1>6 DEF Complete
    <3> QED BY <1>2, <3>1, WorkFacts, WorkFactsNext
  <2> QED BY <1>3, <1>4, <1>5, <2>1, <2>2, PlaceFacts DEF Unseen
<1>7. CASE p \notin flawed
  <2>1. PICK e \in Edit, fs \in SUBSET Csv : \A f \in Csv :
          disk'[p][f] = IF f \in fs THEN disk[p][f] \cup {e} ELSE disk[p][f]
    BY <1>7, EditsWhole
  <2>2. Pair(p)' = [f \in Csv |-> IF f \in fs THEN Pair(p)[f] \cup {e} ELSE Pair(p)[f]]
    BY <2>1 DEF Pair
  <2>3. Pair(p) # None
    <3>1. \A f \in Csv : disk[p][f] \in SUBSET Edit
      BY <1>7, EditsWhole
    <3>2. Pair(p) \in [Csv -> SUBSET Edit]
      BY <3>1 DEF Pair
    <3> QED BY <3>2, WorkspaceAssumption
  <2>4. CASE p = Dir
    <3>1. Base = Pair(Dir) /\ Base' = Pair(Dir)'
      BY <1>1, <1>7, <2>4, BaseAtRest, BaseAtRestNext
    <3> QED BY <1>3, <1>5, <2>2, <2>3, <2>4, <3>1, PlaceFacts, SeenEditBase
  <2>5. CASE p = Tx
    <3>1. Complete(Tx)
      BY <1>1, <1>7, <2>5 DEF Complete
    <3>2. Work = Pair(Tx) /\ Work' = Pair(Tx)'
      BY <1>2, <3>1, WorkFacts, WorkFactsNext
    <3> QED BY <1>3, <1>4, <2>2, <2>3, <2>5, <3>2, PlaceFacts, SeenEditWork
  <2> QED BY <2>4, <2>5
<1> QED BY <1>6, <1>7

\* What is installed counts from the start of the command that installs it: it
\* spoils the dataset when it is flawed, and heals it when it is whole.
LEMMA InstallMaps ==
    ASSUME Careful, IInv, WInv, NEW op, NEW from, NEW files, Start(op, from, Dir, files),
           Copies([op |-> op, from |-> from, to |-> Dir], files), Whole(from)
    PROVE  Atomic!Next \/ Unseen
<1> DEFINE j == [op |-> op, from |-> from, to |-> Dir]
<1>1. Fit /\ Vars /\ Absent /\ Jobs /\ Same /\ Present
  BY Parts
<1>2. /\ pc' = "copy" /\ job' = j /\ killed' = FALSE
      /\ there' = there \cup {Dir} /\ partial' = partial \cup {Dir}
      /\ disk' = disk /\ Idle
  BY DEF Start, MayStart
<1>3. (Makes(j) \/ Installs(j)) /\ j.op = op /\ j.from = from /\ j.to = Dir
  BY DEF Copies
<1> HIDE DEF j
<1>4. Installs(j)
  BY <1>3, PlaceFacts DEF Makes
<1>5. from \in Slot \cup {Tx, Backups} /\ (op = "tx commit" <=> from = Tx)
  BY <1>3, <1>4, SlotFacts, PlaceFacts DEF Installs
<1>6. /\ \A p : p # Dir => (p \in flawed' <=> p \in flawed)
      /\ from \in flawed => Dir \in flawed'
      /\ from \in there \ (partial \cup flawed) /\ ~(op = "tx commit" /\ killed)
           => Dir \notin flawed'
      /\ Dir \notin flawed' => \/ /\ from \in there \ (partial \cup flawed)
                                  /\ ~(op = "tx commit" /\ killed)
                               \/ Dir \notin flawed /\ from \notin flawed
  BY StartFlawed
<1>7. there' = there /\ \A p : p # Dir => (Complete(p)' <=> Complete(p))
  BY <1>1, <1>2, <1>6 DEF Vars, Complete
<1>8. Saved' = Saved
  BY <1>2, <1>7, SavedKept, SlotFacts
<1>9. Base' = IF Dir \in flawed' THEN None
              ELSE [f \in Csv |-> IF disk[from][f] # Missing THEN disk[from][f] ELSE disk[Dir][f]]
  BY <1>2, <1>3 DEF Base, BaseFile, Installing
<1>10. Committing' <=> op = "tx commit"
  BY <1>2, <1>3 DEF Committing, Idle
<1>11. \/ /\ ~killed /\ job = NoJob
          /\ Dir \notin partial /\ Tx \notin partial /\ from \notin partial
       \/ /\ killed /\ op = "tx commit" /\ job.op = op /\ from = Tx
          /\ job.from = Tx /\ Dir \notin partial /\ Tx \in partial
       \/ /\ killed /\ op = job.op /\ from = job.from
          /\ Installs(job) /\ Dir \in partial
  <2>1. \/ /\ ~killed /\ job = NoJob
           /\ Dir \notin partial /\ Tx \notin partial /\ from \notin partial
        \/ /\ killed /\ op = "tx commit" /\ job.op = op /\ from = Tx
           /\ job.from = Tx /\ Dir \notin partial /\ Tx \in partial
        \/ /\ killed /\ op = job.op /\ from = job.from
           /\ Installs(job) /\ Dir \in partial
           /\ Tx \in partial => op = "tx commit"
    BY CarefulStart, Zenon
  <2> QED BY <2>1
<1>12. killed => (Committing <=> op = "tx commit")
  BY <1>11 DEF Committing
<1>13. ~killed => ~Committing
  <2>1. NoJob.op # "tx commit"
    BY DEF NoJob
  <2> QED BY <1>11, <2>1 DEF Committing
<1>14. op # "tx commit" \/ killed => Work' = Work
  <2>1. Committing' <=> Committing \/ (op = "tx commit" /\ ~killed)
    BY <1>10, <1>12, <1>13
  <2> QED BY <1>2, <1>7, <1>12, <1>13, <2>1, PlaceFacts, WorkKept
<1>15. CASE Dir \in flawed'
  <2>1. Work' = Work
    <3>1. CASE op # "tx commit" \/ killed
      BY <1>14, <3>1
    <3>2. CASE op = "tx commit" /\ ~killed
      <4>1. from = Tx /\ Tx \in there /\ Tx \notin partial
        BY <1>5, <1>11, <3>2, PlaceFacts DEF Whole
      <4>2. ~Complete(Tx)
        BY <1>6, <1>15, <3>2, <4>1 DEF Complete
      <4> QED BY <1>7, <4>2, PlaceFacts, WorkFacts, WorkFactsNext
    <3> QED BY <3>1, <3>2
  <2> QED BY <1>8, <1>9, <1>15, <2>1, SeenSpoil
<1>16. CASE /\ Dir \notin flawed' /\ from \in there \ (partial \cup flawed)
            /\ ~(op = "tx commit" /\ killed)
  <2>1. Complete(from) /\ from \in Slot \cup {Tx}
    BY <1>1, <1>5, <1>16 DEF Vars, Complete
  <2>2. Base' = Pair(from) /\ Pair(from) # None
    <3>1. Pair(from) # None /\ \A f \in Csv : disk[from][f] # Missing
      BY <2>1, WholePair
    <3> QED BY <1>9, <1>16, <3>1 DEF Pair
  <2>3. CASE from = Tx
    <3>1. Work = Pair(Tx) /\ Work' = None
      BY <1>5, <1>10, <1>13, <1>16, <2>1, <2>3, WorkFacts, WorkFactsNext
    <3> QED BY <1>8, <2>2, <2>3, <3>1, SeenWork
  <2>4. CASE from # Tx
    <3>1. from \in Slot /\ Saved[from] = Pair(from)
      BY <2>1, <2>4 DEF Saved
    <3>2. Work' = Work
      BY <1>5, <1>14, <2>4
    <3> QED BY <1>8, <2>2, <3>1, <3>2, SeenSlot
  <2> QED BY <2>3, <2>4
<1>17. CASE /\ Dir \notin flawed' /\ Dir \notin flawed /\ from \notin flawed
            /\ from \notin there \/ from \in partial \/ (op = "tx commit" /\ killed)
  <2>1. CASE Dir \in partial
    <3>1. killed /\ op = job.op /\ from = job.from
      BY <1>11, <2>1
    <3>2. Base' = Base
      BY <1>9, <1>17, <2>1, <3>1 DEF Base, BaseFile, Installing
    <3> QED BY <1>8, <1>14, <3>1, <3>2 DEF Unseen
  <2>2. CASE Dir \notin partial
    <3>1. Base = Pair(Dir)
      BY <1>17, <2>2, BaseAtRest
    <3>2. \/ from = Backups /\ op # "tx commit"
          \/ killed /\ op = "tx commit" /\ job.op = op /\ from = Tx /\ Tx \in partial
      BY <1>5, <1>11, <1>17, <2>2, PlaceFacts DEF Whole
    <3>3. CASE from = Backups /\ op # "tx commit"
      <4>1. disk[from] = Nothing
        BY <1>1, <3>3, PlaceFacts DEF Vars, Absent
      <4>2. Base' = Base
        BY <1>9, <1>17, <3>1, <4>1, NothingFacts, FileFacts DEF Pair
      <4> QED BY <1>8, <1>14, <3>3, <4>2 DEF Unseen
    <3>4. CASE killed /\ op = "tx commit" /\ job.op = op /\ from = Tx /\ Tx \in partial
      <4>1. \A f \in Csv : disk[Tx][f] \in {Missing, disk[Dir][f]}
        BY <1>17, <2>2, <3>4 DEF WInv, Remains
      <4>2. Base' = Base
        BY <1>9, <1>17, <3>1, <3>4, <4>1 DEF Pair
      <4> QED BY <1>8, <1>14, <3>4, <4>2 DEF Unseen
    <3> QED BY <3>2, <3>3, <3>4
  <2> QED BY <2>1, <2>2
<1> QED BY <1>6, <1>15, <1>16, <1>17

\* A copy that is made is seen when it is whole; the one it replaces is dropped
\* at its start.
LEMMA MakeMaps ==
    ASSUME Careful, IInv, WInv, NEW op, NEW to, NEW files, Start(op, Dir, to, files),
           Copies([op |-> op, from |-> Dir, to |-> to], files), to # Dir,
           to = Tx => Tx \notin there
    PROVE  Atomic!Next \/ Unseen
<1> DEFINE j == [op |-> op, from |-> Dir, to |-> to]
<1>1. /\ pc' = "copy" /\ job' = j /\ killed' = FALSE
      /\ there' = there \cup {to} /\ partial' = partial \cup {to}
      /\ disk' = disk /\ Idle
  BY DEF Start, MayStart
<1>2. (Makes(j) \/ Installs(j)) /\ j.op = op /\ j.to = to
  BY DEF Copies
<1> HIDE DEF j
<1>3. op # "tx commit" /\ to \in Slot \cup {Tx} \cup {Backup(t) : t \in Time}
  BY <1>2, SlotFacts DEF Makes, Installs
<1>4. ~killed /\ job = NoJob /\ Dir \notin partial /\ Tx \notin partial
  <2>1. killed => to = Dir
    BY CarefulStart, Zenon
  <2> QED BY <1>1, <2>1, Rest
<1>5. /\ \A p : p # to => (p \in flawed' <=> p \in flawed)
      /\ \A p : p # to => (Complete(p)' <=> Complete(p))
      /\ ~Complete(to)'
  <2>1. \A p : p # to => (p \in flawed' <=> p \in flawed)
    BY StartFlawed
  <2> QED BY <1>1, <2>1 DEF Complete
<1>6. Base' = Base
  BY <1>1, <1>4, <1>5, BaseKept
<1>7. ~Committing /\ ~Committing'
  BY <1>1, <1>2, <1>3, <1>4 DEF Committing, NoJob
<1>8. Work' = Work
  <2>1. Complete(Tx)' <=> Complete(Tx)
    BY <1>5 DEF Complete
  <2> QED BY <1>1, <1>7, <2>1, WorkKept
<1>9. CASE to \in Slot
  <2>1. Saved' = [Saved EXCEPT ![to] = None]
    BY <1>1, <1>9, <1>5, SavedOne
  <2> QED BY <1>6, <1>8, <1>9, <2>1, SeenSlot
<1>10. CASE to \notin Slot
  <2>1. Saved' = Saved
    BY <1>1, <1>10, <1>5, SavedKept
  <2> QED BY <1>6, <1>8, <2>1 DEF Unseen
<1> QED BY <1>9, <1>10

LEMMA StartsMap == ASSUME Careful, IInv, WInv, Starts PROVE Atomic!Next \/ Unseen
<1> USE PlaceFacts, SlotFacts
<1>1. now \in Time
  BY DEF IInv, TypeOK
<1>2. CASE TxBegin
  <2>1. Copies([op |-> "tx begin", from |-> Dir, to |-> Tx], WithAudit)
    BY DEF Copies, Makes, Job
  <2> QED BY <1>2, <2>1, MakeMaps DEF TxBegin
<1>3. CASE TxCommit
  <2>1. Copies([op |-> "tx commit", from |-> Tx, to |-> Dir], Both) /\ Whole(Tx)
    BY <1>3 DEF TxCommit, Copies, Installs, Job, Whole
  <2> QED BY <1>3, <2>1, InstallMaps DEF TxCommit
<1>4. CASE TxAbort
  <2>1. /\ partial' = partial \cup {Tx} /\ UNCHANGED <<disk, there, flawed>>
        /\ MayStart("tx abort", Dir) /\ Idle /\ Tx \in there
    BY <1>4 DEF TxAbort, Remove, MayStart
  <2>2. Dir \notin partial /\ (Tx \notin partial => job = NoJob)
    <3>1. CASE ~killed
      BY <2>1, <3>1, Rest
    <3>2. CASE killed
      <4>1. Dir \notin partial /\ job.to = Tx
        <5>1. Remedy("tx abort", Dir)
          BY <2>1, <3>2 DEF MayStart
        <5>2. job.op \in {"tx begin", "tx abort"}
          <6>1. /\ job.to \in partial
                /\ Installs(job) \/ (job.to = Tx /\ (Makes(job) \/ Removes(job)))
            BY <3>2, Parts DEF Jobs
          <6> QED BY <5>1, <6>1 DEF Remedy, Installs, Makes, Removes
        <5> QED BY <2>1, <3>2, <5>2, Afterwards, Zenon
      <4>2. job.to \in partial
        BY <3>2, Parts DEF Jobs
      <4> QED BY <4>1, <4>2
    <3> QED BY <3>1, <3>2
  <2>3. Base' = Base
    BY <2>1, <2>2, BaseKept
  <2>4. Saved' = Saved
    <3>1. \A s \in Slot : Complete(s)' <=> Complete(s)
      BY <2>1 DEF Complete
    <3> QED BY <2>1, <3>1, SavedKept
  <2>5. Work' = None
    <3>1. ~Complete(Tx)'
      BY <2>1 DEF Complete
    <3> QED BY <3>1, WorkFactsNext
  <2>6. CASE ~Complete(Tx)
    BY <2>3, <2>4, <2>5, <2>6, WorkFacts DEF Unseen
  <2>7. CASE Complete(Tx)
    <3>1. Work = Pair(Tx)
      <4>1. ~Committing
        <5>1. job = NoJob
          BY <2>2, <2>7 DEF Complete
        <5> QED BY <5>1 DEF Committing, NoJob
      <4> QED BY <2>7, <4>1, WorkFacts
    <3>2. Work # None
      BY <2>7, <3>1, WholePair
    <3> QED BY <2>3, <2>4, <2>5, <3>2, SeenWork
  <2> QED BY <2>6, <2>7
<1>5. CASE SnapshotCreate
  <2>1. Copies([op |-> "snapshot create", from |-> Dir, to |-> Snapshot(now)], Both)
    BY <1>1 DEF Copies, Makes, Job
  <2> QED BY <1>5, <2>1, MakeMaps DEF SnapshotCreate
<1>6. ASSUME NEW t \in Time, SnapshotRestore(t) PROVE Atomic!Next \/ Unseen
  <2>1. Copies([op |-> "snapshot restore", from |-> Snapshot(t), to |-> Dir], Both)
        /\ Whole(Snapshot(t))
    BY <1>6 DEF SnapshotRestore, Copies, Installs, Job, Whole
  <2> QED BY <1>6, <2>1, InstallMaps DEF SnapshotRestore
<1>7. ASSUME NEW k \in Keep, SnapshotPrune(k) PROVE Atomic!Next \/ Unseen
  <2>1. PICK t \in Pruned(k) : Remove("snapshot prune", Snapshot(t))
    BY <1>7 DEF SnapshotPrune
  <2>2. /\ job'.op = "snapshot prune" /\ partial' = partial \cup {Snapshot(t)}
        /\ UNCHANGED <<disk, there, flawed>> /\ MayStart("snapshot prune", Dir) /\ Idle
        /\ Snapshot(t) \in Slot
    BY <1>7, <2>1 DEF SnapshotPrune, Remove, MayStart, Pruned
  <2>3. job = NoJob /\ Dir \notin partial /\ Tx \notin partial
    <3>1. CASE ~killed
      BY <2>2, <3>1, Rest
    <3>2. CASE killed
      BY <2>2, <3>2, Afterwards
    <3> QED BY <3>1, <3>2
  <2>4. Base' = Base
    BY <2>2, <2>3, BaseKept
  <2>5. ~Committing /\ ~Committing'
    BY <2>2, <2>3 DEF Committing, NoJob
  <2>6. ~Complete(Snapshot(t))' /\ \A p : p # Snapshot(t) => (Complete(p)' <=> Complete(p))
    BY <2>2 DEF Complete
  <2>7. Work' = Work
    BY <2>2, <2>5, <2>6, WorkKept
  <2>8. Saved' = [Saved EXCEPT ![Snapshot(t)] = None]
    BY <2>2, <2>6, SavedOne
  <2> QED BY <2>2, <2>4, <2>7, <2>8, SeenSlot
<1>8. CASE ArchiveCreate
  <2>1. Copies([op |-> "archive create", from |-> Dir, to |-> Archive], WithAudit)
    BY DEF Copies, Makes, Job
  <2> QED BY <1>8, <2>1, MakeMaps DEF ArchiveCreate
<1>9. CASE ArchiveExtract
  <2>1. Copies([op |-> "archive extract", from |-> Archive, to |-> Dir], WithAudit)
        /\ Whole(Archive)
    BY <1>9 DEF ArchiveExtract, Copies, Installs, Job, Whole
  <2> QED BY <1>9, <2>1, InstallMaps DEF ArchiveExtract
<1>10. CASE MakeBackup
  <2>1. Copies([op |-> "backup", from |-> Dir, to |-> Backup(now)], Both)
    BY <1>1 DEF Copies, Makes, Job
  <2> QED BY <1>10, <2>1, MakeMaps DEF MakeBackup
<1>11. ASSUME NEW p \in {Backups} \cup {Snapshot(t) : t \in Time}, Restore(p)
       PROVE  Atomic!Next \/ Unseen
  <2>1. Copies([op |-> "restore", from |-> p, to |-> Dir], Both)
    BY DEF Copies, Installs, Job
  <2>2. Whole(p)
    BY <1>11 DEF Restore, Whole
  <2> QED BY <1>11, <2>1, <2>2, InstallMaps DEF Restore
<1> QED BY <1>2, <1>3, <1>4, <1>5, <1>6, <1>7, <1>8, <1>9, <1>10, <1>11 DEF Starts

\* A write of a copy, or a removal, is not seen: of what is installed the
\* source counts, and any other place it writes is partial.
LEMMA WriteMaps ==
    ASSUME IInv, WInv, pc \in {"copy", "remove"}, NEW f \in File, NEW x, PutAt(job.to, f, x),
           pc = "copy" => disk[job.from][f] # Missing,
           UNCHANGED <<there, partial, flawed, job, pc, killed>>
    PROVE  Unseen
<1>1. Vars /\ Jobs /\ Shape
  BY Parts DEF IInv
<1>2. /\ job.to \in Place /\ job.from \in Place /\ job.to \in partial
      /\ \/ pc = "copy" /\ (Makes(job) \/ Installs(job))
         \/ pc = "remove" /\ Removes(job)
  BY <1>1 DEF Vars, Jobs, Job
<1>3. \A q \in Place, g \in File : q # job.to \/ g # f => disk'[q][g] = disk[q][g]
  BY <1>1, <1>2, PutEffect
<1>4. \A q \in Place \ partial, g \in Csv : disk'[q][g] = disk[q][g]
  BY <1>2, <1>3, FileFacts
<1>5. \A q : (Complete(q)' <=> Complete(q)) /\ (Complete(q) => q \notin partial)
  BY DEF Complete
<1>6. Saved' = Saved
  BY <1>4, <1>5, SavedKept, SlotFacts
<1>7. Work' = Work
  <2>1. Committing' <=> Committing
    BY DEF Committing, Idle
  <2> QED BY <1>4, <1>5, <2>1, WorkKept, PlaceFacts
<1>8. Base' = Base
  <2>1. CASE Dir \notin partial
    BY <1>4, <2>1, BaseKept, PlaceFacts
  <2>2. CASE Dir \in partial
    <3>1. Installs(job)
      BY <2>2 DEF WInv, Under
    <3>2. job.to = Dir /\ job.from # Dir
      BY <3>1, PlaceFacts DEF Installs
    <3>3. pc = "copy"
      <4>1. ~Removes(job)
        BY <3>2, PlaceFacts DEF Removes
      <4> QED BY <1>2, <4>1
    <3>4. \A g \in Csv : disk'[job.from][g] = disk[job.from][g]
      BY <1>2, <1>3, <3>2, FileFacts
    <3>5. \A g \in Csv : disk[job.from][g] = Missing => disk'[Dir][g] = disk[Dir][g]
      BY <1>3, <3>3, FileFacts, PlaceFacts
    <3>6. \A g \in Csv : BaseFile(g)' = BaseFile(g)
      BY <2>2, <3>4, <3>5 DEF BaseFile, Installing
    <3> QED BY <3>6 DEF Base
  <2> QED BY <2>1, <2>2
<1> QED BY <1>6, <1>7, <1>8 DEF Unseen

\* A copy that fails at the dataset spoils it; one that fails elsewhere is not
\* seen: what it leaves has not been seen since the copy began.
LEMMA FailMaps ==
    ASSUME IInv, pc = "copy", flawed \subseteq flawed', flawed' \subseteq flawed \cup {job.to},
           UNCHANGED <<disk, there, partial, job, pc, killed>>
    PROVE  Atomic!Next \/ Unseen
<1>1. job.to \in partial
  BY Parts DEF Jobs
<1>2. \A p : Complete(p)' <=> Complete(p)
  BY <1>1 DEF Complete
<1>3. Saved' = Saved
  BY <1>2, SavedKept
<1>4. Committing' <=> Committing
  BY DEF Committing, Idle
<1>5. Work' = Work
  BY <1>2, <1>4, WorkKept
<1>6. CASE Dir \in flawed'
  BY <1>3, <1>5, <1>6, BaseAtRestNext, SeenSpoil
<1>7. CASE Dir \notin flawed'
  <2>1. Dir \notin flawed
    BY <1>7
  <2>2. Base' = Base
    BY <1>7, <2>1 DEF Base, BaseFile, Installing
  <2> QED BY <1>3, <1>5, <2>2 DEF Unseen
<1> QED BY <1>6, <1>7

LEMMA CopyMaps ==
    ASSUME IInv, WInv, CopyOpen \/ CopyFill \/ CopyFails \/ CopySkip
    PROVE  Atomic!Next \/ Unseen
<1>1. CASE CopyOpen \/ CopyFill
  <2>1. /\ pc = "copy" /\ todo # <<>> /\ Source # Missing
        /\ UNCHANGED <<there, partial, flawed, job, pc, killed>>
    BY <1>1 DEF CopyOpen, CopyFill
  <2>2. PICK x : PutAt(job.to, Head(todo), x)
    BY <1>1 DEF CopyOpen, CopyFill, Put, PutAt
  <2>3. Head(todo) \in File /\ disk[job.from][Head(todo)] # Missing
    BY <2>1, CopyNext DEF Source
  <2> QED BY <2>1, <2>2, <2>3, WriteMaps
<1>2. CASE CopyFails \/ CopySkip
  <2>1. /\ pc = "copy" /\ flawed \subseteq flawed' /\ flawed' \subseteq flawed \cup {job.to}
        /\ UNCHANGED <<disk, there, partial, job, pc, killed>>
    BY <1>2 DEF CopyFails, Unnoticed, CopySkip
  <2> QED BY <2>1, FailMaps
<1> QED BY <1>1, <1>2

LEMMA RemoveFileMaps == ASSUME IInv, WInv, RemoveFile PROVE Unseen
<1>1. pc = "remove" /\ UNCHANGED <<there, partial, flawed, job, pc, killed>>
  BY DEF RemoveFile
<1>2. PICK f \in File : PutAt(job.to, f, Missing)
  BY DEF RemoveFile, PutAt
<1> QED BY <1>1, <1>2, WriteMaps

\* The end of a copy: what was installed stays as it was seen, what was made is
\* the dataset from now on seen in .tx or a slot.
LEMMA CopiedMaps == ASSUME IInv, WInv, Copied PROVE Atomic!Next \/ Unseen
<1>1. Vars /\ Jobs /\ Present
  BY Parts
<1>2. /\ pc = "copy" /\ todo = <<>> /\ pc' = AfterCopy(job.op)
      /\ UNCHANGED <<disk, there, flawed, killed>>
      /\ Makes(job) \/ Installs(job)
      /\ ~killed /\ job.to \in partial /\ job.to \in there
  BY <1>1 DEF Copied, Jobs, Idle, Vars
<1>3. job.to \notin flawed =>
        /\ job.from \notin flawed
        /\ \A f \in Csv : disk[job.from][f] # Missing => disk[job.to][f] = disk[job.from][f]
  BY <1>2, AllCopied
<1>4. CASE Installs(job)
  <2>1. job.to = Dir /\ Dir \in partial
    BY <1>2, <1>4 DEF Installs
  <2>2. Base = IF Dir \in flawed THEN None ELSE Pair(Dir)
    BY <1>3, <2>1 DEF Base, BaseFile, Installing, Pair
  <2>3. CASE job.op = "tx commit"
    <3>1. /\ partial' = (partial \ {Dir}) \cup {Tx} /\ job' = [job EXCEPT !.to = Tx]
          /\ pc' = "remove"
      BY <1>2, <2>3 DEF Copied, AfterCopy
    <3>2. Dir \notin partial' /\ Tx \in partial'
      <4>1. Dir # Tx /\ partial' = (partial \ {Dir}) \cup {Tx}
        BY <3>1, PlaceFacts
      <4> QED BY ONLY <4>1
    <3>3. Base' = Base
      BY <1>2, <2>2, <3>2, BaseAtRestNext, PairKept
    <3>4. Committing
      BY <1>2, <2>3 DEF Committing, Idle
    <3>5. Work' = Work
      <4>1. ~Complete(Tx)'
        BY <3>2 DEF Complete
      <4> QED BY <3>4, <4>1, WorkFacts, WorkFactsNext
    <3>6. \A s \in Slot : Complete(s)' <=> Complete(s)
      BY <1>2, <3>1, SlotFacts DEF Complete
    <3>7. Saved' = Saved
      BY <1>2, <3>6, SavedKept
    <3> QED BY <3>3, <3>5, <3>7 DEF Unseen
  <2>4. CASE job.op # "tx commit"
    <3>1. partial' = partial \ {Dir} /\ job' \in {job, NoJob}
      BY <1>2, <2>1, <2>4 DEF Copied, Done
    <3>2. Base' = Base
      BY <1>2, <2>2, <3>1, BaseAtRestNext, PairKept
    <3>3. ~Committing /\ ~Committing'
      <4>1. NoJob.op # "tx commit"
        BY DEF NoJob
      <4> QED BY <2>4, <3>1, <4>1 DEF Committing
    <3>4. Complete(Tx)' <=> Complete(Tx)
      BY <1>2, <3>1, PlaceFacts DEF Complete
    <3>5. Work' = Work
      BY <1>2, <3>3, <3>4, WorkKept
    <3>6. \A s \in Slot : Complete(s)' <=> Complete(s)
      BY <1>2, <3>1, SlotFacts DEF Complete
    <3>7. Saved' = Saved
      BY <1>2, <3>6, SavedKept
    <3> QED BY <3>2, <3>5, <3>7 DEF Unseen
  <2> QED BY <2>3, <2>4
<1>5. CASE Makes(job)
  <2>1. job.from = Dir /\ job.op # "tx commit" /\ ~Installs(job)
    BY <1>5, PlaceFacts DEF Makes, Installs
  <2>2. Dir \notin partial
    BY <1>2, <2>1, NotInstalling DEF Idle
  <2>3. partial' = partial \ {job.to} /\ Dir \notin partial'
    BY <1>2, <2>1, <2>2 DEF Copied
  <2>4. Base' = Base
    BY <1>2, <2>2, <2>3, BaseKept
  <2>5. ~Committing /\ ~Committing'
    <3>1. job' \in {job, NoJob} /\ NoJob.op # "tx commit"
      BY <1>2, <2>1 DEF Copied, Done, NoJob
    <3> QED BY <2>1, <3>1 DEF Committing
  <2>6. /\ \A p : p # job.to => (Complete(p)' <=> Complete(p))
        /\ ~Complete(job.to)
        /\ job.to \in flawed => job.to \notin there' \ (partial' \cup flawed')
        /\ job.to \notin flawed => job.to \in there' \ (partial' \cup flawed')
    BY <1>2, <2>3 DEF Complete
  <2>7. job.to \notin flawed => Base = Pair(job.to)
    <3>1. job.to \notin flawed => Base = Pair(Dir)
      BY <1>3, <2>1, <2>2, BaseAtRest
    <3>2. job.to \notin flawed => Pair(job.to) = Pair(Dir)
      BY <1>1, <1>3, <2>1 DEF Pair, Present
    <3> QED BY <3>1, <3>2
  <2>8. \A p : Pair(p)' = Pair(p)
    BY <1>2 DEF Pair
  <2>9. CASE job.to = Tx
    <3>1. Saved' = Saved
      BY <1>2, <2>6, <2>9, SavedKept, SlotFacts
    <3>2. Work = None
      BY <2>6, <2>9, WorkFacts
    <3>3. CASE Tx \in flawed
      <4>1. ~Complete(Tx)'
        BY <2>6, <2>9, <3>3 DEF Complete
      <4> QED BY <2>4, <3>1, <3>2, <4>1, WorkFactsNext DEF Unseen
    <3>4. CASE Tx \notin flawed
      <4>1. Complete(Tx)'
        BY <2>6, <2>9, <3>4 DEF Complete
      <4>2. Work' = Base
        BY <2>5, <2>7, <2>8, <2>9, <3>4, <4>1, WorkFactsNext
      <4> QED BY <2>4, <3>1, <3>2, <4>2, SeenWork
    <3> QED BY <3>3, <3>4
  <2>10. CASE job.to # Tx
    <3>1. Work' = Work
      BY <1>2, <2>5, <2>6, <2>10, WorkKept
    <3>2. CASE job.to \notin Slot \/ job.to \in flawed
      <4>1. \A s \in Slot : Complete(s)' <=> Complete(s)
        BY <2>6, <3>2 DEF Complete
      <4>2. Saved' = Saved
        BY <1>2, <4>1, SavedKept
      <4> QED BY <2>4, <3>1, <4>2 DEF Unseen
    <3>3. CASE job.to \in Slot /\ job.to \notin flawed
      <4>1. PICK s \in Slot : s = job.to
        BY <3>3
      <4>2. Base = IF Complete(s)' THEN Pair(s)' ELSE None
        <5>1. Complete(s)' /\ Pair(s)' = Pair(s)
          BY <2>6, <2>8, <3>3, <4>1 DEF Complete
        <5> QED BY <2>7, <3>3, <4>1, <5>1
      <4>3. Saved' = [Saved EXCEPT ![s] = Base]
        BY <1>2, <2>6, <4>1, <4>2, SavedOne
      <4> QED BY <2>4, <3>1, <4>3, SeenSlot
    <3> QED BY <3>2, <3>3
  <2> QED BY <2>9, <2>10
<1> QED BY <1>2, <1>4, <1>5

LEMMA RemoveDirMaps == ASSUME IInv, WInv, RemoveDir \/ RemoveFails PROVE Unseen
<1>1. /\ pc = "remove" /\ partial' = partial \ {job.to}
      /\ UNCHANGED <<disk, killed>>
      /\ pc' = IF job.op = "tx commit" THEN "audit" ELSE "idle"
      /\ Done(pc')
      /\ \/ there' = there \ {job.to} /\ flawed' = flawed \ {job.to}
         \/ there' = there /\ flawed' = flawed \cup {job.to}
  BY DEF RemoveDir, RemoveFails, AfterRemove, Unnoticed
<1>2. Removes(job) /\ job.to \in partial /\ ~killed
  BY <1>1, Parts DEF Jobs, Idle
<1>3. Dir \notin partial /\ Dir \notin partial' /\ job.to # Dir
  <2>1. ~Installs(job) /\ job.to # Dir
    BY <1>2, PlaceFacts DEF Removes, Installs
  <2>2. Dir \notin partial
    BY <1>1, <2>1, NotInstalling DEF Idle
  <2> QED BY <1>1, <2>1, <2>2
<1>4. Base' = Base
  BY <1>1, <1>3, BaseKept
<1>5. \A p : Complete(p)' <=> Complete(p)
  BY <1>1, <1>2 DEF Complete
<1>6. Saved' = Saved
  BY <1>1, <1>5, SavedKept
<1>7. CASE job.to = Tx
  <2>1. ~Complete(Tx)
    BY <1>2, <1>7 DEF Complete
  <2>2. Work = None /\ Work' = None
    BY <1>5, <2>1, WorkFacts, WorkFactsNext
  <2> QED BY <1>4, <1>6, <2>2 DEF Unseen
<1>8. CASE job.to # Tx
  <2>1. job.op = "snapshot prune" /\ pc' = "idle"
    BY <1>1, <1>2, <1>8 DEF Removes
  <2>2. ~Committing /\ ~Committing'
    BY <1>1, <1>2, <2>1 DEF Committing, Idle
  <2>3. Work' = Work
    BY <1>1, <1>5, <2>2, WorkKept
  <2> QED BY <1>4, <1>6, <2>3 DEF Unseen
<1> QED BY <1>7, <1>8

LEMMA PruneBackupsMaps == ASSUME IInv, WInv, PruneBackups PROVE Unseen
<1>1. Dir \notin partial
  BY Quiet DEF PruneBackups
<1>2. /\ \A p \in Slot \cup {Dir, Tx} :
           disk'[p] = disk[p] /\ (p \in flawed' <=> p \in flawed)
                              /\ (p \in there' \ partial' <=> p \in there \ partial)
      /\ partial' \subseteq partial /\ UNCHANGED <<job, killed>>
      /\ pc = "prune" /\ pc' = "audit"
  BY PrunesOthers
<1>3. Base' = Base
  BY <1>1, <1>2, BaseKept
<1>4. \A p \in Slot \cup {Dir, Tx} : Complete(p)' <=> Complete(p)
  BY <1>2 DEF Complete
<1>5. Committing' <=> Committing
  BY <1>2 DEF Committing, Idle
<1>6. Work' = Work
  BY <1>2, <1>4, <1>5, WorkKept
<1>7. Saved' = Saved
  BY <1>2, <1>4, SavedKept
<1> QED BY <1>3, <1>6, <1>7 DEF Unseen

\* A step that changes no csv file, and begins or ends nothing that is seen.
LEMMA CsvKeptMaps ==
    ASSUME IInv, WInv, \A p \in Place, f \in Csv : disk'[p][f] = disk[p][f],
           UNCHANGED <<there, partial, flawed>>,
           UNCHANGED <<job, pc, killed>> \/ (Dir \notin partial /\ Tx \notin there /\ Tx \notin partial)
    PROVE  Unseen
<1>1. Dir \in Place /\ Tx \in Place /\ Slot \subseteq Place /\ job.from \in Place
  BY PlaceFacts, SlotFacts DEF IInv, TypeOK
<1>2. \A p : Complete(p)' <=> Complete(p)
  BY DEF Complete
<1>3. Saved' = Saved
  BY <1>1, <1>2, SavedKept
<1>4. Work' = Work
  <2>1. Complete(Tx) => (Committing' <=> Committing)
    BY DEF Committing, Idle, Complete
  <2> QED BY <1>1, <1>2, <2>1, WorkKept
<1>5. Base' = Base
  <2>1. CASE Dir \notin partial
    BY <1>1, <2>1, BaseKept
  <2>2. CASE Dir \in partial
    <3>1. job' = job
      BY <2>2
    <3>2. \A f \in Csv : BaseFile(f)' = BaseFile(f)
      BY <1>1, <2>2, <3>1 DEF BaseFile, Installing
    <3> QED BY <3>2 DEF Base
  <2> QED BY <2>1, <2>2
<1> QED BY <1>3, <1>4, <1>5 DEF Unseen

\* The entry of a command that is done changes nothing that is seen.
LEMMA AuditMaps == ASSUME IInv, WInv, Audit PROVE Unseen
<1>1. /\ Dir \notin partial /\ Tx \notin partial
      /\ PutAt(Dir, "audit.log", Appended(disk[Dir]["audit.log"]))
      /\ pc = "audit" /\ pc' = "idle" /\ job' = NoJob /\ UNCHANGED <<there, partial, flawed, killed>>
  BY Quiet DEF Audit, Recorded, PutAt
<1>2. \A p \in Place, f \in Csv : disk'[p][f] = disk[p][f]
  BY <1>1, PutEffect, PlaceFacts, FileFacts DEF IInv
<1>3. Base' = Base
  BY <1>1, <1>2, BaseKept, PlaceFacts
<1>4. \A p : Complete(p)' <=> Complete(p)
  BY <1>1 DEF Complete
<1>5. Saved' = Saved
  BY <1>1, <1>2, <1>4, SavedKept, SlotFacts
<1>6. Complete(Tx) => ~Committing /\ ~Committing'
  <2>1. Complete(Tx) => job.op # "tx commit"
    BY <1>1, Parts DEF Jobs, Complete
  <2>2. NoJob.op # "tx commit"
    BY DEF NoJob
  <2> QED BY <1>1, <2>1, <2>2 DEF Committing
<1>7. Work' = Work
  BY <1>1, <1>2, <1>6, <1>4, WorkKept, PlaceFacts
<1> QED BY <1>3, <1>5, <1>7 DEF Unseen

LEMMA AuditPruneMaps == ASSUME IInv, WInv, NEW k, AuditPrune(k) PROVE Unseen
<1>1. UNCHANGED <<there, partial, flawed, job, pc, killed>> /\ PutAt(Dir, "audit.log", Missing)
  BY DEF AuditPrune, PutAt
<1>2. \A p \in Place, f \in Csv : disk'[p][f] = disk[p][f]
  BY <1>1, PutEffect, PlaceFacts, FileFacts DEF IInv
<1> QED BY <1>1, <1>2, CsvKeptMaps

\* A kill is not seen: what was being installed goes on counting as installed.
LEMMA KillMaps == ASSUME IInv, WInv, Kill PROVE Unseen
<1>1. /\ ~Idle /\ pc' = "idle" /\ UNCHANGED <<disk, there, partial, flawed>>
      /\ killed' = \/ pc = "remove" /\ job.to = Tx
                   \/ pc = "copy" /\ job.to \in {Dir, Tx}
      /\ job' = IF killed' THEN job ELSE NoJob
  BY DEF Kill
<1>2. Jobs /\ Vars
  BY Parts
<1>3. Dir \in partial => job' = job
  BY <1>1, <1>2 DEF WInv, Under, Installs, Jobs
<1>4. Base' = Base
  <2>1. CASE Dir \notin partial
    BY <1>1, <2>1, BaseKept
  <2>2. CASE Dir \in partial
    BY <1>1, <1>3, <2>2 DEF Base, BaseFile, Installing
  <2> QED BY <2>1, <2>2
<1>5. \A p : Complete(p)' <=> Complete(p)
  BY <1>1 DEF Complete
<1>6. Saved' = Saved
  BY <1>1, <1>5, SavedKept
<1>7. Complete(Tx) => (Committing' <=> Committing)
  <2> SUFFICES ASSUME Complete(Tx) PROVE Committing' <=> Committing
    OBVIOUS
  <2>1. CASE job.op = "tx commit"
    <3>1. killed'
      <4>1. pc \in {"copy", "remove"}
        BY <1>1, <1>2, <2>1 DEF Jobs, Vars, Idle, Complete
      <4>2. pc = "copy" => job.to = Dir
        BY <1>2, <2>1 DEF Jobs, Makes, Installs
      <4>3. pc = "remove" => job.to = Tx
        BY <1>2, <2>1 DEF Jobs, Removes
      <4> QED BY <1>1, <4>1, <4>2, <4>3
    <3> QED BY <1>1, <2>1, <3>1 DEF Committing
  <2>2. CASE job.op # "tx commit"
    <3>1. job' \in {job, NoJob} /\ NoJob.op # "tx commit"
      BY <1>1 DEF NoJob
    <3> QED BY <2>2, <3>1 DEF Committing
  <2> QED BY <2>1, <2>2
<1>8. Work' = Work
  BY <1>1, <1>7, <1>5, WorkKept
<1> QED BY <1>4, <1>6, <1>8 DEF Unseen

\* When the command that was killed is run again, or undone, before any other,
\* the commands that copy file by file implement a store of whole datasets: a
\* commit or a restore takes effect at its start, a copy at its end.  A copy into
\* the dataset that fails spoils it, in the store as on disk, and installing a
\* whole copy heals it; a failure anywhere else loses that copy and no other.
THEOREM CarefulIsAtomic == ASSUME Careful PROVE Spec => WholeDatasets
<1>1. ASSUME IInv, WInv, [Next]_vars PROVE Atomic!Next \/ Unseen
  <2>1. CASE UNCHANGED vars
    BY <1>1, <2>1, CsvKeptMaps DEF vars
  <2>2. CASE Step
    BY <1>1, <2>2, CopyMaps, CopiedMaps, RemoveFileMaps, RemoveDirMaps, PruneBackupsMaps, AuditMaps
       DEF Step
  <2>3. CASE Tick
    BY <1>1, <2>3, CsvKeptMaps DEF Tick
  <2>4. CASE Next /\ ~Step /\ ~Tick
    BY <1>1, <2>4, StartsMap, RunCommandMaps, AuditPruneMaps, KillMaps DEF Next, Starts
  <2> QED BY <1>1, <2>1, <2>2, <2>3, <2>4
<1>2. IInv /\ WInv /\ [Next]_vars => [Atomic!Next]_(Atomic!vars)
  BY <1>1, NotSeen
<1> QED BY <1>2, SeenInit, CarefulInv, PTL DEF Spec, WholeDatasets, Atomic!Spec
=============================================================================
