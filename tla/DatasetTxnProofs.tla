-------------------------- MODULE DatasetTxnProofs --------------------------
(* Theorems about DatasetTxn for every set of writers and recoverers.       *)
EXTENDS DatasetTxn, TLAPS

\* Every state a writer step leaves the program counter in is a known one.
LEMMA GotoType ==
    ASSUME TypeOK, NEW w \in Writer,
           NEW where \in Ended \cup Inside \cup {"idle", "guard", "lock"}, Goto(w, where)
    PROVE  pc' \in [Writer -> Ended \cup Inside \cup {"idle", "guard", "lock"}]
  BY DEF TypeOK, Goto

LEMMA ReplaceType ==
    ASSUME TypeOK, NEW src \in Name, NEW dst \in Name, RenameIfThere(src, dst)
    PROVE  /\ file' \in [Name -> Text \cup {None, Torn}]
           /\ fd' \in [Writer -> Name \cup {"none", "unlinked"}]
  BY DEF TypeOK, RenameIfThere, Replace

LEMMA OpenType ==
    ASSUME TypeOK, NEW w \in Writer,
           OpenProducts(w) \/ OpenOrders(w) \/ FlushProducts(w) \/ FlushOrders(w)
    PROVE  TypeOK'
<1>1. CASE OpenProducts(w) \/ OpenOrders(w)
  BY <1>1, GotoType DEF TypeOK, OpenProducts, OpenOrders, Open, Name, Inside
<1>2. CASE FlushProducts(w) \/ FlushOrders(w)
  <2>1. file' \in [Name -> Text \cup {None, Torn}]
    BY <1>2 DEF TypeOK, FlushProducts, FlushOrders, Flush, Text
  <2>2. pc' \in [Writer -> Ended \cup Inside \cup {"idle", "guard", "lock"}]
    BY <1>2 DEF TypeOK, FlushProducts, FlushOrders, Flush, Goto, Inside
  <2> QED BY <1>2, <2>1, <2>2 DEF TypeOK, FlushProducts, FlushOrders, Flush
<1> QED BY <1>1, <1>2

LEMMA WriterType ==
    ASSUME TypeOK, NEW w \in Writer, Start(w) \/ WriterStep(w) \/ Kill(w)
    PROVE  TypeOK'
<1> USE DEF TypeOK, Goto, Ended, Inside, Name
<1>1. CASE Start(w) \/ CheckReadOnly(w) \/ TakeLock(w) \/ WriteJournal(w)
           \/ RemoveJournal(w) \/ Kill(w)
  BY <1>1 DEF Start, CheckReadOnly, TakeLock, WriteJournal, RemoveJournal, Kill
<1>2. CASE OpenProducts(w) \/ OpenOrders(w) \/ FlushProducts(w) \/ FlushOrders(w)
  BY <1>2, OpenType
<1>3. CASE RenameProductsGuarded(w) \/ RenameProductsRaw(w) \/ RenameOrders(w)
  BY <1>3, ReplaceType DEF RenameProductsGuarded, RenameProductsRaw, RenameOrders
<1> QED BY <1>1, <1>2, <1>3 DEF WriterStep

LEMMA OtherType ==
    ASSUME TypeOK,
           \/ \E r \in Recoverer : RecoverStep(r) \/ KillRecover(r)
           \/ \E name \in {"products", "orders"} : PlainSave(name)
           \/ SafeMode
    PROVE  TypeOK'
<1>1. ASSUME NEW r \in Recoverer, RecoverStep(r) \/ KillRecover(r) PROVE TypeOK'
  BY <1>1, ReplaceType DEF TypeOK, Name, RecoverStep, StartRecover, RecoverProducts,
     RecoverOrders, RecoverJournal, KillRecover
<1>2. ASSUME NEW name \in {"products", "orders"}, PlainSave(name) PROVE TypeOK'
  BY <1>2, TxnAssumption DEF TypeOK, PlainSave, Text, Name
<1>3. CASE SafeMode
  BY <1>3 DEF TypeOK, SafeMode
<1> QED BY <1>1, <1>2, <1>3

LEMMA InitType == Init => TypeOK
<1> SUFFICES ASSUME Init PROVE TypeOK
  OBVIOUS
<1>1. file \in [Name -> Text \cup {None, Torn}]
  BY DEF Init, Text
<1>2. /\ journal \in BOOLEAN /\ writelock \in BOOLEAN /\ readonly \in BOOLEAN
      /\ rpc \in [Recoverer -> {"idle", "products", "orders", "journal"}]
      /\ fd \in [Writer -> Name \cup {"none", "unlinked"}]
      /\ pc \in [Writer -> Ended \cup Inside \cup {"idle", "guard", "lock"}]
  BY DEF Init
<1>3. saves \in 0 .. MaxSaves
  BY TxnAssumption DEF Init
<1> QED BY <1>1, <1>2, <1>3 DEF TypeOK

LEMMA NextType == TypeOK /\ [Next]_vars => TypeOK'
<1>1. TypeOK /\ UNCHANGED vars => TypeOK'
  BY DEF TypeOK, vars
<1> QED BY <1>1, WriterType, OtherType DEF Next

\* Every variable keeps its type.
THEOREM TypeCorrect == Spec => []TypeOK
  BY InitType, NextType, PTL DEF Spec

-----------------------------------------------------------------------------
\* A guarded writer that passed the mkdir holds the directory it made.
LockInv ==
    /\ OneWriterInside
    /\ \A w \in Guarded : pc[w] \in Inside => writelock

\* A step that moves one writer, not into the locked region, keeps LockInv.
LEMMA LockFrame ==
    ASSUME TypeOK, LockInv, NEW w \in Writer, NEW where, Goto(w, where),
           where \in Inside => pc[w] \in Inside, writelock' = writelock
    PROVE  LockInv'
  BY TxnAssumption DEF TypeOK, LockInv, OneWriterInside, Goto

LEMMA NextLock == TypeOK /\ LockInv /\ [Next]_vars => LockInv'
<1> SUFFICES ASSUME TypeOK, LockInv, [Next]_vars PROVE LockInv'
  OBVIOUS
<1>1. CASE UNCHANGED <<pc, writelock>>
  BY <1>1 DEF LockInv, OneWriterInside
<1>2. ASSUME NEW w \in Writer, Start(w) PROVE LockInv'
  <2> DEFINE where == IF w \in Guarded THEN "guard" ELSE "openP"
  <2>1. Goto(w, where) /\ writelock' = writelock /\ pc[w] = "idle"
    BY <1>2 DEF Start
  <2>2. w \in Guarded => where \notin Inside
    BY DEF Inside
  <2> HIDE DEF where
  <2> QED BY <2>1, <2>2, TxnAssumption DEF TypeOK, LockInv, OneWriterInside, Goto
<1>3. ASSUME NEW w \in Writer, Kill(w) PROVE LockInv'
  BY <1>3, LockFrame DEF Kill, Inside
<1>4. ASSUME NEW w \in Writer, WriterStep(w) PROVE LockInv'
  <2>1. CASE CheckReadOnly(w)
    BY <2>1, LockFrame DEF CheckReadOnly, Inside
  <2>2. CASE TakeLock(w)
    BY <2>2, TxnAssumption DEF TakeLock, Goto, TypeOK, LockInv, OneWriterInside, Inside
  <2>3. CASE OpenProducts(w) \/ OpenOrders(w)
    BY <2>3, LockFrame DEF OpenProducts, OpenOrders, Open, Inside
  <2>4. CASE FlushProducts(w) \/ FlushOrders(w)
    BY <2>4, LockFrame DEF FlushProducts, FlushOrders, Flush, Inside
  <2>5. CASE WriteJournal(w) \/ RemoveJournal(w)
    BY <2>5, LockFrame DEF WriteJournal, RemoveJournal, Inside
  <2>6. CASE RenameProductsGuarded(w)
    BY <2>6, TxnAssumption
       DEF RenameProductsGuarded, Goto, TypeOK, LockInv, OneWriterInside, Inside
  <2>7. CASE RenameProductsRaw(w) \/ RenameOrders(w)
    BY <2>7, LockFrame DEF RenameProductsRaw, RenameOrders, Inside
  <2> QED BY <1>4, <2>1, <2>2, <2>3, <2>4, <2>5, <2>6, <2>7 DEF WriterStep
<1>5. ASSUME NEW r \in Recoverer, RecoverStep(r) \/ KillRecover(r)
      PROVE UNCHANGED <<pc, writelock>>
  BY <1>5 DEF RecoverStep, StartRecover, RecoverProducts, RecoverOrders,
     RecoverJournal, KillRecover
<1>6. CASE UNCHANGED vars \/ SafeMode \/ \E name \in {"products", "orders"} : PlainSave(name)
  BY <1>1, <1>6 DEF SafeMode, PlainSave, vars
<1> QED BY <1>1, <1>2, <1>3, <1>4, <1>5, <1>6 DEF Next

\* The write lock excludes: at most one guarded writer is between the mkdir and
\* its return, whoever is killed and whoever recovers meanwhile.
THEOREM LockExcludes == Spec => []OneWriterInside
<1>1. Init => LockInv
  BY TxnAssumption DEF Init, LockInv, OneWriterInside, Inside
<1>2. LockInv => OneWriterInside
  BY DEF LockInv
<1> QED BY <1>1, <1>2, NextLock, TypeCorrect, PTL DEF Spec

-----------------------------------------------------------------------------
\* What a writer that got inside finds in the .new files.
Contents(w) ==
    /\ pc[w] \notin {"writeP", "writeO"} => fd[w] = "none"
    /\ pc[w] = "writeP" => fd[w] = "pnew" /\ file["pnew"] = Torn
    /\ pc[w] \in {"openO", "writeO", "prepare", "renameP"} => file["pnew"] = w
    /\ pc[w] = "writeO" => fd[w] = "onew" /\ file["onew"] = Torn
    /\ pc[w] \in {"prepare", "renameP", "renameO"} => file["onew"] = w
    /\ pc[w] \in {"renameO", "finish"} => file["pnew"] = None
    /\ pc[w] = "finish" => file["onew"] = None

Renaming == {"renameP", "renameO", "finish"}

\* Nobody is inside, nobody recovers, and no journal is there.
Clear ==
    /\ ~journal
    /\ \A w \in Writer : pc[w] \notin Inside
    /\ \A r \in Recoverer : ~Recovering(r)

Alone ==
    /\ \A v, w \in Writer : pc[v] \in Inside /\ pc[w] \in Inside => v = w
    /\ \A w \in Writer, r \in Recoverer : pc[w] \in Inside => ~Recovering(r)
    /\ \A w \in Writer : pc[w] \in Inside => (journal <=> pc[w] \in Renaming)

Whole ==
    /\ journal \/ (\E r \in Recoverer : Recovering(r)) =>
            file["pnew"] # Torn /\ file["onew"] # Torn
    /\ \A r \in Recoverer :
        /\ rpc[r] \in {"orders", "journal"} => file["pnew"] = None
        /\ rpc[r] = "journal" => file["onew"] = None
    /\ NeverTorn

\* With the lock taken by every writer, a directory that is not clear is locked.
LockMode == Guarded = Writer => (~Clear => writelock)

\* With writes that do not overlap, a running writer is alone from its start.
QuietMode ==
    QuietWrites =>
        /\ \A v, w \in Writer : Running(v) /\ Running(w) => v = w
        /\ \A w \in Writer, r \in Recoverer : Running(w) => ~Recovering(r)
        /\ \A w \in Writer : Running(w) /\ pc[w] \notin Inside => ~journal

SafeInv == Alone /\ Whole /\ (\A w \in Writer : Contents(w)) /\ LockMode /\ QuietMode

LEMMA InitSafe == Init => SafeInv
<1> SUFFICES ASSUME Init PROVE SafeInv
  OBVIOUS
<1>1. Clear /\ \A w \in Writer : pc[w] = "idle" /\ fd[w] = "none" /\ ~Running(w)
  BY DEF Init, Clear, Inside, Recovering, Running
<1>2. NeverTorn
  BY DEF Init, NeverTorn, Name, Text
<1> QED BY <1>1, <1>2 DEF SafeInv, Alone, Whole, Contents, LockMode, QuietMode, Clear,
        Recovering

\* Who gets inside finds the directory clear.
LEMMA EnterClear ==
    ASSUME TypeOK, SafeInv, Disciplined, NEW w \in Writer,
           \/ Start(w) /\ w \notin Guarded
           \/ TakeLock(w) /\ ~writelock
    PROVE  Clear
<1>1. CASE Start(w) /\ w \notin Guarded
  <2>1. Calm
    BY <1>1 DEF Disciplined, Start
  <2> QED BY <2>1 DEF Calm, NoneRunning, Running, Clear, Inside, Ended
<1>2. CASE TakeLock(w) /\ ~writelock
  <2>1. CASE Guarded = Writer
    BY <1>2, <2>1 DEF SafeInv, LockMode
  <2>2. CASE QuietWrites
    <3>1. Running(w) /\ pc[w] \notin Inside
      BY <1>2 DEF TakeLock, Running, Ended, Inside
    <3>2. \A v \in Writer : pc[v] \in Inside => Running(v)
      BY DEF Running, Inside, Ended
    <3> QED BY <2>2, <3>1, <3>2 DEF SafeInv, QuietMode, Clear
  <2> QED BY <2>1, <2>2 DEF Disciplined
<1> QED BY <1>1, <1>2

\* A step of the one writer that is inside, which stays or ends.
LEMMA InsideFrame ==
    ASSUME TypeOK, SafeInv, NEW w \in Writer, NEW where \in Inside \cup Ended,
           Goto(w, where), pc[w] \in Inside, UNCHANGED <<rpc, writelock>>,
           where \in Inside => (journal' <=> where \in Renaming),
           \A v \in Writer \ {w} : fd[v] = "none" => fd'[v] = "none",
           Contents(w)', Whole'
    PROVE  SafeInv'
<1>1. pc' = [pc EXCEPT ![w] = where] /\ pc'[w] = where
  BY DEF Goto, TypeOK
<1>2. \A v \in Writer \ {w} : pc[v] \notin Inside /\ pc'[v] = pc[v]
  BY <1>1 DEF SafeInv, Alone, TypeOK
<1>3. Alone'
  BY <1>1, <1>2 DEF SafeInv, Alone, Recovering
<1>4. \A v \in Writer : Contents(v)'
  <2> SUFFICES ASSUME NEW v \in Writer \ {w} PROVE Contents(v)'
    OBVIOUS
  <2>1. fd[v] = "none" /\ fd'[v] = "none"
    BY <1>2 DEF SafeInv, Contents, Inside
  <2> QED BY <1>2, <2>1 DEF Contents, Inside
<1>5. LockMode'
  BY <1>2 DEF SafeInv, LockMode, Clear
<1>6. QuietMode'
  <2> SUFFICES ASSUME QuietWrites PROVE QuietMode'
    BY DEF QuietMode
  <2>1. Running(w)
    BY DEF Running, Inside, Ended
  <2>2. \A v \in Writer \ {w} : ~Running(v) /\ ~Running(v)'
    BY <1>2, <2>1 DEF SafeInv, QuietMode, Running
  <2>3. \A r \in Recoverer : ~Recovering(r)'
    BY <2>1 DEF SafeInv, QuietMode, Recovering
  <2>4. Running(w)' => pc'[w] \in Inside
    BY <1>1 DEF Running
  <2> QED BY <2>2, <2>3, <2>4 DEF QuietMode
<1> QED BY <1>3, <1>4, <1>5, <1>6 DEF SafeInv

LEMMA NamesDiffer ==
    /\ Torn \notin Text /\ None \notin Text /\ None # Torn
    /\ \A w \in Writer : w \in Text
  BY TxnAssumption DEF Text

\* Truncating the two .new files and writing them.
LEMMA WriteNewStep ==
    ASSUME TypeOK, SafeInv, NEW w \in Writer,
           OpenProducts(w) \/ FlushProducts(w) \/ OpenOrders(w) \/ FlushOrders(w)
    PROVE  SafeInv'
<1> USE DEF TypeOK, Name
<1>1. /\ Contents(w) /\ pc[w] \in Inside \ Renaming
      /\ UNCHANGED <<rpc, writelock, journal>>
  BY DEF SafeInv, OpenProducts, FlushProducts, OpenOrders, FlushOrders, Open, Flush,
     Inside, Renaming
<1>2. ~journal /\ \A r \in Recoverer : ~Recovering(r)
  BY <1>1 DEF SafeInv, Alone
<1>3. /\ file'["products"] = file["products"] /\ file'["orders"] = file["orders"]
      /\ \A v \in Writer \ {w} : fd'[v] = fd[v]
  <2>1. CASE OpenProducts(w) \/ OpenOrders(w)
    BY <2>1 DEF OpenProducts, OpenOrders, Open
  <2>2. CASE FlushProducts(w)
    BY <1>1, <2>2 DEF FlushProducts, Flush, Contents
  <2>3. CASE FlushOrders(w)
    BY <1>1, <2>3 DEF FlushOrders, Flush, Contents
  <2> QED BY <2>1, <2>2, <2>3
<1>4. Whole'
  BY <1>1, <1>2, <1>3 DEF SafeInv, Whole, NeverTorn, Recovering
<1>5. ASSUME NEW where \in (Inside \cup Ended) \ Renaming, Goto(w, where), Contents(w)'
      PROVE SafeInv'
  BY <1>1, <1>2, <1>3, <1>4, <1>5, InsideFrame
<1>6. CASE OpenProducts(w)
  <2>1. Contents(w)'
    BY <1>6 DEF OpenProducts, Open, Goto, Contents
  <2> QED BY <1>5, <1>6, <2>1 DEF OpenProducts, Open, Inside, Renaming
<1>7. CASE FlushProducts(w)
  <2>1. file'["pnew"] = w
    BY <1>1, <1>7 DEF FlushProducts, Flush, Contents
  <2>2. Contents(w)'
    BY <1>7, <2>1 DEF FlushProducts, Flush, Goto, Contents
  <2> QED BY <1>5, <1>7, <2>2 DEF FlushProducts, Flush, Inside, Renaming
<1>8. CASE OpenOrders(w)
  <2>1. Contents(w)'
    BY <1>1, <1>8 DEF OpenOrders, Open, Goto, Contents
  <2> QED BY <1>5, <1>8, <2>1 DEF OpenOrders, Open, Inside, Renaming
<1>9. CASE FlushOrders(w)
  <2>1. file'["onew"] = w /\ file'["pnew"] = w
    BY <1>1, <1>9 DEF FlushOrders, Flush, Contents
  <2>2. Contents(w)'
    BY <1>9, <2>1 DEF FlushOrders, Flush, Goto, Contents
  <2> QED BY <1>5, <1>9, <2>2 DEF FlushOrders, Flush, Inside, Renaming
<1> QED BY <1>6, <1>7, <1>8, <1>9

LEMMA WriteJournalStep ==
    ASSUME TypeOK, SafeInv, NEW w \in Writer, WriteJournal(w)
    PROVE  SafeInv'
<1> USE DEF TypeOK
<1>1. /\ Contents(w) /\ pc[w] \in Inside /\ Goto(w, "renameP") /\ journal'
      /\ UNCHANGED <<file, fd, rpc, writelock>>
  BY DEF SafeInv, WriteJournal, Inside
<1>2. file["pnew"] = w /\ file["onew"] = w
  BY DEF WriteJournal, SafeInv, Contents
<1>3. Contents(w)'
  BY <1>1, <1>2 DEF Goto, Contents, WriteJournal
<1>4. Whole'
  BY <1>1, <1>2, NamesDiffer DEF SafeInv, Whole, NeverTorn, Recovering
<1> QED BY <1>1, <1>3, <1>4, InsideFrame DEF Inside, Renaming

\* A rename of a .new file that is there, by a process that is alone.
LEMMA ReplaceFacts ==
    ASSUME TypeOK, NEW src \in {"pnew", "onew"}, NEW dst \in {"products", "orders"},
           RenameIfThere(src, dst), file[src] # None
    PROVE  /\ file' = [file EXCEPT ![dst] = file[src], ![src] = None]
           /\ \A v \in Writer : fd[v] = "none" => fd'[v] = "none"
  BY DEF RenameIfThere, Replace, TypeOK

LEMMA RenameStep ==
    ASSUME TypeOK, SafeInv, NEW w \in Writer,
           RenameProductsGuarded(w) \/ RenameProductsRaw(w) \/ RenameOrders(w)
    PROVE  SafeInv'
<1> USE DEF TypeOK, Name
<1>1. Contents(w) /\ pc[w] \in {"renameP", "renameO"} /\ pc[w] \in Inside
  BY DEF SafeInv, RenameProductsGuarded, RenameProductsRaw, RenameOrders, Inside
<1>2. journal /\ (\A r \in Recoverer : ~Recovering(r)) /\ w \in Text /\ w # None
  BY <1>1, NamesDiffer DEF SafeInv, Alone, Renaming
<1>3. CASE RenameProductsGuarded(w) \/ RenameProductsRaw(w)
  <2>1. pc[w] = "renameP" /\ file["pnew"] = w /\ file["onew"] = w /\ fd[w] = "none"
    BY <1>1, <1>3 DEF RenameProductsGuarded, RenameProductsRaw, Contents
  <2>2. /\ file' = [file EXCEPT !["products"] = w, !["pnew"] = None]
        /\ \A v \in Writer : fd[v] = "none" => fd'[v] = "none"
    BY <1>2, <1>3, <2>1, ReplaceFacts DEF RenameProductsGuarded, RenameProductsRaw
  <2>3. UNCHANGED <<rpc, journal, writelock>>
    BY <1>2, <1>3, <2>1 DEF RenameProductsGuarded, RenameProductsRaw
  <2>4. PICK where \in {"false", "renameO"} : Goto(w, where)
    BY <1>3 DEF RenameProductsGuarded, RenameProductsRaw
  <2>5. Whole'
    BY <1>2, <2>1, <2>2, <2>3, NamesDiffer DEF SafeInv, Whole, NeverTorn, Recovering
  <2>6. Contents(w)'
    BY <2>1, <2>2, <2>4 DEF Goto, Contents
  <2> QED BY <1>1, <1>2, <2>2, <2>3, <2>4, <2>5, <2>6, InsideFrame
          DEF Inside, Ended, Renaming
<1>4. CASE RenameOrders(w)
  <2>1. pc[w] = "renameO" /\ file["onew"] = w /\ file["pnew"] = None /\ fd[w] = "none"
    BY <1>1, <1>4 DEF RenameOrders, Contents
  <2>2. /\ file' = [file EXCEPT !["orders"] = w, !["onew"] = None]
        /\ \A v \in Writer : fd[v] = "none" => fd'[v] = "none"
    BY <1>2, <1>4, <2>1, ReplaceFacts DEF RenameOrders
  <2>3. UNCHANGED <<rpc, journal, writelock>> /\ Goto(w, "finish")
    BY <1>2, <1>4, <2>1 DEF RenameOrders
  <2>4. Whole'
    BY <1>2, <2>1, <2>2, <2>3, NamesDiffer DEF SafeInv, Whole, NeverTorn, Recovering
  <2>5. Contents(w)'
    BY <2>1, <2>2, <2>3 DEF Goto, Contents
  <2> QED BY <1>1, <1>2, <2>2, <2>3, <2>4, <2>5, InsideFrame DEF Inside, Ended, Renaming
<1> QED BY <1>3, <1>4

LEMMA RemoveJournalStep ==
    ASSUME TypeOK, SafeInv, NEW w \in Writer, RemoveJournal(w)
    PROVE  SafeInv'
<1> USE DEF TypeOK
<1>1. /\ Contents(w) /\ pc[w] \in Inside /\ Goto(w, "true") /\ ~journal'
      /\ UNCHANGED <<file, fd, rpc, writelock>>
  BY DEF SafeInv, RemoveJournal, Inside
<1>2. Contents(w)'
  BY <1>1 DEF Goto, Contents, RemoveJournal
<1>3. Whole'
  BY <1>1 DEF SafeInv, Whole, NeverTorn, Recovering
<1> QED BY <1>1, <1>2, <1>3, InsideFrame DEF Inside, Ended

LEMMA KillStep ==
    ASSUME TypeOK, SafeInv, NEW w \in Writer, Kill(w)
    PROVE  SafeInv'
<1> USE DEF TypeOK
<1>1. /\ Goto(w, "killed") /\ fd' = [fd EXCEPT ![w] = "none"]
      /\ UNCHANGED <<file, journal, rpc, writelock>> /\ Running(w)
  BY DEF Kill
<1>2. Whole'
  BY <1>1 DEF SafeInv, Whole, NeverTorn, Recovering
<1>3. Contents(w)'
  BY <1>1 DEF Goto, Contents
<1>4. CASE pc[w] \in Inside
  BY <1>1, <1>2, <1>3, <1>4, InsideFrame DEF Inside, Ended
<1>5. CASE pc[w] \notin Inside
  <2>1. pc' = [pc EXCEPT ![w] = "killed"]
    BY <1>1 DEF Goto
  <2>2. Alone'
    BY <1>1, <2>1 DEF SafeInv, Alone, Recovering, Inside
  <2>3. \A v \in Writer : Contents(v)'
    BY <1>1, <1>3, <2>1 DEF SafeInv, Contents
  <2>4. LockMode'
    BY <1>1, <1>5, <2>1 DEF SafeInv, LockMode, Clear, Recovering, Inside
  <2>5. QuietMode'
    BY <1>1, <2>1 DEF SafeInv, QuietMode, Running, Recovering, Ended
  <2> QED BY <1>2, <2>2, <2>3, <2>4, <2>5 DEF SafeInv
<1> QED BY <1>4, <1>5

\* A step of a writer that is outside before and after it.
LEMMA OutsideFrame ==
    ASSUME TypeOK, SafeInv, NEW w \in Writer,
           NEW where \in {"guard", "lock", "busy", "refused"}, Goto(w, where),
           pc[w] \in {"idle", "guard", "lock"}, UNCHANGED <<file, journal, fd, rpc>>,
           writelock => writelock',
           QuietWrites /\ pc[w] = "idle" => Calm
    PROVE  SafeInv'
<1> USE DEF TypeOK
<1>1. /\ pc' = [pc EXCEPT ![w] = where] /\ pc[w] \notin Inside /\ where \notin Inside
      /\ where \notin {"writeP", "writeO"} /\ pc[w] \notin {"writeP", "writeO"}
  BY DEF Goto, Inside
<1>2. Alone'
  BY <1>1 DEF SafeInv, Alone, Recovering
<1>3. Whole'
  BY DEF SafeInv, Whole, NeverTorn, Recovering
<1>4. \A v \in Writer : Contents(v)'
  BY <1>1 DEF SafeInv, Contents, Inside
<1>5. LockMode'
  BY <1>1 DEF SafeInv, LockMode, Clear, Recovering
<1>6. QuietMode'
  BY <1>1 DEF SafeInv, QuietMode, Running, Recovering, Ended, Calm, NoneRunning
<1> QED BY <1>2, <1>3, <1>4, <1>5, <1>6 DEF SafeInv

\* A step that brings a writer inside a clear directory.
LEMMA EnterFrame ==
    ASSUME TypeOK, SafeInv, NEW w \in Writer, Goto(w, "openP"), Clear,
           pc[w] \in {"idle", "lock"}, UNCHANGED <<file, journal, fd, rpc>>,
           Guarded = Writer => writelock',
           QuietWrites /\ pc[w] = "idle" => Calm
    PROVE  SafeInv'
<1> USE DEF TypeOK
<1>1. pc' = [pc EXCEPT ![w] = "openP"]
  BY DEF Goto
<1>2. Alone'
  BY <1>1 DEF SafeInv, Alone, Recovering, Clear, Renaming
<1>3. Whole'
  BY DEF SafeInv, Whole, NeverTorn, Recovering
<1>4. \A v \in Writer : Contents(v)'
  BY <1>1 DEF SafeInv, Contents, Clear
<1>5. LockMode'
  BY DEF LockMode
<1>6. QuietMode'
  BY <1>1 DEF SafeInv, QuietMode, Running, Recovering, Ended, Calm, NoneRunning,
     Clear, Inside
<1> QED BY <1>2, <1>3, <1>4, <1>5, <1>6 DEF SafeInv

LEMMA BeginStep ==
    ASSUME TypeOK, SafeInv, Disciplined, NEW w \in Writer,
           Start(w) \/ CheckReadOnly(w) \/ TakeLock(w)
    PROVE  SafeInv'
<1>1. CASE Start(w) /\ w \in Guarded
  BY <1>1, OutsideFrame DEF Start
<1>2. CASE Start(w) /\ w \notin Guarded
  <2>1. Guarded # Writer
    BY <1>2
  <2> QED BY <1>2, <2>1, EnterClear, EnterFrame DEF Start
<1>3. CASE CheckReadOnly(w)
  <2>1. PICK where \in {"refused", "lock"} : Goto(w, where)
    BY <1>3 DEF CheckReadOnly
  <2> QED BY <1>3, <2>1, OutsideFrame DEF CheckReadOnly
<1>4. CASE TakeLock(w) /\ writelock
  BY <1>4, OutsideFrame DEF TakeLock
<1>5. CASE TakeLock(w) /\ ~writelock
  BY <1>5, EnterClear, EnterFrame DEF TakeLock
<1> QED BY <1>1, <1>2, <1>3, <1>4, <1>5

LEMMA RecoverSafe ==
    ASSUME TypeOK, SafeInv, Disciplined, NEW r \in Recoverer,
           RecoverStep(r) \/ KillRecover(r)
    PROVE  SafeInv'
<1> USE DEF TypeOK
<1>1. UNCHANGED <<pc, writelock>> /\ \A q \in Recoverer \ {r} : rpc'[q] = rpc[q]
  BY DEF RecoverStep, StartRecover, RecoverProducts, RecoverOrders, RecoverJournal,
     KillRecover
<1>2. CASE StartRecover(r)
  <2>1. NoneRunning /\ journal
    BY <1>2 DEF Disciplined, StartRecover
  <2>2. \A w \in Writer : ~Running(w) /\ pc[w] \notin Inside
    BY <2>1 DEF NoneRunning, Running, Inside, Ended
  <2>3. Alone'
    BY <1>2, <2>2 DEF StartRecover, SafeInv, Alone
  <2>4. Whole'
    BY <1>2, <2>1 DEF StartRecover, SafeInv, Whole, NeverTorn, Recovering
  <2>5. \A w \in Writer : Contents(w)'
    BY <1>2 DEF StartRecover, SafeInv, Contents
  <2>6. LockMode' /\ QuietMode'
    BY <1>2, <2>1, <2>2 DEF StartRecover, SafeInv, LockMode, QuietMode, Clear, Running
  <2> QED BY <2>3, <2>4, <2>5, <2>6 DEF SafeInv
<1>3. ASSUME Recovering(r), ~StartRecover(r) PROVE SafeInv'
  <2>1. \A w \in Writer : pc[w] \notin Inside /\ fd[w] = "none"
    BY <1>3 DEF SafeInv, Alone, Contents, Inside
  <2>2. \/ RecoverProducts(r) \/ RecoverOrders(r) \/ RecoverJournal(r) \/ KillRecover(r)
    BY <1>3 DEF RecoverStep
  <2>3. (journal' => journal) /\ \A w \in Writer : fd'[w] = "none"
    BY <2>1, <2>2, ReplaceFacts DEF RecoverProducts, RecoverOrders, RecoverJournal,
       KillRecover, RenameIfThere
  <2>4. Alone' /\ \A w \in Writer : Contents(w)'
    BY <1>1, <2>1, <2>3 DEF Alone, Contents, Inside
  <2>5. LockMode'
    BY <1>1, <1>3 DEF SafeInv, LockMode, Clear
  <2>6. QuietMode'
    <3> SUFFICES ASSUME QuietWrites PROVE QuietMode'
      BY DEF QuietMode
    <3>1. \A w \in Writer : ~Running(w) /\ ~Running(w)'
      BY <1>1, <1>3 DEF SafeInv, QuietMode, Running
    <3> QED BY <3>1 DEF QuietMode
  <2>7. Whole'
    <3> USE DEF SafeInv, Whole, NeverTorn, Recovering, Name
    <3>1. CASE RecoverProducts(r)
      <4>1. /\ rpc' = [rpc EXCEPT ![r] = "orders"] /\ journal' = journal
            /\ file["pnew"] # Torn /\ file["onew"] # Torn
        BY <1>3, <3>1 DEF RecoverProducts
      <4>2. CASE file["pnew"] = None
        BY <3>1, <4>1, <4>2 DEF RecoverProducts, RenameIfThere
      <4>3. CASE file["pnew"] # None
        <5>1. file' = [file EXCEPT !["products"] = file["pnew"], !["pnew"] = None]
          BY <3>1, <4>3, ReplaceFacts DEF RecoverProducts
        <5> QED BY <4>1, <4>3, <5>1, NamesDiffer
      <4> QED BY <4>2, <4>3
    <3>2. CASE RecoverOrders(r)
      <4>1. /\ rpc' = [rpc EXCEPT ![r] = "journal"] /\ journal' = journal
            /\ file["pnew"] = None /\ file["onew"] # Torn
        BY <1>3, <3>2 DEF RecoverOrders
      <4>2. CASE file["onew"] = None
        BY <3>2, <4>1, <4>2, NamesDiffer DEF RecoverOrders, RenameIfThere
      <4>3. CASE file["onew"] # None
        <5>1. file' = [file EXCEPT !["orders"] = file["onew"], !["onew"] = None]
          BY <3>2, <4>3, ReplaceFacts DEF RecoverOrders
        <5> QED BY <4>1, <4>3, <5>1, NamesDiffer
      <4> QED BY <4>2, <4>3
    <3>3. CASE RecoverJournal(r) \/ KillRecover(r)
      BY <3>3 DEF RecoverJournal, KillRecover
    <3> QED BY <2>2, <3>1, <3>2, <3>3
  <2> QED BY <2>4, <2>5, <2>6, <2>7 DEF SafeInv
<1> QED BY <1>2, <1>3 DEF RecoverStep, RecoverProducts, RecoverOrders, RecoverJournal,
        KillRecover, Recovering

LEMMA SaveStep ==
    ASSUME TypeOK, SafeInv, SafeMode \/ \E name \in {"products", "orders"} : PlainSave(name)
    PROVE  SafeInv'
<1> USE DEF TypeOK, Name
<1>1. CASE SafeMode
  BY <1>1 DEF SafeMode, SafeInv, Alone, Whole, NeverTorn, Contents, LockMode, QuietMode,
     Clear, Running, Recovering
<1>2. ASSUME NEW name \in {"products", "orders"}, PlainSave(name) PROVE SafeInv'
  <2>1. /\ UNCHANGED <<journal, writelock, pc, rpc>>
        /\ file' = [file EXCEPT ![name] = Saved]
    BY <1>2 DEF PlainSave
  <2>2. \A w \in Writer : fd[w] \in {"none", "pnew", "onew"} => fd'[w] = fd[w]
    BY <1>2 DEF PlainSave
  <2>3. Whole'
    BY <2>1 DEF SafeInv, Whole, NeverTorn, Recovering, Text
  <2>4. \A w \in Writer : Contents(w)'
    BY <2>1, <2>2 DEF SafeInv, Contents
  <2>5. Alone' /\ LockMode' /\ QuietMode'
    BY <2>1 DEF SafeInv, Alone, LockMode, QuietMode, Clear, Running, Recovering
  <2> QED BY <2>3, <2>4, <2>5 DEF SafeInv
<1> QED BY <1>1, <1>2

LEMMA NextSafe == TypeOK /\ Disciplined /\ SafeInv /\ [Next]_vars => SafeInv'
<1> SUFFICES ASSUME TypeOK, Disciplined, SafeInv, [Next]_vars PROVE SafeInv'
  OBVIOUS
<1>1. CASE UNCHANGED vars
  BY <1>1 DEF vars, SafeInv, Alone, Whole, NeverTorn, Contents, LockMode, QuietMode,
     Clear, Running, Recovering
<1>2. ASSUME NEW w \in Writer, Start(w) \/ WriterStep(w) \/ Kill(w) PROVE SafeInv'
  BY <1>2, BeginStep, WriteNewStep, WriteJournalStep, RenameStep, RemoveJournalStep,
     KillStep DEF WriterStep
<1>3. ASSUME NEW r \in Recoverer, RecoverStep(r) \/ KillRecover(r) PROVE SafeInv'
  BY <1>3, RecoverSafe
<1> QED BY <1>1, <1>2, <1>3, SaveStep DEF Next

\* Under the discipline, no kill, recovery or plain save ever leaves a
\* half-written products.csv or orders.csv, for any number of processes.
THEOREM FilesStayWhole ==
    ASSUME Disciplined
    PROVE  Spec => []NeverTorn
<1>1. TypeOK /\ SafeInv /\ [Next]_vars => SafeInv'
  BY NextSafe
<1>2. SafeInv => NeverTorn
  BY DEF SafeInv, Whole
<1> QED BY <1>1, <1>2, InitSafe, TypeCorrect, PTL DEF Spec

-----------------------------------------------------------------------------
\* The pair a recovery would leave changes only when a journal appears.
LEMMA VisibleQuiet ==
    ASSUME TypeOK, SafeInv, ~journal, ~journal',
           file'["products"] = file["products"], file'["orders"] = file["orders"]
    PROVE  Visible' = Visible
  BY DEF Visible, Recovered

\* Moving a .new file into place under a pending journal shows nothing new.
LEMMA VisibleReplace ==
    ASSUME TypeOK, journal, journal',
           \/ UNCHANGED file
           \/ file' = [file EXCEPT !["products"] = file["pnew"], !["pnew"] = None]
              /\ file["pnew"] # None
           \/ file' = [file EXCEPT !["orders"] = file["onew"], !["onew"] = None]
              /\ file["onew"] # None
    PROVE  Visible' = Visible
  BY DEF TypeOK, Name, Visible, Recovered

\* A recovery that finds the journal gone (another one removed it) finds the
\* .new files gone too, so it cannot show anything new.
Drained == \A r \in Recoverer : Recovering(r) /\ ~journal =>
              file["pnew"] = None /\ file["onew"] = None

LEMMA InitDrained == Init => Drained
  BY DEF Init, Drained, Recovering

\* While a writer is inside nobody recovers, so its steps keep Drained.
LEMMA WriterDrained ==
    ASSUME TypeOK, SafeInv, Drained, NEW w \in Writer,
           Start(w) \/ WriterStep(w) \/ Kill(w)
    PROVE  Drained'
<1> USE DEF TypeOK
<1>1. CASE pc[w] \in Inside
  <2>1. rpc' = rpc
    BY DEF Start, WriterStep, CheckReadOnly, TakeLock, OpenProducts, FlushProducts,
       OpenOrders, FlushOrders, Open, Flush, WriteJournal, RenameProductsGuarded,
       RenameProductsRaw, RenameOrders, RemoveJournal, Kill
  <2> QED BY <1>1, <2>1 DEF SafeInv, Alone, Drained, Recovering
<1>2. CASE pc[w] \notin Inside
  <2>1. UNCHANGED <<file, journal, rpc>>
    BY <1>2 DEF Start, WriterStep, CheckReadOnly, TakeLock, OpenProducts, FlushProducts,
       OpenOrders, FlushOrders, Open, Flush, WriteJournal, RenameProductsGuarded,
       RenameProductsRaw, RenameOrders, RemoveJournal, Kill, Inside
  <2> QED BY <2>1 DEF Drained, Recovering
<1> QED BY <1>1, <1>2

LEMMA RecoverDrained ==
    ASSUME TypeOK, SafeInv, Drained, NEW r \in Recoverer,
           RecoverStep(r) \/ KillRecover(r)
    PROVE  Drained'
<1> USE DEF TypeOK, Name, Drained, Recovering
<1>1. CASE StartRecover(r)
  BY <1>1 DEF StartRecover
<1>2. CASE RecoverProducts(r)
  <2>1. journal' = journal /\ rpc' = [rpc EXCEPT ![r] = "orders"] /\ rpc[r] = "products"
    BY <1>2 DEF RecoverProducts
  <2>2. file["pnew"] = None => file' = file
    BY <1>2 DEF RecoverProducts, RenameIfThere
  <2> QED BY <2>1, <2>2
<1>3. CASE RecoverOrders(r)
  <2>1. journal' = journal /\ rpc' = [rpc EXCEPT ![r] = "journal"] /\ rpc[r] = "orders"
    BY <1>3 DEF RecoverOrders
  <2>2. file["onew"] = None => file' = file
    BY <1>3 DEF RecoverOrders, RenameIfThere
  <2> QED BY <2>1, <2>2
<1>4. CASE RecoverJournal(r)
  BY <1>4 DEF RecoverJournal, SafeInv, Whole
<1>5. CASE KillRecover(r)
  BY <1>5 DEF KillRecover
<1> QED BY <1>1, <1>2, <1>3, <1>4, <1>5 DEF RecoverStep

LEMMA NextDrained == TypeOK /\ SafeInv /\ Drained /\ [Next]_vars => Drained'
<1> SUFFICES ASSUME TypeOK, SafeInv, Drained, [Next]_vars PROVE Drained'
  OBVIOUS
<1>1. CASE UNCHANGED vars
  BY <1>1 DEF vars, Drained, Recovering
<1>2. CASE SafeMode \/ \E name \in {"products", "orders"} : PlainSave(name)
  BY <1>2 DEF SafeMode, PlainSave, Drained, Recovering, TypeOK, Name
<1> QED BY <1>1, <1>2, WriterDrained, RecoverDrained DEF Next

\* The steps of a writer, seen through Visible.
LEMMA WriterMaps ==
    ASSUME TypeOK, SafeInv, NEW w \in Writer, Start(w) \/ WriterStep(w) \/ Kill(w)
    PROVE  Promise!Commit(w) \/ UNCHANGED Visible
<1> USE DEF TypeOK, Name
<1>1. CASE Start(w) \/ CheckReadOnly(w) \/ TakeLock(w) \/ Kill(w)
  BY <1>1 DEF Start, CheckReadOnly, TakeLock, Kill, Visible, Recovered
<1>2. CASE OpenProducts(w) \/ FlushProducts(w) \/ OpenOrders(w) \/ FlushOrders(w)
  <2>1. Contents(w) /\ pc[w] \in Inside \ Renaming /\ journal' = journal
    BY <1>2 DEF SafeInv, OpenProducts, FlushProducts, OpenOrders, FlushOrders, Open,
       Flush, Inside, Renaming
  <2>2. ~journal
    BY <2>1 DEF SafeInv, Alone
  <2>3. file'["products"] = file["products"] /\ file'["orders"] = file["orders"]
    BY <1>2, <2>1 DEF OpenProducts, FlushProducts, OpenOrders, FlushOrders, Open, Flush,
       Contents
  <2> QED BY <2>1, <2>2, <2>3, VisibleQuiet
<1>3. CASE WriteJournal(w)
  <2>1. file["pnew"] = w /\ file["onew"] = w /\ file' = file /\ journal' /\ w # None
    BY <1>3, NamesDiffer DEF WriteJournal, SafeInv, Contents
  <2>2. Visible' = [products |-> w, orders |-> w]
    BY <2>1 DEF Visible, Recovered
  <2> QED BY <2>2 DEF Promise!Commit
<1>4. CASE RenameProductsGuarded(w) \/ RenameProductsRaw(w)
  <2>1. pc[w] = "renameP" /\ journal' = journal
    BY <1>4 DEF RenameProductsGuarded, RenameProductsRaw
  <2>2. journal
    BY <2>1 DEF SafeInv, Alone, Inside, Renaming
  <2>3. file["pnew"] = w
    BY <2>1 DEF SafeInv, Contents
  <2>4. file["pnew"] # None
    BY <2>3, NamesDiffer
  <2>5. file' = [file EXCEPT !["products"] = file["pnew"], !["pnew"] = None]
    BY <1>4, <2>4, ReplaceFacts DEF RenameProductsGuarded, RenameProductsRaw
  <2> QED BY <2>1, <2>2, <2>4, <2>5, VisibleReplace
<1>5. CASE RenameOrders(w)
  <2>1. pc[w] = "renameO" /\ journal' = journal
    BY <1>5 DEF RenameOrders
  <2>2. journal
    BY <2>1 DEF SafeInv, Alone, Inside, Renaming
  <2>3. file["onew"] = w
    BY <2>1 DEF SafeInv, Contents
  <2>4. file["onew"] # None
    BY <2>3, NamesDiffer
  <2>5. file' = [file EXCEPT !["orders"] = file["onew"], !["onew"] = None]
    BY <1>5, <2>4, ReplaceFacts DEF RenameOrders
  <2> QED BY <2>1, <2>2, <2>4, <2>5, VisibleReplace
<1>6. CASE RemoveJournal(w)
  <2>1. file["pnew"] = None /\ file["onew"] = None /\ file' = file
    BY <1>6 DEF RemoveJournal, SafeInv, Contents
  <2> QED BY <2>1 DEF Visible, Recovered
<1> QED BY <1>1, <1>2, <1>3, <1>4, <1>5, <1>6 DEF WriterStep

LEMMA RecoverMaps ==
    ASSUME TypeOK, SafeInv, Drained, NEW r \in Recoverer,
           RecoverStep(r) \/ KillRecover(r)
    PROVE  UNCHANGED Visible
<1> USE DEF TypeOK, Name
<1>1. CASE StartRecover(r) \/ KillRecover(r)
  BY <1>1 DEF StartRecover, KillRecover, Visible, Recovered
<1>2. CASE RecoverProducts(r)
  <2>1. journal' = journal /\ Recovering(r)
    BY <1>2 DEF RecoverProducts, Recovering
  <2>2. CASE file["pnew"] = None
    BY <1>2, <2>1, <2>2 DEF RecoverProducts, RenameIfThere, Visible, Recovered
  <2>3. CASE file["pnew"] # None
    <3>1. journal
      BY <2>1, <2>3 DEF Drained
    <3>2. file' = [file EXCEPT !["products"] = file["pnew"], !["pnew"] = None]
      BY <1>2, <2>3, ReplaceFacts DEF RecoverProducts
    <3> QED BY <2>1, <2>3, <3>1, <3>2, VisibleReplace
  <2> QED BY <2>2, <2>3
<1>3. CASE RecoverOrders(r)
  <2>1. journal' = journal /\ Recovering(r)
    BY <1>3 DEF RecoverOrders, Recovering
  <2>2. CASE file["onew"] = None
    BY <1>3, <2>1, <2>2 DEF RecoverOrders, RenameIfThere, Visible, Recovered
  <2>3. CASE file["onew"] # None
    <3>1. journal
      BY <2>1, <2>3 DEF Drained
    <3>2. file' = [file EXCEPT !["orders"] = file["onew"], !["onew"] = None]
      BY <1>3, <2>3, ReplaceFacts DEF RecoverOrders
    <3> QED BY <2>1, <2>3, <3>1, <3>2, VisibleReplace
  <2> QED BY <2>2, <2>3
<1>4. CASE RecoverJournal(r)
  BY <1>4 DEF RecoverJournal, SafeInv, Whole, Visible, Recovered
<1> QED BY <1>1, <1>2, <1>3, <1>4 DEF RecoverStep

\* Under the discipline, and with no save of one file alone, products.csv and
\* orders.csv change together: DatasetTxn implements AtomicDataset.
THEOREM WritesAreAtomic ==
    ASSUME Disciplined, MaxSaves = 0
    PROVE  Spec => AllOrNothing
<1>1. Init => Promise!Init
  BY DEF Init, Promise!Init, Visible, Recovered, Name
<1>2. TypeOK /\ SafeInv /\ [Next]_vars => SafeInv'
  BY NextSafe
<1>3. TypeOK /\ SafeInv /\ Drained /\ [Next]_vars => [Promise!Next]_Visible
  <2> SUFFICES ASSUME TypeOK, SafeInv, Drained, [Next]_vars
               PROVE  Promise!Next \/ UNCHANGED Visible
    OBVIOUS
  <2>1. CASE UNCHANGED vars \/ SafeMode
    BY <2>1 DEF vars, SafeMode, Visible, Recovered
  <2>2. ASSUME NEW name \in {"products", "orders"}, PlainSave(name) PROVE FALSE
    BY <2>2 DEF PlainSave, TypeOK
  <2> QED BY <2>1, <2>2, WriterMaps, RecoverMaps DEF Next, Promise!Next
<1> QED BY <1>1, <1>2, <1>3, InitSafe, InitDrained, NextDrained, TypeCorrect, PTL
        DEF Spec, AllOrNothing, Promise!Spec
=============================================================================
