--------------------------- MODULE CommandsProofs ---------------------------
(* Proofs about module Commands.  The types hold whatever the constants;    *)
(* the other theorems are about commands of which none is killed, or fails, *)
(* between its two saves, and whose pending journals are recovered first.   *)
EXTENDS Commands, TLAPS

LEMMA KindsType ==
    /\ InMemory \subseteq Command /\ OneFile \subseteq Command
    /\ TwoFiles \subseteq Command /\ Atomic \subseteq Command
    /\ Guarded \subseteq Command
BY DEF InMemory, OneFile, TwoFiles, Atomic, Guarded, Command

LEMMA DataType ==
    ASSUME NEW p \in Catalog, NEW o \in Orders
    PROVE  /\ Data(p, o) \in Dataset
           /\ Data(p, o).products = p /\ Data(p, o).orders = o
BY DEF Data, Dataset

LEMMA NothingType == Nothing \in Catalog /\ {} \in Orders /\ Data(Nothing, {}) \in Dataset
BY DEF Nothing, Catalog, Orders, Data, Dataset

LEMMA DatasetData ==
    ASSUME NEW d \in Dataset
    PROVE  d.products \in Catalog /\ d.orders \in Orders /\ d = Data(d.products, d.orders)
BY DEF Data, Dataset

\* What a result looks like: Done with a dataset, or an early exit.
Results == {Done(d.products, d.orders) : d \in Dataset}
           \cup {Early(code) : code \in {"error", "mismatch"}}

LEMMA DoneIsResult ==
    ASSUME NEW p \in Catalog, NEW o \in Orders
    PROVE  Done(p, o) \in Results
<1>1. Data(p, o) \in Dataset /\ Data(p, o).products = p /\ Data(p, o).orders = o
  BY DataType
<1> QED BY <1>1 DEF Results

LEMMA ResultType ==
    ASSUME NEW r \in Results
    PROVE  r.exit \in Code /\ r.data \in Dataset
<1>1. CASE \E d \in Dataset : r = Done(d.products, d.orders)
  <2>1. PICK d \in Dataset : r = Done(d.products, d.orders)
    BY <1>1
  <2>2. d.products \in Catalog /\ d.orders \in Orders
    BY DEF Dataset
  <2>3. r.exit = "ok" /\ r.data = Data(d.products, d.orders)
    BY <2>1 DEF Done
  <2> QED BY <2>2, <2>3, DataType DEF Code
<1>2. CASE \E code \in {"error", "mismatch"} : r = Early(code)
  <2>1. r.exit \in {"error", "mismatch"} /\ r.data = Data(Nothing, {})
    BY <1>2 DEF Early
  <2> QED BY <2>1, NothingType DEF Code
<1> QED BY <1>1, <1>2 DEF Results

LEMMA ErrorIsResult == Error \in Results
BY DEF Error, Results

\* Every command computes a catalog and orders, or exits early.
LEMMA OutcomeType ==
    ASSUME NEW k \in Command \ {"txn recover"}, NEW p \in Catalog, NEW o \in Orders
    PROVE  Outcome(k, p, o) \subseteq Results
<1>1. \A q \in Catalog, t \in Orders : Done(q, t) \in Results
  BY DoneIsResult
<1>2. \A d \in WellFormed : d.products \in Catalog /\ d.orders \in Orders
  BY DEF WellFormed, Dataset
<1>3. \A i \in Id, c \in Price \cup {Absent} : [p EXCEPT ![i] = c] \in Catalog
  BY DEF Catalog
<1>4. \A q \in Catalog : Extended(q) \subseteq Catalog /\ Repriced(q) \subseteq Catalog
  BY DEF Extended, Repriced
<1>5. Error \in Results /\ Early("mismatch") \in Results
  BY ErrorIsResult DEF Results
<1>6. CASE k \in OneFile
  <2>1. Compact(p, o) \subseteq Results /\ DedupeProducts(p, o) \subseteq Results
        /\ RenameProducts(p, o) \subseteq Results /\ ScrubUtf8(p, o) \subseteq Results
        /\ Normalize(p, o) \subseteq Results
    BY <1>1 DEF Compact, DedupeProducts, RenameProducts, ScrubUtf8, Normalize
  <2>2. TransformProducts(p, o) \subseteq Results /\ Fuzz(p, o) \subseteq Results
    BY <1>1, <1>4 DEF TransformProducts, Fuzz
  <2>3. SetPriceCas(p, o) \subseteq Results
    <3>1. \A x \in Listed(p) \X Price : Done([p EXCEPT ![x[1]] = x[2]], o) \in Results
      <4> SUFFICES ASSUME NEW x \in Listed(p) \X Price
                   PROVE  Done([p EXCEPT ![x[1]] = x[2]], o) \in Results
        OBVIOUS
      <4>1. [p EXCEPT ![x[1]] = x[2]] \in Catalog
        BY <1>3 DEF Listed
      <4> QED BY <1>1, <4>1
    <3> QED BY <1>5, <3>1 DEF SetPriceCas
  <2>4. BatchApply(p, o) \subseteq Results /\ ImportProducts(p, o) \subseteq Results
        /\ PatchApply(p, o) \subseteq Results
    BY <1>1, <1>4, <1>5 DEF BatchApply, ImportProducts, PatchApply
  <2> QED BY <1>6, <2>1, <2>2, <2>3, <2>4 DEF Outcome, OneFile
<1>7. CASE k \in TwoFiles
  <2>1. Save(p, o) \subseteq Results /\ RepairIntegrity(p, o) \subseteq Results
    BY <1>1 DEF Save, RepairIntegrity
  <2>2. Migrate(p, o) \subseteq Results /\ GenerateDemo(p, o) \subseteq Results
    BY <1>1, <1>2 DEF Migrate, GenerateDemo
  <2>3. Sanitize(k, p, o) \subseteq Results
    BY <1>1, <1>5 DEF Sanitize
  <2>4. RemoveProduct(p, o) \subseteq Results
    <3>1. \A i \in Id : {x \in o : x[2] # i} \in Orders
      BY DEF Orders
    <3> QED BY <1>1, <1>3, <1>5, <3>1 DEF RemoveProduct, Listed
  <2> QED BY <1>7, <2>1, <2>2, <2>3, <2>4 DEF Outcome, TwoFiles
<1>8. CASE k \in Atomic
  <2>1. Canonicalize(p, o) \subseteq Results /\ DedupeOrders(p, o) \subseteq Results
    BY <1>1 DEF Canonicalize, DedupeOrders
  <2>2. PolicyEnforce(p, o) \subseteq Results
    BY <1>1, <1>4 DEF PolicyEnforce
  <2>3. Merge(p, o) \subseteq Results
    <3>1. \A d \in WellFormed : o \cup d.orders \in Orders
      BY <1>2 DEF Orders
    <3>2. \A x \in Catalog \X WellFormed : Done(x[1], o \cup x[2].orders) \in Results
      BY <1>1, <3>1
    <3> QED BY <3>2 DEF Merge
  <2>4. Push(p, o) \subseteq Results
    BY <1>1, <1>2 DEF Push, Migrate
  <2> QED BY <1>8, <2>1, <2>2, <2>3, <2>4 DEF Outcome, Atomic
<1>9. CASE k \in InMemory
  <2>1. AddProduct(p, o) \subseteq Results
    <3>1. \A x \in Id \X Price : Done([p EXCEPT ![x[1]] = x[2]], o) \in Results
      <4> SUFFICES ASSUME NEW x \in Id \X Price
                   PROVE  Done([p EXCEPT ![x[1]] = x[2]], o) \in Results
        OBVIOUS
      <4>1. [p EXCEPT ![x[1]] = x[2]] \in Catalog
        BY <1>3
      <4> QED BY <1>1, <4>1
    <3> QED BY <1>5, <3>1 DEF AddProduct
  <2>2. Seed(p, o) \subseteq Results
    BY <1>1, <1>4 DEF Seed
  <2>3. Restock(p, o) \subseteq Results /\ Sell(p, o) \subseteq Results
    BY <1>1, <1>5 DEF Restock, Sell
  <2> QED BY <1>9, <2>1, <2>2, <2>3 DEF Outcome, InMemory
<1> QED BY <1>6, <1>7, <1>8, <1>9 DEF Command

-----------------------------------------------------------------------------
\* What the end of a command sets, when the files are of their types.
LEMMA EndType ==
    ASSUME NEW code \in Code, End(code), products' \in Catalog, orders' \in Orders
    PROVE  /\ pc' = "idle" /\ exit' \in Code /\ kind' = "none"
           /\ dry' \in BOOLEAN /\ dryenv' \in BOOLEAN /\ named' \in BOOLEAN
           /\ audited' = FALSE
           /\ mem' \in Dataset /\ before' \in Dataset /\ before' = Before'
<1>1. mem' \in Dataset
  BY NothingType DEF End
<1>2. before' \in Dataset /\ before' = Before'
  BY DataType DEF End, Before
<1> QED BY <1>1, <1>2 DEF End

\* A command that ends leaves the part of CInv about it true.
LEMMA EndInv ==
    ASSUME NEW code \in Code, End(code), CInv,
           products' \in Catalog, orders' \in Orders,
           pnew' = None \/ pnew' \in Catalog, onew' = None \/ onew' \in Orders,
           journal' \in BOOLEAN, wlock' \in BOOLEAN, pushed' \in BOOLEAN,
           worm' \in BOOLEAN
    PROVE  CInv'
<1>1. /\ pc' = "idle" /\ exit' \in Code /\ kind' = "none"
      /\ dry' \in BOOLEAN /\ dryenv' \in BOOLEAN /\ named' \in BOOLEAN /\ audited' = FALSE
      /\ mem' \in Dataset /\ before' \in Dataset /\ before' = Before'
  BY EndType
<1>2. TypeOK'
  BY <1>1 DEF TypeOK, Place
<1>3. WormInv' /\ BeforeInv' /\ KindInv'
  BY <1>1 DEF WormInv, BeforeInv, KindInv
<1> QED BY <1>2, <1>3 DEF CInv

LEMMA InitInv == Init => CInv
<1> SUFFICES ASSUME Init PROVE CInv
  OBVIOUS
<1>1. products \in Catalog /\ orders \in Orders
  BY DEF Init, WellFormed, Dataset
<1>2. mem \in Dataset /\ before \in Dataset /\ before = Before
  BY <1>1, NothingType, DataType DEF Init, Before
<1>3. TypeOK
  BY <1>1, <1>2 DEF Init, TypeOK, Place, Code
<1> QED BY <1>2, <1>3 DEF Init, CInv, WormInv, BeforeInv, KindInv

\* The types after a step within a command, or of WORM.
LEMMA TypeKept ==
    ASSUME TypeOK, UNCHANGED <<disk, txn, command, exit, before>>,
           worm' \in BOOLEAN, mem' \in Dataset, pc' \in Place, audited' \in BOOLEAN
    PROVE  TypeOK'
<1>1. /\ products' \in Catalog /\ orders' \in Orders
      /\ (pnew' = None \/ pnew' \in Catalog) /\ (onew' = None \/ onew' \in Orders)
  BY DEF disk, txn, TypeOK
<1>2. journal' \in BOOLEAN /\ wlock' \in BOOLEAN /\ pushed' \in BOOLEAN
  BY DEF txn, TypeOK
<1>3. /\ named' \in BOOLEAN /\ dry' \in BOOLEAN /\ dryenv' \in BOOLEAN
      /\ kind' \in Command \cup {"none"}
  BY DEF command, TypeOK
<1>4. before' \in Dataset /\ exit' \in Code
  BY DEF TypeOK
<1> QED BY <1>1, <1>2, <1>3, <1>4 DEF TypeOK

\* CInv is kept by every step.
LEMMA StepInv == CInv /\ [Next]_vars => CInv'
<1> SUFFICES ASSUME CInv, [Next]_vars PROVE CInv'
  OBVIOUS
<1> USE DEF CInv
<1>t. /\ "ok" \in Code /\ "failed" \in Code /\ "error" \in Code /\ "readonly" \in Code
      /\ "cas" \in Code /\ "worm" \in Code /\ "killed" \in Code
  BY DEF Code
<1>0. CASE UNCHANGED vars
  <2>1. TypeOK'
    BY <1>0 DEF vars, disk, txn, command, TypeOK
  <2>2. WormInv' /\ KindInv'
    BY <1>0 DEF vars, txn, command, WormInv, KindInv
  <2>3. BeforeInv'
    BY <1>0 DEF vars, disk, command, BeforeInv, Before
  <2> QED BY <2>1, <2>2, <2>3
<1>1. ASSUME NEW k \in Kinds, Start(k) PROVE CInv'
  <2>1. k \in Command
    BY CommandsAssumption
  <2> QED BY <1>1, <1>t, <2>1
          DEF Start, disk, txn, TypeOK, Place, WormInv, BeforeInv, KindInv, Before
<1>2. CASE Dispatch
  <2>1. CASE End("worm")
    BY <1>2, <1>t, <2>1, EndInv DEF Dispatch, disk, txn, TypeOK
  <2>2. CASE (named => ~worm) /\ Goto("guard") /\ UNCHANGED <<mem, audited>>
    <3>1. TypeOK'
      BY <1>2, <2>2 DEF Dispatch, Goto, disk, txn, command, TypeOK, Place
    <3>2. WormInv' /\ BeforeInv'
      BY <1>2, <2>2 DEF Dispatch, Goto, disk, command, WormInv, BeforeInv, Before
    <3>3. KindInv'
      BY <1>2, <2>2 DEF Dispatch, Goto, txn, command, KindInv
    <3> QED BY <3>1, <3>2, <3>3
  <2> QED BY <1>2, <2>1, <2>2 DEF Dispatch
<1>3. CASE Refuse
  <2>1. PICK code \in {"readonly", "cas"} : End(code)
    BY <1>3 DEF Refuse
  <2> QED BY <1>3, <1>t, <2>1, EndInv DEF Refuse, disk, txn, TypeOK
<1>4. CASE Load
  <2>1. mem' \in Dataset
    BY <1>4, DataType, NothingType DEF Load, TypeOK
  <2>2. /\ pc = "guard" /\ kind # "txn recover" /\ pc' = "edit"
        /\ UNCHANGED <<disk, txn, worm, command, exit, audited, before>>
    BY <1>4 DEF Load, Goto
  <2>3. TypeOK'
    <3>1. pc' \in Place /\ worm' \in BOOLEAN /\ audited' \in BOOLEAN
      BY <2>2 DEF TypeOK, Place
    <3> QED BY <2>1, <2>2, <3>1, TypeKept
  <2>4. BeforeInv' /\ WormInv'
    BY <2>2 DEF BeforeInv, Before, WormInv, disk, command
  <2>5. KindInv'
    BY <2>2 DEF KindInv, command, txn
  <2> QED BY <2>3, <2>4, <2>5
<1>5. CASE Edit
  <2>1. mem.products \in Catalog /\ mem.orders \in Orders
    BY DatasetData DEF TypeOK
  <2>2. PICK r \in Outcome(kind, mem.products, mem.orders) :
            IF r.exit # "ok" \/ (dry /\ kind \in HonorsDryRun)
            THEN End(r.exit)
            ELSE mem' = r.data /\ Goto(FirstStep(kind)) /\ UNCHANGED audited
    BY <1>5 DEF Edit
  <2>3. pc = "edit" /\ kind \in Command \ {"txn recover"}
    BY <1>5 DEF Edit, KindInv
  <2>4. r.exit \in Code /\ r.data \in Dataset
    BY <2>1, <2>2, <2>3, OutcomeType, ResultType
  <2>5. CASE r.exit # "ok" \/ (dry /\ kind \in HonorsDryRun)
    BY <1>5, <2>2, <2>4, <2>5, EndInv DEF Edit, disk, txn, TypeOK
  <2>6. CASE ~(r.exit # "ok" \/ (dry /\ kind \in HonorsDryRun))
    <3>1. /\ pc' = FirstStep(kind) /\ mem' = r.data
          /\ UNCHANGED <<disk, txn, worm, command, exit, before, audited>>
      BY <1>5, <2>2, <2>6 DEF Edit, Goto
    <3>2. \/ kind \in OneFile \cup TwoFiles /\ pc' = "saveProducts"
          \/ kind \in Atomic /\ pc' = "prepare"
          \/ kind \in InMemory /\ pc' = "audit"
      BY <2>3, <3>1 DEF FirstStep, Command, OneFile, TwoFiles, Atomic, InMemory
    <3>3. TypeOK'
      BY <2>4, <3>1, <3>2 DEF disk, txn, command, TypeOK, Place
    <3>4. kind \in InMemory => kind \notin TwoFiles
      BY DEF InMemory, TwoFiles
    <3>5. WormInv' /\ BeforeInv' /\ KindInv'
      BY <2>3, <3>1, <3>2, <3>4 DEF disk, txn, command, WormInv, BeforeInv, KindInv, Before
    <3> QED BY <3>3, <3>5
  <2> QED BY <2>5, <2>6
<1>6. CASE SaveProducts
  <2>1. products' \in Catalog
    BY <1>6, DatasetData DEF SaveProducts, TypeOK
  <2>2. kind \in OneFile \cup TwoFiles /\ before = Before
    BY <1>6 DEF SaveProducts, KindInv, BeforeInv
  <2>3. CASE kind \in OneFile
    BY <1>6, <1>t, <2>1, <2>3, EndInv DEF SaveProducts, txn, TypeOK
  <2>4. CASE kind \notin OneFile
    <3>1. /\ pc' = "saveOrders" /\ products' = IF dryenv THEN products ELSE mem.products
          /\ UNCHANGED <<orders, txn, worm, command, exit, before, mem, audited>>
          /\ pc = "saveProducts"
      BY <1>6, <2>4 DEF SaveProducts, Goto
    <3>2. before.orders = orders /\ before.products = products
      BY <2>2, DataType DEF Before, TypeOK
    <3>3. TypeOK'
      BY <2>1, <3>1 DEF txn, command, TypeOK, Place
    <3>4. WormInv' /\ BeforeInv'
      BY <3>1, <3>2 DEF command, WormInv, BeforeInv
    <3>5. KindInv'
      BY <2>2, <2>4, <3>1 DEF txn, command, KindInv
    <3> QED BY <3>3, <3>4, <3>5
  <2> QED BY <2>3, <2>4
<1>7. CASE SaveOrders
  <2>1. orders' \in Orders
    BY <1>7, DatasetData DEF SaveOrders, TypeOK
  <2>2. CASE kind \notin Audited
    BY <1>7, <1>t, <2>1, <2>2, EndInv DEF SaveOrders, txn, TypeOK
  <2>3. CASE kind \in Audited
    <3>1. /\ pc' = "audit" /\ pc = "saveOrders"
          /\ orders' = IF dryenv THEN orders ELSE mem.orders
          /\ UNCHANGED <<products, txn, worm, command, exit, before, mem, audited>>
      BY <1>7, <2>3 DEF SaveOrders, Goto
    <3>2. ~dryenv => mem = Before'
      <4>1. ~dryenv => products = mem.products
        BY <3>1 DEF BeforeInv
      <4> QED BY <3>1, <4>1, DatasetData DEF Before, TypeOK
    <3>3. TypeOK'
      BY <2>1, <3>1 DEF txn, command, TypeOK, Place
    <3>4. WormInv' /\ BeforeInv'
      BY <3>1, <3>2 DEF command, WormInv, BeforeInv
    <3>5. KindInv'
      <4>1. kind \in TwoFiles /\ kind \in Command \ {"txn recover"}
        BY <3>1 DEF KindInv, TwoFiles, Command
      <4> QED BY <3>1, <4>1 DEF txn, command, KindInv
    <3> QED BY <3>3, <3>4, <3>5
  <2> QED BY <2>2, <2>3
<1>8. CASE SaveFails
  BY <1>8, <1>t, EndInv DEF SaveFails, disk, txn, TypeOK
<1>9. CASE Audit
  <2>1. TypeOK'
    BY <1>9 DEF Audit, Goto, disk, txn, command, TypeOK, Place
  <2>2. WormInv' /\ BeforeInv'
    BY <1>9 DEF Audit, Goto, disk, txn, command, WormInv, BeforeInv, Before
  <2>3. KindInv'
    BY <1>9 DEF Audit, Goto, disk, txn, command, KindInv
  <2> QED BY <2>1, <2>2, <2>3
<1>10. CASE Exit \/ WriteRefused \/ Kill
  BY <1>10, <1>t, EndInv DEF Exit, WriteRefused, Kill, disk, txn, TypeOK
<1>11. CASE TakeWriteLock
  <2>1. TypeOK'
    BY <1>11 DEF TakeWriteLock, Goto, disk, command, TypeOK, Place
  <2>2. WormInv' /\ BeforeInv'
    BY <1>11 DEF TakeWriteLock, Goto, disk, command, WormInv, BeforeInv, Before
  <2>3. KindInv'
    BY <1>11 DEF TakeWriteLock, Goto, command, KindInv
  <2> QED BY <2>1, <2>2, <2>3
<1>12. CASE Prepare
  <2>1. mem.products \in Catalog /\ mem.orders \in Orders
    BY DatasetData DEF TypeOK
  <2>2. TypeOK'
    BY <1>12, <2>1 DEF Prepare, Goto, disk, command, TypeOK, Place
  <2>3. WormInv' /\ BeforeInv'
    BY <1>12 DEF Prepare, Goto, disk, command, WormInv, BeforeInv, Before
  <2>4. KindInv'
    BY <1>12 DEF Prepare, Goto, command, KindInv
  <2> QED BY <2>2, <2>3, <2>4
<1>13. CASE Rename
  <2>1. pnew \in Catalog
    BY <1>13, DatasetData DEF Rename, KindInv, TypeOK
  <2> QED BY <1>13, <1>t, <2>1, EndInv DEF Rename, TypeOK
<1>14. CASE Recover
  <2>1. CASE ~journal
    BY <1>14, <1>t, <2>1, EndInv DEF Recover, disk, txn, TypeOK
  <2>2. CASE journal
    <3>1. /\ pc = "guard" /\ kind = "txn recover" /\ pc' = "recoverProducts"
          /\ UNCHANGED <<disk, txn, worm, command, exit, before, mem, audited>>
      BY <1>14, <2>2 DEF Recover, Goto
    <3>2. TypeOK'
      <4>1. /\ pc' \in Place /\ worm' \in BOOLEAN /\ audited' \in BOOLEAN
            /\ mem' \in Dataset
        BY <3>1 DEF TypeOK, Place
      <4> QED BY <3>1, <4>1, TypeKept
    <3>3. WormInv' /\ BeforeInv'
      BY <3>1 DEF disk, command, WormInv, BeforeInv, Before
    <3>4. KindInv'
      BY <2>2, <3>1 DEF txn, command, KindInv
    <3> QED BY <3>2, <3>3, <3>4
  <2> QED BY <2>1, <2>2 DEF TypeOK
<1>15. CASE RecoverProducts
  <2>1. TypeOK'
    BY <1>15 DEF RecoverProducts, Goto, command, TypeOK, Place
  <2>2. WormInv' /\ BeforeInv'
    BY <1>15 DEF RecoverProducts, Goto, command, WormInv, BeforeInv, Before
  <2>3. KindInv'
    BY <1>15 DEF RecoverProducts, Goto, command, KindInv
  <2> QED BY <2>1, <2>2, <2>3
<1>16. CASE RecoverOrders
  <2>1. TypeOK'
    BY <1>16 DEF RecoverOrders, Goto, command, TypeOK, Place
  <2>2. WormInv' /\ BeforeInv'
    BY <1>16 DEF RecoverOrders, Goto, command, WormInv, BeforeInv, Before
  <2>3. KindInv'
    BY <1>16 DEF RecoverOrders, Goto, command, KindInv
  <2> QED BY <2>1, <2>2, <2>3
<1>17. CASE RecoverJournal
  BY <1>17, <1>t, EndInv DEF RecoverJournal, disk, TypeOK
<1>18. CASE Worm
  <2>1. /\ UNCHANGED <<disk, txn, command, mem, pc, exit, audited, before>>
        /\ worm' = FALSE \/ (worm' = TRUE /\ pc = "idle")
    BY <1>18 DEF Worm, WormEnable, WormEnds
  <2>2. TypeOK'
    <3>1. /\ pc' \in Place /\ worm' \in BOOLEAN /\ audited' \in BOOLEAN
          /\ mem' \in Dataset
      BY <2>1 DEF TypeOK
    <3> QED BY <2>1, <3>1, TypeKept
  <2>3. WormInv' /\ KindInv'
    BY <2>1 DEF txn, command, WormInv, KindInv
  <2>4. BeforeInv'
    BY <2>1 DEF disk, command, BeforeInv, Before
  <2> QED BY <2>2, <2>3, <2>4
<1> QED BY <1>0, <1>1, <1>2, <1>3, <1>4, <1>5, <1>6, <1>7, <1>8, <1>9, <1>10, <1>11,
           <1>12, <1>13, <1>14, <1>15, <1>16, <1>17, <1>18 DEF Next, Step

\* The inductive invariant, for every value of the constants.
THEOREM Invariance == Spec => []CInv
BY InitInv, StepInv, PTL DEF Spec

\* The variables keep their types, whatever the commands, the faults and the
\* order in which the commands are run.
THEOREM TypeCorrect == Spec => []TypeOK
<1>1. CInv => TypeOK
  BY DEF CInv
<1> QED BY <1>1, Invariance, PTL

\* An entry of the audit log stands for a dataset that is in place, for any
\* number of ids and orders, also when commands may be killed between two saves.
THEOREM AuditedIsSavedHolds == Spec => []AuditedIsSaved
<1>1. CInv => AuditedIsSaved
  BY DEF CInv, BeforeInv, AuditedIsSaved, Before
<1> QED BY <1>1, Invariance, PTL

\* While WORM is active no step of a command whose guard looks at the dataset changes
\* it or its .new files: each is turned away before it has loaded anything.
THEOREM WormFreezesHolds == Spec => WormFreezes
<1>1. CInv /\ [Next]_vars => [worm /\ named => UNCHANGED <<disk, txn>>]_vars
  <2> SUFFICES ASSUME CInv, Next, worm, named PROVE UNCHANGED <<disk, txn>>
    BY DEF vars
  <2>1. pc \in {"idle", "dispatch"}
    BY DEF CInv, WormInv
  <2>2. CASE pc = "idle"
    BY <2>2 DEF Next, Step, Start, Worm, Kill, Dispatch, Refuse, Load, Edit, SaveProducts,
                SaveOrders, SaveFails, Audit, Exit, WriteRefused, TakeWriteLock, Prepare,
                Rename, Recover, RecoverProducts, RecoverOrders, RecoverJournal
  <2>3. CASE pc = "dispatch"
    BY <2>3 DEF Next, Step, Start, Worm, Kill, Dispatch, Refuse, Load, Edit, SaveProducts,
                SaveOrders, SaveFails, Audit, Exit, WriteRefused, TakeWriteLock, Prepare,
                Rename, Recover, RecoverProducts, RecoverOrders, RecoverJournal
  <2> QED BY <2>1, <2>2, <2>3
<1> QED BY <1>1, Invariance, PTL DEF Spec, WormFreezes

\* A command that is refused or fails changes nothing, unless it fails between
\* its two saves.
THEOREM FailureChangesNothingHolds ==
    ASSUME GapFaults = FALSE
    PROVE  Spec => FailureChangesNothing
<1>1. CInv /\ [Next]_vars =>
        [Ending /\ exit' \notin {"ok", "killed", "failed"} => before = Data(products', orders')]_vars
  <2> SUFFICES ASSUME CInv, Next, Ending, exit' \notin {"ok", "killed", "failed"}
               PROVE  before = Data(products', orders')
    BY DEF vars
  <2>1. UNCHANGED disk /\ pc \in {"dispatch", "guard", "edit", "saveProducts"}
    <3>1. CASE \E k \in Kinds : Start(k)
      BY <3>1 DEF Start, Ending
    <3>2. CASE Kill \/ Worm
      BY <3>2 DEF Kill, End, Worm, Ending
    <3>3. CASE Dispatch \/ Refuse \/ Edit
      BY <3>3 DEF Dispatch, Refuse, Edit
    <3>4. CASE SaveFails
      BY <3>4 DEF SaveFails
    <3>5. CASE Load \/ Audit \/ TakeWriteLock \/ Prepare \/ RecoverProducts \/ RecoverOrders
      BY <3>5 DEF Load, Audit, TakeWriteLock, Prepare, RecoverProducts, RecoverOrders, Goto, Ending
    <3>6. CASE SaveProducts \/ SaveOrders \/ Exit
      BY <3>6 DEF SaveProducts, SaveOrders, Exit, Goto, End, Ending
    <3>7. CASE WriteRefused \/ Rename \/ Recover \/ RecoverJournal
      BY <3>7 DEF WriteRefused, Rename, Recover, RecoverJournal, Goto, End, Ending
    <3> QED BY <3>1, <3>2, <3>3, <3>4, <3>5, <3>6, <3>7 DEF Next, Step
  <2>2. before = Data(products, orders)
    BY <2>1 DEF CInv, BeforeInv, Before
  <2> QED BY <2>1, <2>2 DEF disk
<1> QED BY <1>1, Invariance, PTL DEF Spec, FailureChangesNothing

-----------------------------------------------------------------------------
(* References.                                                              *)

\* A catalog that grows, and orders whose items are old or covered, stay sound.
LEMMA SoundKept ==
    ASSUME NEW p, NEW o, NEW q, NEW t, Sound(p, o), Grown(p, q), Covered(t, o, q)
    PROVE  Sound(q, t)
BY DEF Sound, Grown, Covered

LEMMA GrownSelf == \A p, o : Grown(p, p) /\ Covered(o, o, p)
BY DEF Grown, Covered

LEMMA DoneData ==
    /\ \A q, t : /\ Done(q, t).data.products = q
               /\ Done(q, t).data.orders = t
    /\ Error.exit # "ok" /\ Early("mismatch").exit # "ok"
BY DEF Done, Data, Error, Early

\* Commands that save products.csv alone add products and drop none.
LEMMA OneFileGrows ==
    ASSUME NEW k \in OneFile \ Breaking, NEW p \in Catalog, NEW o \in Orders,
           NEW r \in Outcome(k, p, o), r.exit = "ok"
    PROVE  Grown(p, r.data.products)
<1>1. \A q \in Extended(p) \cup Repriced(p) \cup {p} : Grown(p, q)
  BY DEF Extended, Repriced, Grown
<1>2. CASE k \in {"compact", "dedupe products", "rename-products", "utf8 scrub", "normalize"}
  <2>1. r = Done(p, o)
    BY <1>2 DEF Outcome, Compact, DedupeProducts, RenameProducts, ScrubUtf8, Normalize
  <2> QED BY <1>1, <2>1, DoneData
<1>3. CASE k \in {"transform-products", "fuzz run"}
  <2>1. PICK q \in Repriced(p) : r = Done(q, o)
    BY <1>3 DEF Outcome, TransformProducts, Fuzz
  <2> QED BY <1>1, <2>1, DoneData
<1>4. CASE k = "set-price-cas"
  <2>1. PICK x \in Listed(p) \X Price : r = Done([p EXCEPT ![x[1]] = x[2]], o)
    BY <1>4, DoneData DEF Outcome, SetPriceCas
  <2>2. Grown(p, [p EXCEPT ![x[1]] = x[2]])
    BY CommandsAssumption DEF Grown, Listed, Catalog
  <2> QED BY <2>1, <2>2, DoneData
<1>5. CASE k \in {"batch apply", "import products"}
  <2>1. r # Error
    BY DoneData
  <2>2. PICK q \in Extended(p) : r = Done(q, o)
    BY <1>5, <2>1 DEF Outcome, BatchApply, ImportProducts
  <2> QED BY <1>1, <2>2, DoneData
<1> QED BY <1>2, <1>3, <1>4, <1>5 DEF OneFile, Breaking

\* A command that renames no product that an order names keeps the references:
\* the others are free to change their ids.
LEMMA SanitizeSound ==
    ASSUME NEW k, NEW p \in Catalog, NEW o \in Orders, KeepsIds(k, o),
           NEW r \in Sanitize(k, p, o), r.exit = "ok", Sound(p, o)
    PROVE  Sound(r.data.products, r.data.orders)
<1>1. CASE dry
  BY <1>1, DoneData DEF Sanitize
<1>2. CASE ~dry
  <2>1. r # Error
    BY DoneData
  <2>2. PICK q \in Catalog : /\ Listed(q) = {Renamed(k, i) : i \in Listed(p)}
                            /\ r = Done(q, o)
    BY <1>2, <2>1 DEF Sanitize
  <2>3. \A x \in o : x[2] \in Listed(q)
    BY <2>2 DEF Sound, KeepsIds
  <2> QED BY <2>2, <2>3, DoneData DEF Sound
<1> QED BY <1>1, <1>2

\* Commands that save both files keep the references they found intact.
LEMMA TwoFilesSound ==
    ASSUME NEW k \in TwoFiles, NEW p \in Catalog, NEW o \in Orders, KeepsIds(k, o),
           NEW r \in Outcome(k, p, o), r.exit = "ok", Sound(p, o)
    PROVE  Sound(r.data.products, r.data.orders)
<1>1. CASE k \in {"save", "repair-integrity"}
  <2>1. r = Done(p, o)
    BY <1>1 DEF Outcome, Save, RepairIntegrity
  <2> QED BY <2>1, DoneData
<1>2. CASE k \in {"migrate", "generate demo"}
  <2>1. PICK d \in WellFormed : r = Done(d.products, d.orders)
    BY <1>2 DEF Outcome, Migrate, GenerateDemo
  <2> QED BY <2>1, DoneData DEF WellFormed
<1>3. CASE k = "remove-product"
  <2>1. PICK i \in Listed(p) : r = Done([p EXCEPT ![i] = Absent], {x \in o : x[2] # i})
    BY <1>3, DoneData DEF Outcome, RemoveProduct
  <2>2. \A x \in {y \in o : y[2] # i} : x[2] \in Listed([p EXCEPT ![i] = Absent])
    BY DEF Sound, Listed, Catalog
  <2>3. Sound([p EXCEPT ![i] = Absent], {x \in o : x[2] # i})
    BY <2>2 DEF Sound
  <2>4. /\ r.data.products = [p EXCEPT ![i] = Absent]
        /\ r.data.orders = {x \in o : x[2] # i}
    BY <2>1, DoneData, Zenon
  <2> QED BY <2>3, <2>4
<1>4. CASE k \in {"sanitize", "sanitize --upper-ids"}
  <2>1. r \in Sanitize(k, p, o)
    BY <1>4 DEF Outcome
  <2> QED BY <2>1, SanitizeSound
<1> QED BY <1>1, <1>2, <1>3, <1>4 DEF TwoFiles

\* A push brings a dataset whose references are intact.
LEMMA PushSound ==
    ASSUME NEW p \in Catalog, NEW o \in Orders, NEW r \in Outcome("replicate push", p, o)
    PROVE  Sound(r.data.products, r.data.orders)
<1>1. PICK d \in WellFormed : r = Done(d.products, d.orders)
  BY DEF Outcome, Push, Migrate
<1> QED BY <1>1, DoneData DEF WellFormed

\* The other commands that use the journal drop no product, and every item they
\* add names a product.
LEMMA AtomicKeeps ==
    ASSUME NEW k \in Atomic, k # "replicate push", NEW p \in Catalog, NEW o \in Orders,
           NEW r \in Outcome(k, p, o), r.exit = "ok"
    PROVE  Grown(p, r.data.products) /\ Covered(r.data.orders, o, r.data.products)
<1>1. CASE k \in {"csv canonicalize", "dedupe orders"}
  <2>1. r = Done(p, o)
    BY <1>1 DEF Outcome, Canonicalize, DedupeOrders
  <2>2. r.data.products = p /\ r.data.orders = o
    BY <2>1, DoneData, Zenon
  <2> QED BY <2>2, GrownSelf
<1>2. CASE k = "policy enforce"
  <2>1. PICK q \in Repriced(p) : r = Done(q, o)
    BY <1>2 DEF Outcome, PolicyEnforce
  <2>2. r.data.products = q /\ r.data.orders = o
    BY <2>1, DoneData, Zenon
  <2> QED BY <2>2 DEF Repriced, Grown, Covered
<1>3. CASE k = "merge"
  <2>1. PICK x \in {y \in Catalog \X WellFormed : y[1] \in Merged(p, y[2].products)} :
            r = Done(x[1], o \cup x[2].orders)
    BY <1>3 DEF Outcome, Merge
  <2>2. /\ x[1] \in Merged(p, x[2].products)
        /\ x[2].products \in Catalog /\ x[2].orders \in Orders
        /\ Sound(x[2].products, x[2].orders)
    BY DEF WellFormed, Dataset
  <2>3. Listed(p) \cup Listed(x[2].products) \subseteq Listed(x[1])
    BY <2>2 DEF Merged, Listed
  <2>4. r.data.products = x[1] /\ r.data.orders = o \cup x[2].orders
    BY <2>1 DEF Done, Data
  <2> QED BY <2>2, <2>3, <2>4 DEF Grown, Covered, Sound
<1> QED BY <1>1, <1>2, <1>3 DEF Atomic

\* A step that leaves the dataset, its .new files and the journal alone.
Quiet == UNCHANGED <<products, orders, pnew, onew, journal, pushed>>

LEMMA QuietSteps ==
    ASSUME (\E k \in Kinds : Start(k)) \/ Dispatch \/ Refuse \/ Load \/ Edit \/ SaveFails
           \/ Audit \/ Exit \/ WriteRefused \/ TakeWriteLock \/ Recover \/ Kill \/ Worm
    PROVE  Quiet
BY DEF Quiet, disk, txn, Start, Dispatch, Refuse, Load, Edit, SaveFails, Audit, Exit,
       WriteRefused, TakeWriteLock, Recover, Kill, Worm

LEMMA InitR == Init => RInv
<1> SUFFICES ASSUME Init PROVE RInv
  OBVIOUS
<1> QED BY DEF Init, RInv, MemInv, PendingInv, RecoverInv, DoneInv

\* The .new files beside a journal keep the references.
LEMMA StepPending == CInv /\ RInv /\ [Next]_vars => PendingInv'
<1> SUFFICES ASSUME CInv, RInv, [Next]_vars PROVE PendingInv'
  OBVIOUS
<1> USE DEF RInv
<1>1. CASE Quiet \/ UNCHANGED vars
  BY <1>1 DEF Quiet, vars, disk, txn, PendingInv
<1>2. CASE SaveProducts \/ SaveOrders
  <2>1. ~journal
    BY <1>2 DEF CInv, KindInv, RecoverInv, SaveProducts, SaveOrders, OneFile, TwoFiles
  <2> QED BY <1>2, <2>1 DEF SaveProducts, SaveOrders, txn, PendingInv
<1>3. CASE Prepare
  <2>1. IF kind = "replicate push"
        THEN Sound(mem.products, mem.orders)
        ELSE Grown(products, mem.products) /\ Covered(mem.orders, orders, mem.products)
    BY <1>3 DEF Prepare, MemInv
  <2>2. mem.products # None /\ mem.orders # None
    BY DatasetData, CommandsAssumption DEF CInv, TypeOK
  <2> QED BY <1>3, <2>1, <2>2 DEF Prepare, disk, PendingInv
<1>4. CASE Rename
  <2>1. pnew # None
    BY <1>4, DatasetData, CommandsAssumption DEF Rename, CInv, KindInv, TypeOK
  <2>2. journal
    BY <2>1 DEF PendingInv
  <2> QED BY <1>4, <2>1, <2>2 DEF Rename, PendingInv
<1>5. CASE RecoverProducts
  <2>1. journal
    BY <1>5 DEF RecoverProducts, CInv, KindInv
  <2> QED BY <1>5, <2>1 DEF RecoverProducts, PendingInv
<1>6. CASE RecoverOrders
  <2>1. journal /\ pnew = None
    BY <1>6 DEF RecoverOrders, CInv, KindInv, RecoverInv
  <2> QED BY <1>6, <2>1 DEF RecoverOrders, PendingInv
<1>7. CASE RecoverJournal
  <2>1. pnew = None /\ onew = None
    BY <1>7 DEF RecoverJournal, RecoverInv
  <2> QED BY <1>7, <2>1 DEF RecoverJournal, PendingInv
<1> QED BY <1>1, <1>2, <1>3, <1>4, <1>5, <1>6, <1>7, QuietSteps DEF Next, Step

\* Only txn recover runs beside a journal, and it keeps the references.
LEMMA StepRecover ==
    ASSUME RecoverFirst = TRUE, CInv, RInv, [Next]_vars
    PROVE  RecoverInv'
<1> USE DEF RInv
<1>0. CASE UNCHANGED vars \/ Worm
  <2>1. UNCHANGED <<products, orders, pnew, onew, journal, pushed, kind, pc, before>>
    BY <1>0 DEF vars, disk, txn, command, Worm
  <2> QED BY <2>1 DEF RecoverInv
<1>1. ASSUME NEW k \in Kinds, Start(k) PROVE RecoverInv'
  BY <1>1 DEF Start, disk, txn, RecoverInv
<1>2. CASE pc' = "idle"
  BY <1>2 DEF RecoverInv
<1>3. CASE \/ Dispatch \/ Refuse \/ Load \/ Edit \/ SaveProducts \/ SaveOrders
           \/ SaveFails \/ Audit \/ Exit \/ WriteRefused \/ TakeWriteLock
  <2>1. CASE pc' # "idle"
    <3>1. /\ pc \notin {"idle", "rename"} /\ UNCHANGED <<journal, kind>>
          /\ pc' \notin {"recoverOrders", "recoverJournal"}
      BY <1>3, <2>1
         DEF Dispatch, Refuse, Load, Edit, SaveProducts, SaveOrders, SaveFails, Audit, Exit,
             WriteRefused, TakeWriteLock, Goto, End, command, txn, FirstStep,
             CInv, KindInv, OneFile, TwoFiles, Atomic, InMemory, Command
    <3> QED BY <3>1 DEF RecoverInv
  <2> QED BY <1>2, <2>1
<1>4. CASE Prepare \/ Rename
  BY <1>4 DEF Prepare, Rename, Goto, End, RecoverInv
<1>5. CASE Recover
  BY <1>2, <1>5 DEF Recover, Goto, End, command, txn, RecoverInv
<1>6. CASE RecoverProducts
  <2>1. kind = "txn recover" /\ before = Data(products, orders)
    BY <1>6 DEF RecoverProducts, CInv, KindInv, BeforeInv, Before
  <2>2. before.products = products /\ before.orders = orders
    BY <2>1, DataType DEF CInv, TypeOK
  <2>3. pushed \/ Grown(products, products')
    BY <1>6, GrownSelf DEF RecoverProducts, PendingInv
  <2> QED BY <1>6, <2>1, <2>2, <2>3 DEF RecoverProducts, Goto, command, RecoverInv
<1>7. CASE RecoverOrders
  <2>1. /\ kind = "txn recover" /\ pnew = None
        /\ before.orders = orders /\ (pushed \/ Grown(before.products, products))
    BY <1>7 DEF RecoverOrders, CInv, KindInv, RecoverInv
  <2>2. pushed \/ Covered(orders', orders, products)
    BY <1>7, <2>1, GrownSelf DEF RecoverOrders, PendingInv
  <2>p. pushed => Sound(products, orders')
    BY <1>7, <2>1 DEF RecoverOrders, PendingInv
  <2>3. pushed \/ Sound(before.products, before.orders) => Sound(products, orders')
    BY <2>1, <2>2, <2>p, SoundKept
  <2> QED BY <1>7, <2>1, <2>3 DEF RecoverOrders, Goto, command, RecoverInv
<1>8. CASE RecoverJournal \/ Kill
  BY <1>2, <1>8 DEF RecoverJournal, Kill, End
<1> QED BY <1>0, <1>1, <1>2, <1>3, <1>4, <1>5, <1>6, <1>7, <1>8 DEF Next, Step

\* What a command holds keeps the references.
LEMMA StepMem == CInv /\ RInv /\ [Next]_vars => MemInv'
<1> SUFFICES ASSUME CInv, RInv, [Next]_vars PROVE MemInv'
  OBVIOUS
<1> USE DEF RInv
<1>0. CASE UNCHANGED vars \/ Worm
  BY <1>0 DEF vars, disk, command, Worm, MemInv
<1>1. CASE pc' \notin {"edit", "saveProducts", "saveOrders", "prepare", "journal", "rename"}
  BY <1>1 DEF MemInv
<1>2. CASE Load
  <2>1. /\ mem'.products = IF kind \in StartsEmpty THEN Nothing ELSE products
        /\ mem'.orders = IF kind \in StartsEmpty \cup OneFile THEN {} ELSE orders
        /\ kind \in StartsEmpty => mem' = Data(Nothing, {})
    BY <1>2 DEF Load, Data
  <2> QED BY <1>2, <2>1 DEF Load, Goto, disk, command, MemInv
<1>3. CASE Edit
  <2>1. /\ mem.products \in Catalog /\ mem.orders \in Orders
        /\ kind \in Command \ {"txn recover"} /\ pc = "edit"
        /\ before = Data(products, orders)
        /\ products \in Catalog /\ orders \in Orders
    BY <1>3, DatasetData DEF CInv, TypeOK, KindInv, BeforeInv, Before, Edit
  <2>b. before.products = products /\ before.orders = orders
    BY <2>1, DataType
  <2>2. PICK r \in Outcome(kind, mem.products, mem.orders) :
            IF r.exit # "ok" \/ (dry /\ kind \in HonorsDryRun)
            THEN End(r.exit)
            ELSE mem' = r.data /\ Goto(FirstStep(kind)) /\ UNCHANGED audited
    BY <1>3 DEF Edit
  <2>3. CASE r.exit # "ok" \/ (dry /\ kind \in HonorsDryRun)
    BY <1>1, <2>2, <2>3 DEF End
  <2>4. CASE ~(r.exit # "ok" \/ (dry /\ kind \in HonorsDryRun))
    <3>1. /\ pc' = FirstStep(kind) /\ mem' = r.data /\ r.exit = "ok"
          /\ UNCHANGED <<products, orders, kind, before>>
      BY <1>3, <2>2, <2>4 DEF Edit, Goto, disk, command
    <3>2. CASE kind \in OneFile
      <4>1. pc' = "saveProducts" /\ mem.products = products
        <5>1. kind \notin StartsEmpty
          BY <3>2 DEF OneFile, StartsEmpty, InMemory
        <5>2. pc' = "saveProducts"
          BY <3>1, <3>2 DEF FirstStep, OneFile, TwoFiles, Atomic, InMemory
        <5> QED BY <2>1, <5>1, <5>2 DEF MemInv
      <4>2. kind \notin Breaking => Grown(products, mem'.products)
        BY <2>1, <3>1, <3>2, <4>1, OneFileGrows
      <4>3. kind \notin TwoFiles
        BY <3>2 DEF OneFile, TwoFiles
      <4> QED BY <3>1, <4>1, <4>2, <4>3 DEF MemInv
    <3>3. CASE kind \in TwoFiles
      <4>1. pc' = "saveProducts" /\ kind \notin OneFile
        <5>1. kind \notin OneFile
          BY <3>3 DEF OneFile, TwoFiles
        <5>2. pc' = "saveProducts"
          BY <3>1, <3>3 DEF FirstStep, OneFile, TwoFiles, Atomic, InMemory
        <5> QED BY <5>1, <5>2
      <4>2. Sound(Nothing, {})
        BY DEF Sound
      <4>3. Sound(products, orders) => Sound(mem.products, mem.orders)
        <5>1. CASE kind \in StartsEmpty
          <6>1. mem = Data(Nothing, {})
            BY <2>1, <5>1 DEF MemInv
          <6>2. mem.products = Nothing /\ mem.orders = {}
            BY <6>1, NothingType, DataType
          <6> QED BY <4>2, <6>2
        <5>2. CASE kind \notin StartsEmpty
          BY <2>1, <4>1, <5>2 DEF MemInv
        <5> QED BY <5>1, <5>2
      <4>4. KeepsIds(kind, orders) /\ Sound(products, orders)
                => Sound(mem'.products, mem'.orders)
        <5> SUFFICES ASSUME KeepsIds(kind, orders), Sound(products, orders)
                     PROVE  Sound(mem'.products, mem'.orders)
          OBVIOUS
        <5>1. KeepsIds(kind, mem.orders)
          <6>1. CASE kind \in StartsEmpty
            BY <2>1, <6>1, NothingType, DataType DEF MemInv, KeepsIds
          <6>2. CASE kind \notin StartsEmpty
            BY <2>1, <4>1, <6>2 DEF MemInv
          <6> QED BY <6>1, <6>2
        <5> QED BY <2>1, <2>2, <3>1, <3>3, <4>3, <5>1, TwoFilesSound
      <4> QED BY <2>1, <2>b, <3>1, <4>1, <4>4 DEF MemInv
    <3>4. CASE kind \in Atomic
      <4>1. pc' = "prepare" /\ mem.products = products /\ mem.orders = orders
        BY <2>1, <3>1, <3>4
           DEF FirstStep, MemInv, Atomic, OneFile, TwoFiles, StartsEmpty, InMemory
      <4>2. IF kind = "replicate push"
            THEN Sound(mem'.products, mem'.orders)
            ELSE Grown(products, mem'.products)
                 /\ Covered(mem'.orders, orders, mem'.products)
        BY <2>1, <2>2, <3>1, <3>4, <4>1, AtomicKeeps, PushSound
      <4> QED BY <3>1, <4>1, <4>2 DEF MemInv
    <3>5. CASE kind \in InMemory
      BY <1>1, <3>1, <3>5 DEF FirstStep, InMemory, OneFile, TwoFiles, Atomic
    <3> QED BY <2>1, <3>2, <3>3, <3>4, <3>5 DEF Command
  <2> QED BY <2>3, <2>4
<1>4. CASE SaveProducts
  <2>1. CASE pc' # "idle"
    <3>1. /\ pc = "saveProducts" /\ pc' = "saveOrders" /\ UNCHANGED <<mem, kind, before>>
      BY <1>4, <2>1 DEF SaveProducts, Goto, End, command
    <3> QED BY <3>1 DEF MemInv
  <2> QED BY <1>1, <2>1
<1>5. CASE TakeWriteLock \/ Prepare
  BY <1>5 DEF TakeWriteLock, Prepare, Goto, disk, command, MemInv
<1>6. CASE \/ (\E k \in Kinds : Start(k)) \/ Dispatch \/ Refuse \/ SaveOrders \/ SaveFails
           \/ Audit \/ Exit \/ WriteRefused \/ Rename \/ Recover \/ RecoverProducts
           \/ RecoverOrders \/ RecoverJournal \/ Kill
  <2>1. pc' \notin {"edit", "saveProducts", "saveOrders", "prepare", "journal", "rename"}
    BY <1>6 DEF Start, Dispatch, Refuse, SaveOrders, SaveFails, Audit, Exit, WriteRefused,
                Rename, Recover, RecoverProducts, RecoverOrders, RecoverJournal, Kill, Goto, End
  <2> QED BY <1>1, <2>1
<1> QED BY <1>0, <1>2, <1>3, <1>4, <1>5, <1>6 DEF Next, Step

\* When both files are saved, or none is, the references are as they should be.
LEMMA StepDone == CInv /\ RInv /\ [Next]_vars => DoneInv'
<1> SUFFICES ASSUME CInv, RInv, [Next]_vars PROVE DoneInv'
  OBVIOUS
<1> USE DEF RInv
<1>0. CASE UNCHANGED vars \/ Worm \/ Audit
  <2>1. /\ UNCHANGED <<products, orders, kind, before>>
        /\ pc' \in {"audit", "exit"} => pc \in {"audit", "exit"}
    BY <1>0 DEF vars, disk, command, Worm, Audit, Goto
  <2> QED BY <2>1 DEF DoneInv
<1>1. CASE pc' \notin {"audit", "exit"}
  BY <1>1 DEF DoneInv
<1>2. CASE Edit /\ pc' \in {"audit", "exit"}
  <2>1. UNCHANGED <<products, orders, before>> /\ pc = "edit"
    BY <1>2 DEF Edit, End, Goto, disk
  <2>2. before.products = products /\ before.orders = orders
    BY <2>1, DataType DEF CInv, TypeOK, BeforeInv, Before
  <2> QED BY <2>1, <2>2 DEF DoneInv
<1>3. CASE SaveOrders /\ pc' \in {"audit", "exit"}
  <2>1. /\ pc = "saveOrders" /\ kind \in TwoFiles
        /\ orders' = (IF dryenv THEN orders ELSE mem.orders)
        /\ UNCHANGED <<products, kind, before>>
    BY <1>3 DEF SaveOrders, Goto, End, command, CInv, KindInv
  <2>2. before.orders = orders /\ products = IF dryenv THEN before.products ELSE mem.products
    BY <2>1 DEF CInv, BeforeInv
  <2>3. KeepsIds(kind, before.orders) /\ Sound(before.products, before.orders)
            => Sound(mem.products, mem.orders)
    BY <2>1 DEF MemInv
  <2> QED BY <2>1, <2>2, <2>3 DEF DoneInv
<1>4. CASE \/ (\E k \in Kinds : Start(k)) \/ Dispatch \/ Refuse \/ Load \/ SaveProducts
           \/ SaveFails \/ Exit \/ WriteRefused \/ TakeWriteLock \/ Prepare \/ Rename
           \/ Recover \/ RecoverProducts \/ RecoverOrders \/ RecoverJournal \/ Kill
  <2>1. pc' \notin {"audit", "exit"}
    BY <1>4 DEF Start, Dispatch, Refuse, Load, SaveProducts, SaveFails, Exit, WriteRefused,
                TakeWriteLock, Prepare, Rename, Recover, RecoverProducts, RecoverOrders,
                RecoverJournal, Kill, Goto, End
  <2> QED BY <1>1, <2>1
<1> QED BY <1>0, <1>1, <1>2, <1>3, <1>4 DEF Next, Step

\* Recovering first, no command that keeps the ids of the ordered products leaves an
\* order without a product, however many are killed, refused or left pending, except
\* between two saves; and the recovery of a push leaves the dataset that was pushed.
THEOREM RefsPreservedHolds ==
    ASSUME RecoverFirst = TRUE, GapFaults = FALSE
    PROVE  Spec => RefsPreserved
<1>1. CInv /\ RInv /\ [Next]_vars => RInv'
  BY StepMem, StepPending, StepRecover, StepDone DEF RInv
<1>2. CInv /\ RInv /\ [Next]_vars =>
        [Ending /\ kind \notin Breaking /\ KeepsIds(kind, before.orders)
            /\ (IF pushed THEN exit' = "ok" ELSE Sound(before.products, before.orders))
            => Sound(products', orders')]_vars
  <2> SUFFICES ASSUME CInv, RInv, Next, Ending, kind \notin Breaking,
                      KeepsIds(kind, before.orders),
                      IF pushed THEN exit' = "ok" ELSE Sound(before.products, before.orders)
               PROVE  Sound(products', orders')
    BY DEF vars
  <2> USE DEF RInv
  <2>p. CASE pushed
    <3>1. journal /\ pc # "idle" /\ exit' = "ok"
      BY <2>p DEF PendingInv, Ending
    <3>2. pc = "rename" \/ kind = "txn recover"
      BY <3>1 DEF RecoverInv
    <3>3. RecoverJournal
      <4>1. ~(\/ (\E k \in Kinds : Start(k)) \/ Dispatch \/ Refuse \/ SaveFails
              \/ WriteRefused \/ Rename \/ Kill \/ Worm)
        BY <3>1 DEF Start, Dispatch, Refuse, SaveFails, WriteRefused, Rename, Kill, Worm,
                    Goto, End, Ending
      <4>2. ~(\/ Load \/ Audit \/ TakeWriteLock \/ Prepare \/ RecoverProducts
              \/ RecoverOrders \/ Recover)
        BY <3>1 DEF Load, Audit, TakeWriteLock, Prepare, RecoverProducts, RecoverOrders,
                    Recover, Goto, Ending
      <4>3. ~(Edit \/ SaveProducts \/ SaveOrders \/ Exit)
        BY <3>2 DEF Edit, SaveProducts, SaveOrders, Exit, CInv, KindInv,
                    OneFile, TwoFiles, InMemory
      <4> QED BY <4>1, <4>2, <4>3 DEF Next, Step
    <3> QED BY <2>p, <3>3 DEF RecoverJournal, disk, RecoverInv
  <2>n. CASE ~pushed
    <3>s. Sound(before.products, before.orders)
      BY <2>n
    <3>1. CASE before = Data(products, orders) /\ UNCHANGED orders /\ Grown(products, products')
      <4>1. before.products = products /\ before.orders = orders
        BY <3>1, DataType DEF CInv, TypeOK
      <4> QED BY <3>s, <3>1, <4>1, SoundKept, GrownSelf
    <3>2. CASE Quiet /\ pc # "saveOrders"
      <4>1. pc # "idle"
        BY DEF Ending
      <4>2. CASE pc \in {"dispatch", "guard", "edit", "saveProducts", "prepare", "journal",
                         "rename", "recoverProducts"}
        BY <3>1, <3>2, <4>2, GrownSelf DEF Quiet, CInv, BeforeInv, Before
      <4>3. CASE pc \in {"audit", "exit"}
        BY <3>s, <3>2, <4>3 DEF Quiet, DoneInv
      <4>4. CASE pc = "recoverOrders"
        BY <2>n, <3>s, <3>2, <4>4, SoundKept, GrownSelf DEF Quiet, RecoverInv
      <4>5. CASE pc = "recoverJournal"
        BY <3>s, <3>2, <4>5 DEF Quiet, RecoverInv
      <4> QED BY <3>2, <4>1, <4>2, <4>3, <4>4, <4>5 DEF CInv, TypeOK, Place
    <3>3. CASE SaveProducts
      <4>1. pc = "saveProducts" /\ kind \in OneFile /\ UNCHANGED orders
            /\ products' = (IF dryenv THEN products ELSE mem.products)
        BY <3>3 DEF SaveProducts, Ending, Goto
      <4>2. Grown(products, products')
        BY <4>1, GrownSelf DEF MemInv
      <4> QED BY <3>1, <4>1, <4>2 DEF CInv, BeforeInv, Before
    <3>4. CASE SaveOrders
      <4>1. /\ pc = "saveOrders" /\ kind \in TwoFiles /\ UNCHANGED products
            /\ orders' = (IF dryenv THEN orders ELSE mem.orders)
        BY <3>4 DEF SaveOrders, CInv, KindInv
      <4>2. /\ before.orders = orders
            /\ products = IF dryenv THEN before.products ELSE mem.products
        BY <4>1 DEF CInv, BeforeInv
      <4>3. Sound(mem.products, mem.orders)
        BY <3>s, <4>1 DEF MemInv
      <4> QED BY <3>s, <4>1, <4>2, <4>3
    <3>5. CASE Rename
      <4>1. UNCHANGED orders /\ products' = mem.products /\ pc = "rename"
        BY <3>5 DEF Rename, CInv, KindInv
      <4>2. kind # "replicate push"
        BY <2>n, <4>1 DEF CInv, KindInv
      <4> QED BY <3>1, <4>1, <4>2 DEF MemInv, CInv, BeforeInv, Before
    <3>6. CASE RecoverJournal
      BY <3>s, <3>6 DEF RecoverJournal, disk, RecoverInv
    <3>7. ~(Prepare \/ RecoverProducts \/ RecoverOrders)
      BY DEF Ending, Prepare, RecoverProducts, RecoverOrders, Goto
    <3>8. CASE \/ (\E k \in Kinds : Start(k)) \/ Dispatch \/ Refuse \/ Load \/ Edit
               \/ SaveFails \/ Audit \/ Exit \/ WriteRefused \/ TakeWriteLock \/ Recover
               \/ Kill \/ Worm
      <4>1. pc # "saveOrders"
        BY <3>8 DEF Start, Dispatch, Refuse, Load, Edit, SaveFails, Audit, Exit, WriteRefused,
                    TakeWriteLock, Recover, Kill, Worm, Ending
      <4> QED BY <3>2, <3>8, <4>1, QuietSteps
    <3> QED BY <3>3, <3>4, <3>5, <3>6, <3>7, <3>8 DEF Next, Step
  <2> QED BY <2>p, <2>n
<1> QED BY <1>1, <1>2, InitR, Invariance, PTL DEF Spec, RefsPreserved

=============================================================================
