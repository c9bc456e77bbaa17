-------------------------- MODULE InventoryProofs --------------------------
(* Theorems about Inventory for every set of threads, ids, quantities and   *)
(* prices, every int width and every bound on the number of calls.          *)
EXTENDS Inventory, TLAPS

\* What a request looks like, operation by operation.
LEMMA MutationShape ==
    ASSUME NEW r \in Mutation
    PROVE  /\ r.id \in Key
           /\ r.op \in {"add", "restock", "sell", "set_price", "remove"}
           /\ r.op \in {"add", "restock", "sell"} => r.qty \in Qty
           /\ r.op \in {"add", "set_price"} => r.price \in Price
  BY DEF Mutation

\* `stock += qty` stays in the range of int, and is exact unless it overflows.
LEMMA WrapInRange ==
    ASSUME NEW a \in CInt, NEW b \in CInt, b >= 0
    PROVE  /\ Wrap(a + b) \in CInt
           /\ a + b <= IntMax => Wrap(a + b) = a + b
  BY InventoryAssumption DEF Wrap, CInt

LEMMA InitIInv == Init => IInv
<1> SUFFICES ASSUME Init PROVE IInv
  OBVIOUS
<1>1. TypeOK
  BY InventoryAssumption DEF Init, TypeOK, CInt, Mutating, Locked, Reading
<1>2. CallInv /\ MutexInv /\ CheckedInv
  BY DEF Init, CallInv, MutexInv, CheckedInv, Mutating, Locked, Reading
<1>3. StockConserved
  BY DEF Init, StockConserved
<1> QED BY <1>1, <1>2, <1>3 DEF IInv

\* The steps that touch neither the map nor the history keep StockConserved.
LEMMA QuietStep ==
    ASSUME StockConserved, UNCHANGED <<products, history>>
    PROVE  StockConserved'
  BY DEF StockConserved, history

\* Entering a call.
LEMMA EnterStep ==
    ASSUME IInv, NEW t \in Thread, CallMutation(t) \/ CallLookup(t)
    PROVE  IInv'
<1> USE DEF IInv
<1>1. PICK where \in {"lock", "walk"}, r \in Mutation \cup Lookup :
        /\ Enter(t, where, r)
        /\ where = "lock" => r \in Mutation
        /\ where = "walk" => r \in Lookup
  BY DEF CallMutation, CallLookup
<1>2. TypeOK'
  BY <1>1, InventoryAssumption DEF Enter, TypeOK, history, Mutating, Locked, Reading
<1>3. CallInv'
  BY <1>1 DEF Enter, TypeOK, CallInv, Mutating, Locked, Reading
<1>4. MutexInv'
  BY <1>1 DEF Enter, TypeOK, MutexInv, Locked
<1>5. CheckedInv'
  BY <1>1 DEF Enter, TypeOK, CheckedInv
<1>6. StockConserved'
  BY <1>1, QuietStep DEF Enter
<1> QED BY <1>2, <1>3, <1>4, <1>5, <1>6

LEMMA AcquireStep ==
    ASSUME IInv, NEW t \in Thread, Acquire(t)
    PROVE  IInv'
<1> USE DEF IInv
<1>1. TypeOK'
  BY DEF Acquire, TypeOK, history, Mutating, Locked, Reading
<1>2. CallInv'
  BY DEF Acquire, TypeOK, CallInv, Mutating, Locked, Reading
<1>3. MutexInv'
  BY InventoryAssumption DEF Acquire, TypeOK, MutexInv, Locked
<1>4. CheckedInv'
  BY DEF Acquire, TypeOK, CheckedInv
<1>5. StockConserved'
  BY QuietStep DEF Acquire
<1> QED BY <1>1, <1>2, <1>3, <1>4, <1>5

LEMMA CheckStep ==
    ASSUME IInv, NEW t \in Thread, Check(t)
    PROVE  IInv'
<1> USE DEF IInv
<1>0. call[t] \in Mutation /\ pc[t] = "check"
  BY DEF Check, CallInv, Mutating, Locked
<1>1. ~Throws(products, call[t]) /\ call[t].op \in {"restock", "sell"} =>
        products[call[t].id] \in Product
  BY <1>0, MutationShape DEF Throws, TypeOK
<1>2. TypeOK'
  <2>1. 0 \in CInt
    BY InventoryAssumption DEF CInt
  <2>2. loaded' \in [Thread -> CInt]
    <3>1. CASE Throws(products, call[t])
      BY <3>1 DEF Check, TypeOK
    <3>2. CASE ~Throws(products, call[t])
      <4>1. CASE call[t].op \in {"restock", "sell"}
        <5>1. products[call[t].id].stock \in CInt
          BY <1>1, <3>2, <4>1 DEF Product
        <5>2. loaded' = [loaded EXCEPT ![t] = products[call[t].id].stock]
          BY <3>2, <4>1 DEF Check
        <5> QED BY <5>1, <5>2 DEF TypeOK
      <4>2. CASE call[t].op \notin {"restock", "sell"}
        BY <2>1, <3>2, <4>2 DEF Check, TypeOK
      <4> QED BY <4>1, <4>2
    <3> QED BY <3>1, <3>2
  <2> QED BY <2>2 DEF Check, TypeOK, history, Mutating, Locked, Reading
<1>3. CallInv'
  BY DEF Check, TypeOK, CallInv, Mutating, Locked, Reading
<1>4. MutexInv'
  BY <1>0 DEF Check, TypeOK, MutexInv, Locked
<1>5. CheckedInv'
  <2> SUFFICES ASSUME NEW u \in Thread, pc'[u] = "store"
               PROVE  /\ ~Throws(products', call'[u])
                      /\ call'[u].op \in {"restock", "sell"} =>
                            loaded'[u] = products'[call'[u].id].stock
    BY DEF CheckedInv
  <2>1. products' = products /\ call' = call
    BY DEF Check
  <2>2. CASE u = t
    <3>1. ~Throws(products, call[t])
      BY <2>2 DEF Check, TypeOK
    <3>2. call[t].op \in {"restock", "sell"} =>
            loaded'[t] = products[call[t].id].stock
      BY <3>1 DEF Check, TypeOK
    <3> QED BY <2>1, <2>2, <3>1, <3>2
  <2>3. CASE u # t
    <3>1. pc[u] = "store" /\ loaded'[u] = loaded[u]
      BY <2>3 DEF Check, TypeOK
    <3> QED BY <2>1, <3>1 DEF CheckedInv
  <2> QED BY <2>2, <2>3
<1>6. StockConserved'
  BY QuietStep DEF Check
<1> QED BY <1>2, <1>3, <1>4, <1>5, <1>6

\* Storing, then releasing: a stored step of t leaves every other thread
\* outside its locked region.
LEMMA StoredStep ==
    ASSUME IInv, NEW t \in Thread, Stored(t), products' \in [Key -> Product \cup {Absent}],
           stale' \in [Thread -> BOOLEAN],
           order' \in [Thread -> {<<>>} \cup (Key \X Qty \X Price)],
           inflow' \in [Key -> Nat], outflow' \in [Key -> Nat]
    PROVE  TypeOK' /\ CallInv' /\ MutexInv' /\ CheckedInv'
<1> USE DEF IInv
<1>0. 0 \in CInt
  BY InventoryAssumption DEF CInt
<1>1. TypeOK'
  BY <1>0 DEF Stored, TypeOK, Mutating, Locked, Reading
<1>2. CallInv'
  BY DEF Stored, TypeOK, CallInv, Mutating, Locked, Reading
<1>3. MutexInv'
  BY DEF Stored, TypeOK, MutexInv, Locked
<1>4. \A u \in Thread : pc'[u] # "store"
  BY DEF Stored, TypeOK, MutexInv, Locked
<1>5. CheckedInv'
  BY <1>4 DEF CheckedInv
<1> QED BY <1>1, <1>2, <1>3, <1>5

\* What is known of the call of a thread that is about to store.
LEMMA AboutToStore ==
    ASSUME IInv, NEW t \in Thread, Stored(t)
    PROVE  /\ call[t] \in Mutation
           /\ call[t].id \in Key
           /\ ~Throws(products, call[t])
           /\ call[t].op \in {"restock", "sell"} =>
                /\ call[t].qty \in Qty
                /\ loaded[t] = products[call[t].id].stock
  BY MutationShape DEF IInv, Stored, CallInv, CheckedInv, Mutating, Locked

LEMMA AddProductStep ==
    ASSUME IInv, NEW t \in Thread, AddProduct(t)
    PROVE  IInv'
<1> DEFINE r == call[t]
<1>1. /\ Stored(t) /\ r.op = "add" /\ r \in Mutation /\ r.id \in Key
      /\ ~Throws(products, r)
  BY AboutToStore DEF AddProduct
<1>a. r.qty \in CInt /\ r.price \in Price
  BY <1>1, MutationShape, InventoryAssumption
<1>b. ~(r.qty < 0)
  BY <1>1 DEF Throws
<1>2. r.qty \in Nat
  BY <1>a, <1>b, InventoryAssumption DEF CInt
<1> HIDE DEF r
<1>3. products' = [products EXCEPT ![r.id] = [price |-> r.price, stock |-> r.qty]]
  BY DEF AddProduct, r
<1>4. inflow' = [inflow EXCEPT ![r.id] = r.qty] /\ outflow' = [outflow EXCEPT ![r.id] = 0]
  BY DEF AddProduct, r
<1>5. products' \in [Key -> Product \cup {Absent}]
  BY <1>1, <1>a, <1>3 DEF IInv, TypeOK, Product
<1>6. inflow' \in [Key -> Nat] /\ outflow' \in [Key -> Nat]
  BY <1>1, <1>2, <1>4 DEF IInv, TypeOK
<1>7. stale' \in [Thread -> BOOLEAN] /\ order' = order
  BY DEF AddProduct
<1>8. TypeOK' /\ CallInv' /\ MutexInv' /\ CheckedInv'
  BY <1>1, <1>5, <1>6, <1>7, StoredStep DEF IInv, TypeOK
<1>9. StockConserved'
  <2> SUFFICES ASSUME NEW k \in Key, products'[k] # Absent, inflow'[k] <= IntMax
               PROVE  /\ products'[k].stock = inflow'[k] - outflow'[k]
                      /\ outflow'[k] <= inflow'[k]
    BY DEF StockConserved
  <2>1. CASE k = r.id
    BY <1>1, <1>2, <1>3, <1>4, <2>1 DEF IInv, TypeOK
  <2>2. CASE k # r.id
    BY <1>1, <1>3, <1>4, <2>2 DEF IInv, TypeOK, StockConserved
  <2> QED BY <2>1, <2>2
<1> QED BY <1>8, <1>9 DEF IInv

LEMMA RestockStep ==
    ASSUME IInv, NEW t \in Thread, Restock(t)
    PROVE  IInv'
<1> DEFINE r == call[t]
<1>1. /\ Stored(t) /\ r.op = "restock" /\ r \in Mutation /\ r.id \in Key
      /\ ~Throws(products, r) /\ loaded[t] = products[r.id].stock
  BY AboutToStore DEF Restock
<1>2. r.qty \in CInt
  BY <1>1, MutationShape, InventoryAssumption
<1>3. ~(r.qty < 0) /\ products[r.id] # Absent
  BY <1>1 DEF Throws
<1>4. r.qty \in Nat
  BY <1>2, <1>3, InventoryAssumption DEF CInt
<1>5. products[r.id] \in Product
  BY <1>1, <1>3 DEF IInv, TypeOK
<1> HIDE DEF r
<1> DEFINE s == products[r.id].stock
           n == Wrap(s + r.qty)
<1>6. s \in CInt /\ n \in CInt /\ (s + r.qty <= IntMax => n = s + r.qty)
  <2>1. s \in CInt
    BY <1>5 DEF Product
  <2> HIDE DEF s
  <2> QED BY <2>1, <1>2, <1>4, WrapInRange
<1>7. products' = [products EXCEPT ![r.id].stock = n]
  BY <1>1 DEF Restock, r
<1> HIDE DEF n
<1>8. inflow' = [inflow EXCEPT ![r.id] = @ + r.qty] /\ outflow' = outflow
  BY DEF Restock, r
<1>9. products' \in [Key -> Product \cup {Absent}]
  <2>1. [products[r.id] EXCEPT !.stock = n] \in Product
    BY <1>5, <1>6 DEF Product
  <2> QED BY <1>1, <1>7, <2>1 DEF IInv, TypeOK
<1>10. inflow' \in [Key -> Nat] /\ outflow' \in [Key -> Nat]
  BY <1>1, <1>4, <1>8 DEF IInv, TypeOK
<1>11. stale' = stale /\ order' = order
  BY DEF Restock
<1>12. TypeOK' /\ CallInv' /\ MutexInv' /\ CheckedInv'
  BY <1>1, <1>9, <1>10, <1>11, StoredStep DEF IInv, TypeOK
<1>13. StockConserved'
  <2> SUFFICES ASSUME NEW k \in Key, products'[k] # Absent, inflow'[k] <= IntMax
               PROVE  /\ products'[k].stock = inflow'[k] - outflow'[k]
                      /\ outflow'[k] <= inflow'[k]
    BY DEF StockConserved
  <2>1. CASE k = r.id
    <3>1. inflow'[k] = inflow[k] + r.qty /\ outflow'[k] = outflow[k]
          /\ inflow[k] \in Nat /\ outflow[k] \in Nat
      BY <1>8, <2>1 DEF IInv, TypeOK
    <3>2. inflow[k] <= IntMax
      BY <3>1, <1>4, InventoryAssumption
    <3>3. s = inflow[k] - outflow[k] /\ outflow[k] <= inflow[k]
      BY <1>3, <2>1, <3>2 DEF IInv, StockConserved
    <3>4. products'[k].stock = n
      BY <1>1, <1>5, <1>7, <2>1 DEF IInv, TypeOK, Product
    <3>5. n = s + r.qty
      <4> HIDE DEF s
      <4> QED BY <1>4, <1>6, <3>1, <3>3, InventoryAssumption
    <3> HIDE DEF s
    <3> QED BY <1>4, <3>1, <3>3, <3>4, <3>5
  <2>2. CASE k # r.id
    BY <1>1, <1>7, <1>8, <2>2 DEF IInv, TypeOK, StockConserved
  <2> QED BY <2>1, <2>2
<1> QED BY <1>12, <1>13 DEF IInv

LEMMA SellStep ==
    ASSUME IInv, NEW t \in Thread, Sell(t)
    PROVE  IInv'
<1> DEFINE r == call[t]
<1>1. /\ Stored(t) /\ r.op = "sell" /\ r \in Mutation /\ r.id \in Key
      /\ ~Throws(products, r) /\ loaded[t] = products[r.id].stock
  BY AboutToStore DEF Sell
<1>2. r.qty \in Qty /\ r.qty \in CInt
  BY <1>1, MutationShape, InventoryAssumption
<1>3. ~(r.qty <= 0) /\ products[r.id] # Absent /\ ~(products[r.id].stock < r.qty)
  BY <1>1 DEF Throws
<1>4. r.qty \in Nat
  BY <1>2, <1>3, InventoryAssumption DEF CInt
<1>5. products[r.id] \in Product
  BY <1>1, <1>3 DEF IInv, TypeOK
<1> HIDE DEF r
<1> DEFINE s == products[r.id].stock
           n == s - r.qty
<1>6. s \in CInt /\ n \in CInt
  <2>1. s \in CInt
    BY <1>5 DEF Product
  <2>2. ~(s < r.qty)
    BY <1>3
  <2> HIDE DEF s
  <2> QED BY <2>1, <2>2, <1>2, <1>4, InventoryAssumption DEF CInt
<1>7. products' = [products EXCEPT ![r.id].stock = n]
  BY <1>1 DEF Sell, r
<1>8. outflow' = [outflow EXCEPT ![r.id] = @ + r.qty] /\ inflow' = inflow
  BY DEF Sell, r
<1>9. products' \in [Key -> Product \cup {Absent}]
  <2> HIDE DEF n
  <2>1. [products[r.id] EXCEPT !.stock = n] \in Product
    BY <1>5, <1>6 DEF Product
  <2> QED BY <1>1, <1>7, <2>1 DEF IInv, TypeOK
<1>10. inflow' \in [Key -> Nat] /\ outflow' \in [Key -> Nat]
  BY <1>1, <1>4, <1>8 DEF IInv, TypeOK
<1>11. stale' = stale /\ order' \in [Thread -> {<<>>} \cup (Key \X Qty \X Price)]
  BY <1>1, <1>2, <1>5 DEF Sell, IInv, TypeOK, Product, r
<1>12. TypeOK' /\ CallInv' /\ MutexInv' /\ CheckedInv'
  BY <1>1, <1>9, <1>10, <1>11, StoredStep DEF IInv, TypeOK
<1>13. StockConserved'
  <2> SUFFICES ASSUME NEW k \in Key, products'[k] # Absent, inflow'[k] <= IntMax
               PROVE  /\ products'[k].stock = inflow'[k] - outflow'[k]
                      /\ outflow'[k] <= inflow'[k]
    BY DEF StockConserved
  <2>1. CASE k = r.id
    <3>1. outflow'[k] = outflow[k] + r.qty /\ inflow'[k] = inflow[k]
          /\ inflow[k] \in Nat /\ outflow[k] \in Nat
      BY <1>8, <2>1 DEF IInv, TypeOK
    <3>2. s = inflow[k] - outflow[k] /\ outflow[k] <= inflow[k]
      BY <1>3, <2>1, <3>1 DEF IInv, StockConserved
    <3>3. products'[k].stock = n
      BY <1>1, <1>5, <1>7, <2>1 DEF IInv, TypeOK, Product
    <3>4. ~(s < r.qty)
      BY <1>3
    <3> HIDE DEF s
    <3> QED BY <1>4, <3>1, <3>2, <3>3, <3>4
  <2>2. CASE k # r.id
    BY <1>1, <1>7, <1>8, <2>2 DEF IInv, TypeOK, StockConserved
  <2> QED BY <2>1, <2>2
<1> QED BY <1>12, <1>13 DEF IInv

LEMMA RemoveProductStep ==
    ASSUME IInv, NEW t \in Thread, RemoveProduct(t)
    PROVE  IInv'
<1> DEFINE r == call[t]
<1>1. Stored(t) /\ r.op = "remove" /\ r \in Mutation /\ r.id \in Key
  BY AboutToStore DEF RemoveProduct
<1> HIDE DEF r
<1>2. products' = [products EXCEPT ![r.id] = Absent]
  BY DEF RemoveProduct, r
<1>3. inflow' = [inflow EXCEPT ![r.id] = 0] /\ outflow' = [outflow EXCEPT ![r.id] = 0]
  BY DEF RemoveProduct, r
<1>4. products' \in [Key -> Product \cup {Absent}]
  BY <1>1, <1>2 DEF IInv, TypeOK
<1>5. inflow' \in [Key -> Nat] /\ outflow' \in [Key -> Nat]
  BY <1>1, <1>3 DEF IInv, TypeOK
<1>6. stale' \in [Thread -> BOOLEAN] /\ order' = order
  BY DEF RemoveProduct
<1>7. TypeOK' /\ CallInv' /\ MutexInv' /\ CheckedInv'
  BY <1>1, <1>4, <1>5, <1>6, StoredStep DEF IInv, TypeOK
<1>8. StockConserved'
  BY <1>1, <1>2, <1>3 DEF IInv, TypeOK, StockConserved
<1> QED BY <1>7, <1>8 DEF IInv

LEMMA SetPriceStep ==
    ASSUME IInv, NEW t \in Thread, SetPrice(t)
    PROVE  IInv'
<1> DEFINE r == call[t]
<1>1. /\ Stored(t) /\ r.op = "set_price" /\ r \in Mutation /\ r.id \in Key
      /\ ~Throws(products, r)
  BY AboutToStore DEF SetPrice
<1>2. r.price \in Price /\ products[r.id] # Absent
  BY <1>1, MutationShape DEF Throws
<1>3. products[r.id] \in Product
  BY <1>1, <1>2 DEF IInv, TypeOK
<1> HIDE DEF r
<1>4. products' = [products EXCEPT ![r.id].price = r.price]
  BY DEF SetPrice, r
<1>5. products' \in [Key -> Product \cup {Absent}]
  <2>1. [products[r.id] EXCEPT !.price = r.price] \in Product
    BY <1>2, <1>3 DEF Product
  <2> QED BY <1>1, <1>4, <2>1 DEF IInv, TypeOK
<1>6. stale' = stale /\ order' = order /\ inflow' = inflow /\ outflow' = outflow
  BY DEF SetPrice, history
<1>7. TypeOK' /\ CallInv' /\ MutexInv' /\ CheckedInv'
  BY <1>1, <1>5, <1>6, StoredStep DEF IInv, TypeOK
<1>8. StockConserved'
  BY <1>1, <1>2, <1>3, <1>4, <1>6 DEF IInv, TypeOK, StockConserved, Product
<1> QED BY <1>7, <1>8 DEF IInv

LEMMA ReleaseStep ==
    ASSUME IInv, NEW t \in Thread, Release(t)
    PROVE  IInv'
<1> USE DEF IInv
<1>1. TypeOK'
  BY DEF Release, TypeOK, history, Mutating, Locked, Reading
<1>2. CallInv'
  BY DEF Release, TypeOK, CallInv, Mutating, Locked, Reading
<1>3. MutexInv'
  BY DEF Release, TypeOK, MutexInv, Locked
<1>4. CheckedInv'
  BY DEF Release, TypeOK, CheckedInv
<1>5. StockConserved'
  BY QuietStep DEF Release
<1> QED BY <1>1, <1>2, <1>3, <1>4, <1>5

\* The three steps of the unlocked readers.
LEMMA ReaderStep ==
    ASSUME IInv, NEW t \in Thread, ListProducts(t) \/ Find(t) \/ Dereference(t)
    PROVE  IInv'
<1> USE DEF IInv
<1>1. /\ pc[t] \in Reading
      /\ \/ /\ pc' = [pc EXCEPT ![t] = "idle"]
            /\ call' = [call EXCEPT ![t] = NoCall]
         \/ /\ pc' = [pc EXCEPT ![t] = "hold"]
            /\ call' = call
      /\ misread' \subseteq Thread
      /\ UNCHANGED <<products, mutex, loaded, result, order, stale, calls, history>>
  <2>1. CASE Finish(t) /\ pc[t] \in Reading
    BY <2>1 DEF Finish, TypeOK
  <2>2. CASE pc[t] = "walk" /\ ~Finish(t) /\ Find(t)
    BY <2>2 DEF Find, Reading, TypeOK
  <2> QED BY <2>1, <2>2 DEF ListProducts, Find, Dereference, Reading
<1>2. TypeOK'
  BY <1>1 DEF TypeOK, history, Mutating, Locked, Reading
<1>3. CallInv'
  BY <1>1 DEF TypeOK, CallInv, Mutating, Locked, Reading
<1>4. MutexInv'
  BY <1>1 DEF TypeOK, MutexInv, Locked
<1>5. CheckedInv'
  BY <1>1 DEF TypeOK, CheckedInv
<1>6. StockConserved'
  BY <1>1, QuietStep
<1> QED BY <1>2, <1>3, <1>4, <1>5, <1>6

LEMMA StutterIInv == IInv /\ UNCHANGED vars => IInv'
  BY DEF IInv, TypeOK, CallInv, MutexInv, CheckedInv, StockConserved, vars

LEMMA NextIInv == IInv /\ [Next]_vars => IInv'
<1> SUFFICES ASSUME IInv, [Next]_vars PROVE IInv'
  OBVIOUS
<1>1. CASE UNCHANGED vars
  BY <1>1, StutterIInv
<1>2. ASSUME NEW t \in Thread, CallMutation(t) \/ CallLookup(t) PROVE IInv'
  BY <1>2, EnterStep
<1>3. ASSUME NEW t \in Thread, Step(t) PROVE IInv'
  BY <1>3, AcquireStep, CheckStep, AddProductStep, RestockStep, SellStep,
     RemoveProductStep, SetPriceStep, ReleaseStep, ReaderStep DEF Step
<1> QED BY <1>1, <1>2, <1>3 DEF Next

\* The inductive invariant holds of every reachable state.
THEOREM Inductive == Spec => []IInv
  BY InitIInv, NextIInv, PTL DEF Spec

\* Every variable keeps its type; in particular no stock leaves the range of
\* int and no order carries a price or quantity nobody asked for.
THEOREM TypeCorrect == Spec => []TypeOK
<1>1. IInv => TypeOK
  BY DEF IInv
<1> QED BY <1>1, Inductive, PTL

\* No interleaving of add_product, restock, sell and remove_product loses a
\* restock or sells a unit that is not there, as long as what entered the
\* entry fits into an int.
THEOREM StockIsConserved == Spec => []StockConserved
<1>1. IInv => StockConserved
  BY DEF IInv
<1> QED BY <1>1, Inductive, PTL

-----------------------------------------------------------------------------
\* The guards of the code are those of the promise.
LEMMA SameGuards ==
    ASSUME NEW r \in Mutation
    PROVE  Promise!MustRefuse(r) <=> Throws(products, r)
<1>1. r.op \in {"add", "restock", "sell", "set_price", "remove"}
  BY MutationShape
<1> QED BY <1>1 DEF Promise!MustRefuse, Throws

\* The abstract phase, request by request.
AbstractPhase(where) ==
    CASE where \in {"lock", "check", "store"} -> "called"
      [] where = "unlock" -> "done"
      [] OTHER -> "idle"
Phase == [t \in Thread |-> AbstractPhase(pc[t])]
Pending == [t \in Thread |-> IF pc[t] \in Mutating THEN call[t] ELSE NoCall]

\* Steps of a mutating call that do not show in the promise.
LEMMA AcquireMaps ==
    ASSUME IInv, NEW t \in Thread, Acquire(t)
    PROVE  UNCHANGED <<products, Phase, Pending, result, order>>
<1>1. Phase' = Phase
  BY DEF Acquire, Phase, AbstractPhase, IInv, TypeOK
<1>2. Pending' = Pending
  BY DEF Acquire, Pending, Mutating, Locked, IInv, TypeOK
<1> QED BY <1>1, <1>2 DEF Acquire

LEMMA ReaderMaps ==
    ASSUME IInv, NEW t \in Thread,
           CallLookup(t) \/ ListProducts(t) \/ Find(t) \/ Dereference(t)
    PROVE  UNCHANGED <<products, Phase, Pending, result, order>>
<1>1. /\ pc[t] \in {"walk", "hold", "idle"} /\ pc'[t] \in {"walk", "hold", "idle"}
      /\ \A u \in Thread \ {t} : pc'[u] = pc[u] /\ call'[u] = call[u]
      /\ UNCHANGED <<products, result, order>>
  <2> USE DEF IInv, TypeOK
  <2>1. CASE CallLookup(t)
    BY <2>1 DEF CallLookup, Enter
  <2>2. CASE Finish(t) /\ pc[t] \in {"walk", "hold"}
    BY <2>2 DEF Finish
  <2>3. CASE pc[t] = "walk" /\ ~Finish(t) /\ Find(t)
    BY <2>3 DEF Find
  <2> QED BY <2>1, <2>2, <2>3 DEF ListProducts, Find, Dereference
<1>2. Phase' = Phase
  BY <1>1 DEF Phase, AbstractPhase
<1>3. Pending' = Pending
  BY <1>1 DEF Pending, Mutating, Locked
<1> QED BY <1>1, <1>2, <1>3

LEMMA CallMaps ==
    ASSUME IInv, NEW t \in Thread, CallMutation(t)
    PROVE  Promise!Invoke(t)
<1>1. PICK r \in Mutation : Enter(t, "lock", r)
  BY DEF CallMutation
<1>2. Phase[t] = "idle"
  BY <1>1 DEF Enter, Phase, AbstractPhase
<1>3. Phase' = [Phase EXCEPT ![t] = "called"]
  BY <1>1 DEF Enter, Phase, AbstractPhase, IInv, TypeOK
<1>4. Pending' = [Pending EXCEPT ![t] = r]
  BY <1>1 DEF Enter, Pending, Mutating, Locked, IInv, TypeOK
<1>5. UNCHANGED <<products, result, order>>
  BY <1>1 DEF Enter
<1> QED BY <1>2, <1>3, <1>4, <1>5 DEF Promise!Invoke, Phase, AbstractPhase, Pending

LEMMA CheckMaps ==
    ASSUME IInv, NEW t \in Thread, Check(t)
    PROVE  Promise!Refuse(t) \/ UNCHANGED <<products, Phase, Pending, result, order>>
<1>1. /\ pc[t] = "check" /\ call[t] \in Mutation
      /\ Phase[t] = "called" /\ Pending[t] = call[t]
  BY DEF Check, IInv, CallInv, Phase, AbstractPhase, Pending, Mutating, Locked
<1>2. Pending' = Pending
  BY DEF Check, Pending, Mutating, Locked, IInv, TypeOK
<1>3. CASE Throws(products, call[t])
  <2>1. Phase' = [Phase EXCEPT ![t] = "done"]
    BY <1>3 DEF Check, Phase, AbstractPhase, IInv, TypeOK
  <2>2. result' = [result EXCEPT ![t] = "error"] /\ UNCHANGED <<products, order>>
    BY <1>3 DEF Check
  <2>3. Promise!MustRefuse(Pending[t])
    BY <1>1, <1>3, SameGuards
  <2> QED BY <1>1, <1>2, <2>1, <2>2, <2>3 DEF Promise!Refuse, Phase, AbstractPhase, Pending
<1>4. CASE ~Throws(products, call[t])
  <2>1. Phase' = Phase
    BY <1>4 DEF Check, Phase, AbstractPhase, IInv, TypeOK
  <2>2. UNCHANGED <<products, result, order>>
    BY <1>4 DEF Check
  <2> QED BY <1>2, <2>1, <2>2
<1> QED BY <1>3, <1>4

\* The store is the one step in which a mutating call takes effect.
LEMMA StoreMaps ==
    ASSUME IInv, NEW t \in Thread,
           \/ AddProduct(t) \/ Restock(t) \/ Sell(t) \/ RemoveProduct(t) \/ SetPrice(t)
    PROVE  Promise!Apply(t)
<1> DEFINE r == call[t]
<1>1. Stored(t)
  BY DEF AddProduct, Restock, Sell, RemoveProduct, SetPrice
<1>2. /\ r \in Mutation /\ r.id \in Key /\ ~Throws(products, r)
      /\ r.op \in {"restock", "sell"} => loaded[t] = products[r.id].stock
  BY <1>1, AboutToStore
<1>3. Phase[t] = "called" /\ Pending[t] = r
  BY <1>1 DEF Stored, Phase, AbstractPhase, Pending, Mutating, Locked
<1>4. ~Promise!MustRefuse(r)
  BY <1>2, SameGuards
<1>5. Phase' = [Phase EXCEPT ![t] = "done"]
  BY <1>1 DEF Stored, Phase, AbstractPhase, IInv, TypeOK
<1>6. Pending' = Pending
  BY <1>1 DEF Stored, Pending, Mutating, Locked, IInv, TypeOK
<1>7. result' = [result EXCEPT ![t] = "ok"]
  BY <1>1 DEF Stored
<1>8. products' = [products EXCEPT ![r.id] = Promise!Updated(r)]
  <2>1. CASE AddProduct(t)
    BY <2>1 DEF AddProduct, Promise!Updated
  <2>2. CASE Restock(t)
    BY <2>2, <1>2 DEF Restock, Promise!Updated, Wrap, Promise!WrapInt, IInv, TypeOK
  <2>3. CASE Sell(t)
    BY <2>3, <1>2 DEF Sell, Promise!Updated, IInv, TypeOK
  <2>4. CASE RemoveProduct(t)
    BY <2>4 DEF RemoveProduct, Promise!Updated
  <2>5. CASE SetPrice(t)
    BY <2>5, <1>2 DEF SetPrice, Promise!Updated, IInv, TypeOK
  <2> QED BY <2>1, <2>2, <2>3, <2>4, <2>5
<1>9. order' = IF r.op = "sell"
               THEN [order EXCEPT ![t] = <<r.id, r.qty, products[r.id].price>>]
               ELSE order
  BY DEF AddProduct, Restock, Sell, RemoveProduct, SetPrice
<1> QED BY <1>2, <1>3, <1>4, <1>5, <1>6, <1>7, <1>8, <1>9
        DEF Promise!Apply, Phase, AbstractPhase, Pending

LEMMA ReleaseMaps ==
    ASSUME IInv, NEW t \in Thread, Release(t)
    PROVE  Promise!Return(t)
<1>1. Phase[t] = "done"
  BY DEF Release, Phase, AbstractPhase
<1>2. Phase' = [Phase EXCEPT ![t] = "idle"]
  BY DEF Release, Phase, AbstractPhase, IInv, TypeOK
<1>3. Pending' = [Pending EXCEPT ![t] = NoCall]
  BY DEF Release, Pending, Mutating, Locked, IInv, TypeOK
<1>4. UNCHANGED <<products, result, order>>
  BY DEF Release
<1> QED BY <1>1, <1>2, <1>3, <1>4 DEF Promise!Return, Phase, AbstractPhase, Pending

\* Inventory implements AtomicInventory: every call of every thread, however
\* the threads interleave, takes effect or is refused in one step.
THEOREM Atomicity == Spec => ImplementsAtomic
<1>1. Init => Promise!Init
  BY DEF Init, Promise!Init, Mutating, Locked
<1>2. IInv /\ [Next]_vars => [Promise!Next]_(Promise!avars)
  <2> SUFFICES ASSUME IInv, [Next]_vars PROVE [Promise!Next]_(Promise!avars)
    OBVIOUS
  <2> USE DEF Promise!avars, Phase, AbstractPhase, Pending
  <2>1. CASE UNCHANGED vars
    BY <2>1 DEF vars
  <2>2. ASSUME NEW t \in Thread, CallMutation(t) \/ CallLookup(t)
        PROVE [Promise!Next]_(Promise!avars)
    BY <2>2, CallMaps, ReaderMaps DEF Promise!Next
  <2>3. ASSUME NEW t \in Thread, Step(t)
        PROVE [Promise!Next]_(Promise!avars)
    BY <2>3, AcquireMaps, CheckMaps, StoreMaps, ReleaseMaps, ReaderMaps
       DEF Step, Promise!Next
  <2> QED BY <2>1, <2>2, <2>3 DEF Next
<1> QED BY <1>1, <1>2, Inductive, PTL DEF Spec, ImplementsAtomic, Promise!Spec
=============================================================================
