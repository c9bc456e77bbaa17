----------------------------- MODULE Inventory -----------------------------
(* The in-memory Inventory of neonstore (src/src/inventory.cpp), shared by  *)
(* several threads, in the default build (ENABLE_THREADSAFE is ON).         *)
(*                                                                          *)
(* A mutating call takes the object's mutex, evaluates its guards, stores,  *)
(* and releases the mutex on every way out (std::lock_guard).  The load and *)
(* the store of `stock += qty` and `stock -= qty` are two steps, so what    *)
(* the mutex protects is visible.  list_products and find take no mutex.    *)
EXTENDS Integers

CONSTANTS
    Thread,   \* the threads that share the object
    Id,       \* non-empty product ids
    EmptyId,  \* the empty string
    Qty,      \* quantities callers pass (ints, negative ones included)
    Price,    \* prices callers pass (negative ones included)
    IntMax,   \* largest int: 2^31 - 1 in the code, small in the runs
    MaxCalls, \* bound: calls each thread makes
    Nobody,   \* the mutex is free
    NoCall,   \* the thread is in no call
    Absent    \* the map has no entry for the key

CInt == (-IntMax - 1) .. IntMax
Key == Id \cup {EmptyId}
Product == [price : Price, stock : CInt]

Mutation ==
         [op : {"add"}, id : Key, qty : Qty, price : Price]
    \cup [op : {"restock", "sell"}, id : Key, qty : Qty, price : {0}]
    \cup [op : {"set_price"}, id : Key, qty : {0}, price : Price]
    \cup [op : {"remove"}, id : Key, qty : {0}, price : {0}]
Lookup == [op : {"list", "find"}, id : Key, qty : {0}, price : {0}]

ASSUME InventoryAssumption ==
    /\ IntMax \in Nat /\ MaxCalls \in Nat
    /\ Qty \subseteq CInt
    /\ Price \subseteq Int
    /\ EmptyId \notin Id
    /\ Nobody \notin Thread
    /\ NoCall \notin Mutation \cup Lookup
    /\ Absent \notin Product

VARIABLES
    products, \* products_: key -> [price, stock], or Absent
    mutex,    \* mtx_: the thread that holds it, or Nobody
    pc,       \* where each thread is in its call
    call,     \* the call each thread is in
    loaded,   \* the stock a restock or sell has read and not yet stored
    result,   \* how the last mutating call of each thread ended
    misread,  \* the threads whose lookup ran into freed or rehashed memory
    order,    \* the order the last successful sell of each thread returned
    stale,    \* stale[t]: the map changed shape under what t is reading
    calls,    \* number of calls each thread has made
    inflow,   \* history: units put into the current entry by add and restock
    outflow   \* history: units taken from the current entry by sell

vars == <<products, mutex, pc, call, loaded, result, order, stale, misread,
          calls, inflow, outflow>>
history == <<inflow, outflow>>

\* pc values of a thread inside a mutating call, and inside its locked region.
Locked == {"check", "store", "unlock"}
Mutating == Locked \cup {"lock"}
Reading == {"walk", "hold"}

\* Mutant of Wrap: the sum is kept whatever its width.
WrapWide(n) == n

\* Two's complement result of `stock += qty`.
Wrap(n) == IF n > IntMax THEN n - 2 * (IntMax + 1) ELSE n

Init ==
    /\ products = [k \in Key |-> Absent]
    /\ mutex = Nobody
    /\ pc = [t \in Thread |-> "idle"]
    /\ call = [t \in Thread |-> NoCall]
    /\ loaded = [t \in Thread |-> 0]
    /\ result = [t \in Thread |-> "ok"]
    /\ order = [t \in Thread |-> <<>>]
    /\ stale = [t \in Thread |-> FALSE]
    /\ misread = {}
    /\ calls = [t \in Thread |-> 0]
    /\ inflow = [k \in Key |-> 0]
    /\ outflow = [k \in Key |-> 0]

Enter(t, where, r) ==
    /\ pc[t] = "idle"
    /\ calls[t] < MaxCalls
    /\ calls' = [calls EXCEPT ![t] = @ + 1]
    /\ pc' = [pc EXCEPT ![t] = where]
    /\ call' = [call EXCEPT ![t] = r]
    /\ stale' = [stale EXCEPT ![t] = FALSE]
    /\ UNCHANGED <<products, mutex, loaded, result, order, misread, history>>

\* A mutating call begins; its first statement constructs the lock_guard.
CallMutation(t) == \E r \in Mutation : Enter(t, "lock", r)

\* list_products and find go straight to the map.
CallLookup(t) == \E r \in Lookup : Enter(t, "walk", r)

\* Mutant of Acquire: the thread does not wait for the mutex.
AcquireAnyway(t) ==
    /\ pc[t] = "lock"
    /\ mutex' = t
    /\ pc' = [pc EXCEPT ![t] = "check"]
    /\ UNCHANGED <<products, call, loaded, result, order, stale, misread, calls, history>>

Acquire(t) ==
    /\ pc[t] = "lock"
    /\ mutex = Nobody
    /\ mutex' = t
    /\ pc' = [pc EXCEPT ![t] = "check"]
    /\ UNCHANGED <<products, call, loaded, result, order, stale, misread, calls, history>>

\* Mutant of Throws: sell's comparison is off by one.
ThrowsLate(m, r) ==
    CASE r.op = "add" -> r.id = EmptyId \/ m[r.id] # Absent \/ r.price < 0 \/ r.qty < 0
      [] r.op = "restock" -> r.qty < 0 \/ m[r.id] = Absent
      [] r.op = "sell" -> r.qty <= 0 \/ m[r.id] = Absent \/ m[r.id].stock < r.qty - 1
      [] r.op = "set_price" -> r.price < 0 \/ m[r.id] = Absent
      [] r.op = "remove" -> m[r.id] = Absent

\* The conditions under which the locked region throws, for the map m.
Throws(m, r) ==
    CASE r.op = "add" ->
            \/ r.id = EmptyId
            \/ m[r.id] # Absent
            \/ r.price < 0
            \/ r.qty < 0
      [] r.op = "restock" -> r.qty < 0 \/ m[r.id] = Absent
      [] r.op = "sell" ->
            \/ r.qty <= 0
            \/ m[r.id] = Absent
            \/ m[r.id].stock < r.qty
      [] r.op = "set_price" -> r.price < 0 \/ m[r.id] = Absent
      [] r.op = "remove" -> m[r.id] = Absent

Check(t) ==
    LET r == call[t] IN
    /\ pc[t] = "check"
    /\ IF Throws(products, r)
       THEN /\ pc' = [pc EXCEPT ![t] = "unlock"]
            /\ result' = [result EXCEPT ![t] = "error"]
            /\ UNCHANGED loaded
       ELSE /\ pc' = [pc EXCEPT ![t] = "store"]
            /\ loaded' = [loaded EXCEPT ![t] =
                            IF r.op \in {"restock", "sell"}
                            THEN products[r.id].stock ELSE 0]
            /\ UNCHANGED result
    /\ UNCHANGED <<products, mutex, call, order, stale, misread, calls, history>>

Stored(t) ==
    /\ pc[t] = "store"
    /\ pc' = [pc EXCEPT ![t] = "unlock"]
    /\ result' = [result EXCEPT ![t] = "ok"]
    /\ loaded' = [loaded EXCEPT ![t] = 0]
    /\ UNCHANGED <<mutex, call, misread, calls>>

\* emplace: the table may rehash under a thread that is walking it.
AddProduct(t) ==
    LET r == call[t] IN
    /\ Stored(t) /\ r.op = "add"
    /\ products' = [products EXCEPT ![r.id] = [price |-> r.price, stock |-> r.qty]]
    /\ stale' = [u \in Thread |-> stale[u] \/ pc[u] = "walk"]
    /\ inflow' = [inflow EXCEPT ![r.id] = r.qty]
    /\ outflow' = [outflow EXCEPT ![r.id] = 0]
    /\ UNCHANGED order

Restock(t) ==
    LET r == call[t] IN
    /\ Stored(t) /\ r.op = "restock"
    /\ products' = [products EXCEPT ![r.id].stock = Wrap(loaded[t] + r.qty)]
    /\ inflow' = [inflow EXCEPT ![r.id] = @ + r.qty]
    /\ UNCHANGED <<order, stale, outflow>>

\* The order is built from the entry after the store, still under the mutex.
Sell(t) ==
    LET r == call[t] IN
    /\ Stored(t) /\ r.op = "sell"
    /\ products' = [products EXCEPT ![r.id].stock = loaded[t] - r.qty]
    /\ order' = [order EXCEPT ![t] = <<r.id, r.qty, products[r.id].price>>]
    /\ outflow' = [outflow EXCEPT ![r.id] = @ + r.qty]
    /\ UNCHANGED <<stale, inflow>>

\* erase: the entry is freed under a thread that walks the table or that
\* keeps the pointer find returned for it.
RemoveProduct(t) ==
    LET r == call[t] IN
    /\ Stored(t) /\ r.op = "remove"
    /\ products' = [products EXCEPT ![r.id] = Absent]
    /\ stale' = [u \in Thread |-> \/ stale[u]
                                  \/ pc[u] = "walk"
                                  \/ pc[u] = "hold" /\ call[u].id = r.id]
    /\ inflow' = [inflow EXCEPT ![r.id] = 0]
    /\ outflow' = [outflow EXCEPT ![r.id] = 0]
    /\ UNCHANGED order

SetPrice(t) ==
    LET r == call[t] IN
    /\ Stored(t) /\ r.op = "set_price"
    /\ products' = [products EXCEPT ![r.id].price = r.price]
    /\ UNCHANGED <<order, stale, history>>

\* Mutant of Release: a throw leaves the call without unlocking.
ReleaseUnlessThrown(t) ==
    /\ pc[t] = "unlock"
    /\ mutex' = IF result[t] = "error" THEN mutex ELSE Nobody
    /\ pc' = [pc EXCEPT ![t] = "idle"]
    /\ call' = [call EXCEPT ![t] = NoCall]
    /\ UNCHANGED <<products, loaded, result, order, stale, misread, calls, history>>

\* ~lock_guard, on a normal return and while a throw unwinds.
Release(t) ==
    /\ pc[t] = "unlock"
    /\ mutex' = Nobody
    /\ pc' = [pc EXCEPT ![t] = "idle"]
    /\ call' = [call EXCEPT ![t] = NoCall]
    /\ UNCHANGED <<products, loaded, result, order, stale, misread, calls, history>>

Finish(t) ==
    /\ pc' = [pc EXCEPT ![t] = "idle"]
    /\ call' = [call EXCEPT ![t] = NoCall]
    /\ misread' = IF stale[t] THEN misread \cup {t} ELSE misread
    /\ UNCHANGED <<products, mutex, loaded, result, order, stale, calls, history>>

\* The copy loop of list_products reaches the end of the table.
ListProducts(t) ==
    /\ pc[t] = "walk" /\ call[t].op = "list"
    /\ Finish(t)

\* find returns nullptr, or a pointer into the map its caller keeps.
Find(t) ==
    /\ pc[t] = "walk" /\ call[t].op = "find"
    /\ IF stale[t] \/ products[call[t].id] = Absent
       THEN Finish(t)
       ELSE /\ pc' = [pc EXCEPT ![t] = "hold"]
            /\ UNCHANGED <<products, mutex, call, loaded, result, order, stale,
                           misread, calls, history>>

\* The caller of find reads through the pointer.
Dereference(t) ==
    /\ pc[t] = "hold"
    /\ Finish(t)

Step(t) ==
    \/ Acquire(t) \/ Check(t)
    \/ AddProduct(t) \/ Restock(t) \/ Sell(t) \/ RemoveProduct(t) \/ SetPrice(t)
    \/ Release(t)
    \/ ListProducts(t) \/ Find(t) \/ Dereference(t)

Next == \E t \in Thread : CallMutation(t) \/ CallLookup(t) \/ Step(t)

Spec == Init /\ [][Next]_vars

\* A thread inside a call keeps running; std::mutex promises no order among
\* the threads that wait, so nothing stronger than weak fairness is assumed.
FairSpec == Spec /\ \A t \in Thread : WF_vars(Step(t))

-----------------------------------------------------------------------------
\* Types of all variables.
TypeOK ==
    /\ products \in [Key -> Product \cup {Absent}]
    /\ mutex \in Thread \cup {Nobody}
    /\ pc \in [Thread -> Mutating \cup Reading \cup {"idle"}]
    /\ call \in [Thread -> Mutation \cup Lookup \cup {NoCall}]
    /\ loaded \in [Thread -> CInt]
    /\ result \in [Thread -> {"ok", "error"}]
    /\ order \in [Thread -> {<<>>} \cup (Key \X Qty \X Price)]
    /\ stale \in [Thread -> BOOLEAN]
    /\ misread \subseteq Thread
    /\ calls \in [Thread -> 0 .. MaxCalls]
    /\ inflow \in [Key -> Nat]
    /\ outflow \in [Key -> Nat]

\* Stock conservation (add_product, restock, sell): as long as the units that
\* ever entered an entry fit into an int, its stock is exactly what entered
\* less what was sold, so no interleaving loses a restock or oversells.
StockConserved ==
    \A k \in Key :
        products[k] # Absent /\ inflow[k] <= IntMax =>
            /\ products[k].stock = inflow[k] - outflow[k]
            /\ outflow[k] <= inflow[k]

\* What the inductive proof adds to TypeOK and StockConserved.
CallInv ==
    \A t \in Thread :
        /\ pc[t] \in Mutating => call[t] \in Mutation
        /\ pc[t] \in Reading => call[t] \in Lookup
MutexInv == \A t \in Thread : pc[t] \in Locked => mutex = t
\* What a thread has checked and read stays true until it stores.
CheckedInv ==
    \A t \in Thread :
        pc[t] = "store" =>
            /\ ~Throws(products, call[t])
            /\ call[t].op \in {"restock", "sell"} =>
                    loaded[t] = products[call[t].id].stock
IInv == TypeOK /\ CallInv /\ MutexInv /\ CheckedInv /\ StockConserved

\* Every call returns (lock_guard releases the mutex on the throwing paths
\* too, so nobody waits for a mutex that no running call holds).
CallsReturn == \A t \in Thread : pc[t] # "idle" ~> pc[t] = "idle"

\* The inventory implements AtomicInventory: a mutating call is "called" until
\* its store, or its failing check, and "done" from there to the release.
Promise == INSTANCE AtomicInventory WITH
    Request <- Mutation,
    NoRequest <- NoCall,
    phase <- [t \in Thread |->
                CASE pc[t] \in {"lock", "check", "store"} -> "called"
                  [] pc[t] = "unlock" -> "done"
                  [] OTHER -> "idle"],
    request <- [t \in Thread |-> IF pc[t] \in Mutating THEN call[t] ELSE NoCall],
    outcome <- result

\* Each concurrent call behaves as one atomic step of the promised inventory.
ImplementsAtomic == Promise!Spec

\* CHANGELOG.md:139 says the Inventory is guarded by a mutex for thread safety:
\* no call of list_products or find would read memory another thread freed or
\* rehashed.  Does not hold: the two functions take no mutex.
ReadsAreDefined == misread = {}
=============================================================================
