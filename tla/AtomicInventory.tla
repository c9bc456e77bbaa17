-------------------------- MODULE AtomicInventory --------------------------
(* What a caller of neonstore::Inventory relies on: however many threads    *)
(* call it, every mutating call takes effect, or is refused, in ONE step    *)
(* between its invocation and its return.  Module Inventory is shown to     *)
(* implement this specification.                                            *)
EXTENDS Integers

CONSTANTS
    Thread,  \* the threads that share one Inventory object
    Key,     \* product ids, the empty string included
    EmptyId, \* the empty string
    Request, \* the mutating calls: records with op, id, qty, price
    NoRequest, \* request[t] while t is in no mutating call
    IntMax,  \* largest value of the C++ type int
    Absent   \* the value of products[k] when the map has no entry k

VARIABLES
    products, \* the map: key -> [price, stock] or Absent
    phase,    \* phase[t]: "idle", "called" or "done"
    request,  \* request[t]: the call t is in, or NoRequest
    outcome,  \* outcome[t]: how the last call of t ended: "ok" or "error"
    order     \* order[t]: the order the last successful sell of t returned

avars == <<products, phase, request, outcome, order>>

\* Two's complement result of one addition of two ints.
WrapInt(n) == IF n > IntMax THEN n - 2 * (IntMax + 1) ELSE n

\* The calls the header promises to refuse, in the current state of the map.
MustRefuse(r) ==
    \/ r.op = "add" /\ (r.id = EmptyId \/ products[r.id] # Absent)
    \/ r.op # "add" /\ products[r.id] = Absent
    \/ r.op \in {"add", "restock"} /\ r.qty < 0
    \/ r.op \in {"add", "set_price"} /\ r.price < 0
    \/ /\ r.op = "sell"
       /\ r.qty <= 0 \/ (products[r.id] # Absent /\ products[r.id].stock < r.qty)

\* The entry of r.id after the accepted call r.
Updated(r) ==
    CASE r.op = "add"       -> [price |-> r.price, stock |-> r.qty]
      [] r.op = "restock"   -> [products[r.id] EXCEPT !.stock = WrapInt(@ + r.qty)]
      [] r.op = "sell"      -> [products[r.id] EXCEPT !.stock = @ - r.qty]
      [] r.op = "set_price" -> [products[r.id] EXCEPT !.price = r.price]
      [] r.op = "remove"    -> Absent

Init ==
    /\ products = [k \in Key |-> Absent]
    /\ phase = [t \in Thread |-> "idle"]
    /\ request = [t \in Thread |-> NoRequest]
    /\ outcome = [t \in Thread |-> "ok"]
    /\ order = [t \in Thread |-> <<>>]

Invoke(t) ==
    /\ phase[t] = "idle"
    /\ phase' = [phase EXCEPT ![t] = "called"]
    /\ \E r \in Request : request' = [request EXCEPT ![t] = r]
    /\ UNCHANGED <<products, outcome, order>>

Refuse(t) ==
    /\ phase[t] = "called"
    /\ MustRefuse(request[t])
    /\ phase' = [phase EXCEPT ![t] = "done"]
    /\ outcome' = [outcome EXCEPT ![t] = "error"]
    /\ UNCHANGED <<products, request, order>>

Apply(t) ==
    LET r == request[t] IN
    /\ phase[t] = "called"
    /\ ~MustRefuse(r)
    /\ phase' = [phase EXCEPT ![t] = "done"]
    /\ outcome' = [outcome EXCEPT ![t] = "ok"]
    /\ products' = [products EXCEPT ![r.id] = Updated(r)]
    /\ order' = IF r.op = "sell"
                THEN [order EXCEPT ![t] = <<r.id, r.qty, products[r.id].price>>]
                ELSE order
    /\ UNCHANGED request

Return(t) ==
    /\ phase[t] = "done"
    /\ phase' = [phase EXCEPT ![t] = "idle"]
    /\ request' = [request EXCEPT ![t] = NoRequest]
    /\ UNCHANGED <<products, outcome, order>>

Next == \E t \in Thread : Invoke(t) \/ Refuse(t) \/ Apply(t) \/ Return(t)

Spec == Init /\ [][Next]_avars
=============================================================================
