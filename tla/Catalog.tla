------------------------------ MODULE Catalog -------------------------------
(* What the commands that rewrite a whole dataset compute: patch apply,     *)
(* batch apply, merge, dedupe orders, policy enforce and redact, over two   *)
(* directories, one of which may be the other's --dir2 or --out.            *)
(*                                                                          *)
(* Products are saved by one rename.  Merge, dedupe and policy enforce go   *)
(* through atomic_write_dataset, which installs the products, leaves the    *)
(* orders to `txn recover` and keeps its lock (see DatasetTxn); a rename    *)
(* that fails leaves both files to it and gives the lock back.  Names of    *)
(* products are left out, and --dry-run, which changes nothing.             *)
EXTENDS Integers, Sequences, SequencesExt, FiniteSetsExt, TLC

CONSTANTS
    Dir,          \* two dataset directories
    Datasets,     \* [prod, ord] that may stand there at first
    Policies,     \* [floor, ceil, qty] of policy.ini, 0 for no bound; qty is the first
                  \* character of its value and the number the others read as
    Batches,      \* batch files: sequences of [op, id, to]
    Printed(_),   \* a price with the six digits an ostream prints
    Fixed(_),     \* a price with the six decimals of to_string
    Hashed(_),    \* the id that redact --ids hash puts in place of one
    None,
    MaxCommands   \* bound on the commands of a behaviour

\* A saved row has a price with six digits and a stock.
Stored(p) == [id \in DOMAIN p |-> [price |-> Printed(p[id].price), stock |-> p[id].stock]]

\* The lines of an order, [product, qty, price]; a file shows an order only if
\* it has lines.
Products(items) == {items[i].product : i \in DOMAIN items}
Lines(items) == items \in Seq([product : Products(items), qty : Int, price : Int])

\* What stands in a file was printed: products and items with their prices.
ASSUME CatalogAssumption ==
    /\ \A s \in Datasets : Stored(s.prod) = s.prod /\ \A x \in DOMAIN s.ord : Lines(s.ord[x]) /\ s.ord[x] # <<>>
    /\ \A p \in Policies : p.floor \in Int /\ p.ceil \in Int /\ p.qty.rest \in Int
    /\ \A b \in Batches : Len(b) \in Nat
    /\ MaxCommands \in Nat

VARIABLES
    prod,   \* prod[d]: products.csv, [price, stock] by id
    ord,    \* ord[d]: orders.csv, sequences of [product, qty, price] by order id
    new,    \* new[d]: products.csv.new and orders.csv.new of a pending journal
    lock,   \* the directories with a .neonstore/writelock
    patch,  \* the patch file `diff --output patch` wrote last
    policy, \* policy.ini
    was,    \* history: what the last command on d found, while its effect stands
    n       \* commands so far

vars == <<prod, ord, new, lock, patch, policy, was, n>>

-----------------------------------------------------------------------------
(* Sums that the commands report or check                                   *)
\* The first k of the numbers f, added up one by one.
SumTo(f, k) == LET sum[i \in 0 .. k] == IF i = 0 THEN 0 ELSE sum[i - 1] + f[i] IN sum[k]

\* Order::total.
Total(items) == SumTo([i \in DOMAIN items |-> items[i].price * items[i].qty], Len(items))

\* compute_fp_all hashes the products and, of each order, id and total only.
Fingerprint(p, o) ==
    [products |-> [id \in DOMAIN p |-> [p[id] EXCEPT !.price = Fixed(@)]],
     orders |-> [x \in DOMAIN o |-> Total(o[x])]]

\* seal verify, with the fingerprint that seal create has stored.
SealVerify(seal, p, o) == seal = Fingerprint(p, o)

\* report sales: units and revenue of each product.
Qty(items, id) ==
    SumTo([i \in DOMAIN items |-> IF items[i].product = id THEN items[i].qty ELSE 0], Len(items))
Revenue(items, id) ==
    SumTo([i \in DOMAIN items |-> IF items[i].product = id THEN items[i].price * items[i].qty ELSE 0], Len(items))
Ordered(o) == UNION {Products(o[x]) : x \in DOMAIN o}
SumOver(f) == MapThenSumSet(LAMBDA x : f[x], DOMAIN f)
Sales(o) ==
    [id \in Ordered(o) |->
        [qty |-> SumOver([x \in DOMAIN o |-> Qty(o[x], id)]),
         revenue |-> SumOver([x \in DOMAIN o |-> Revenue(o[x], id)])]]

\* doctor checkup: no item without its product, no quantity below one.
Checkup(s) == Ordered(s.ord) \subseteq DOMAIN s.prod
              /\ \A x \in DOMAIN s.ord : \A i \in DOMAIN s.ord[x] : s.ord[x][i].qty > 0

-----------------------------------------------------------------------------
(* diff and patch                                                           *)
\* diff --output patch: a `+`, `-` or `~` for every product that differs.
Patch(a, b) ==
    LET row(id) == [b[id] EXCEPT !.price = Fixed(@)]
    IN [from |-> a, to |-> b,
        add |-> [id \in DOMAIN b \ DOMAIN a |-> row(id)],
        del |-> DOMAIN a \ DOMAIN b,
        mod |-> [id \in {i \in DOMAIN a \cap DOMAIN b : a[i] # b[i]} |-> row(id)]]

\* vdiff says of two catalogs that no product was added, removed or changed.
SameProducts(a, b) ==
    /\ DOMAIN b \ DOMAIN a = {} /\ DOMAIN a \ DOMAIN b = {}
    /\ \A id \in DOMAIN a \cap DOMAIN b : a[id].price = b[id].price /\ a[id].stock = b[id].stock

-----------------------------------------------------------------------------
(* Lists of items                                                           *)
\* A std::map of slots: the first line of a product makes one, the next ones
\* add their units to it.
Join(slots, it) ==
    [id \in DOMAIN slots \cup {it.product} |->
        IF id \notin DOMAIN slots THEN it
        ELSE [product |-> slots[id].product, price |-> slots[id].price,
              qty |-> slots[id].qty + IF id = it.product THEN it.qty ELSE 0]]
Joined(slots, items) ==
    LET after[i \in 0 .. Len(items)] == IF i = 0 THEN slots ELSE Join(after[i - 1], items[i])
    IN after[Len(items)]

\* One slot for each product, written by each of its lines: the last one stays.
LastLines(items) ==
    [id \in Products(items) |-> items[Max({i \in DOMAIN items : items[i].product = id})]]

Items(slots) == LET ids == SetToSeq(DOMAIN slots) IN [i \in DOMAIN ids |-> slots[ids[i]]]

Deduped(items) == Items(Joined(<<>>, items))

\* Mutant of MergedItems: what both have is counted once.
MergedItemsOnce(l, r) == Items(LastLines(l \o r))

MergedItems(l, r) == Items(Joined(LastLines(l), r))

MergedOrders(l, r) ==
    [x \in DOMAIN l \cup DOMAIN r |->
        IF x \notin DOMAIN l THEN r[x] ELSE IF x \notin DOMAIN r THEN l[x] ELSE MergedItems(l[x], r[x])]

Strategies == {"prefer-dir1", "prefer-dir2", "safest"}
MergedProduct(p1, p2, strategy) ==
    CASE strategy = "prefer-dir1" -> p1
      [] strategy = "prefer-dir2" -> p2
      [] OTHER -> [price |-> Min({p1.price, p2.price}), stock |-> Max({p1.stock, p2.stock})]
MergedProducts(l, r, strategy) ==
    [id \in DOMAIN l \cup DOMAIN r |->
        IF id \notin DOMAIN l THEN r[id] ELSE IF id \notin DOMAIN r THEN l[id]
        ELSE MergedProduct(l[id], r[id], strategy)]

-----------------------------------------------------------------------------
(* policy.ini                                                               *)
\* The key max_order_item_qty= has 19 characters, and the value is read from
\* character 20 on: its first digit is dropped.  Nothing left: no bound.
MaxQty == policy.qty.rest

\* Mutant of Clamp: the floor only.
ClampFloor(price) == Max({price, policy.floor})

Clamp(price) ==
    LET x == IF policy.floor > 0 /\ price < policy.floor THEN policy.floor ELSE price
    IN IF policy.ceil > 0 /\ x > policy.ceil THEN policy.ceil ELSE x
ClampQty(qty) == IF MaxQty > 0 /\ qty > MaxQty THEN MaxQty ELSE qty
Clamped(it) == [product |-> it.product, qty |-> ClampQty(it.qty), price |-> it.price]

\* policy check finds no violation.
PolicyCheck(p, o) ==
    /\ \A id \in DOMAIN p :
        /\ ~(policy.floor > 0 /\ p[id].price < policy.floor)
        /\ ~(policy.ceil > 0 /\ p[id].price > policy.ceil)
    /\ MaxQty > 0 => \A x \in DOMAIN o : \A i \in DOMAIN o[x] : ~(o[x][i].qty > MaxQty)

-----------------------------------------------------------------------------
Init ==
    /\ \E s \in [Dir -> Datasets] :
        prod = [d \in Dir |-> s[d].prod] /\ ord = [d \in Dir |-> s[d].ord]
    /\ new = [d \in Dir |-> None] /\ lock = {}
    /\ patch = None /\ policy \in Policies
    /\ was = [d \in Dir |-> None] /\ n = 0

Found(cmd, d, e) ==
    [cmd |-> cmd, prod |-> prod[d], ord |-> ord[d], with |-> [prod |-> prod[e], ord |-> ord[e]]]
Remember(d, history) == was' = [was EXCEPT ![d] = history]

Save(d, p) == prod' = [prod EXCEPT ![d] = Stored(p)]

\* atomic_write_dataset: the products are renamed into place, or the rename
\* fails; a lock that is there turns the command away.
AtomicWrite(d, p, o, history) ==
    /\ d \notin lock
    /\ \/ /\ Save(d, p)
          /\ new' = [new EXCEPT ![d] = [prod |-> None, ord |-> o]]
          /\ lock' = lock \cup {d}
       \/ /\ new' = [new EXCEPT ![d] = [prod |-> Stored(p), ord |-> o]]
          /\ UNCHANGED <<prod, lock>>
    /\ Remember(d, history)
    /\ UNCHANGED <<ord, patch, policy>>

Merge(d, e) ==
    \E s \in Strategies :
        AtomicWrite(d, MergedProducts(prod[d], prod[e], s), MergedOrders(ord[d], ord[e]),
                    Found("merge", d, e))

DedupeOrders(d) ==
    AtomicWrite(d, prod[d], [x \in DOMAIN ord[d] |-> Deduped(ord[d][x])], Found("dedupe", d, d))

PolicyEnforce(d) ==
    AtomicWrite(d, [id \in DOMAIN prod[d] |-> [prod[d][id] EXCEPT !.price = Clamp(@)]],
                [x \in DOMAIN ord[d] |->
                    [i \in DOMAIN ord[d][x] |-> Clamped(ord[d][x][i])]],
                Found("enforce", d, d))

\* txn recover installs what is there of the two files and drops the journal.
Recover(d) ==
    /\ new[d] # None
    /\ prod' = [prod EXCEPT ![d] = IF new[d].prod = None THEN @ ELSE new[d].prod]
    /\ ord' = [ord EXCEPT ![d] = new[d].ord]
    /\ new' = [new EXCEPT ![d] = None]
    /\ Remember(d, IF was[d] # None /\ was[d].cmd \in {"merge", "dedupe", "enforce"} THEN was[d] ELSE None)
    /\ UNCHANGED <<lock, patch, policy>>

Diff(d, e) ==
    /\ patch' = Patch(prod[d], prod[e])
    /\ UNCHANGED <<prod, ord, new, lock, policy, was>>

\* The catalog c when every row of the patch p was followed.
Patched(p, c) ==
    [id \in DOMAIN p.mod \cup DOMAIN p.add \cup (DOMAIN c \ p.del) |->
        IF id \in DOMAIN p.mod THEN p.mod[id] ELSE IF id \in DOMAIN p.add THEN p.add[id] ELSE c[id]]

\* Mutant of PatchApply: rows of `~` are taken for additions and refused.
PatchApplyNoMod(d) ==
    /\ patch # None
    /\ DOMAIN patch.add \cap DOMAIN prod[d] = {} /\ patch.del \subseteq DOMAIN prod[d]
    /\ Save(d, patch.add @@ [id \in DOMAIN prod[d] \ patch.del |-> prod[d][id]])
    /\ Remember(d, [cmd |-> "patch", patch |-> patch])
    /\ UNCHANGED <<ord, new, lock, patch, policy>>

\* A row that adds a product that is there, or removes or changes one that is
\* not, ends the command before it saves.
PatchApply(d) ==
    /\ patch # None
    /\ DOMAIN patch.add \cap DOMAIN prod[d] = {}
    /\ patch.del \cup DOMAIN patch.mod \subseteq DOMAIN prod[d]
    /\ Save(d, Patched(patch, prod[d]))
    /\ Remember(d, [cmd |-> "patch", patch |-> patch])
    /\ UNCHANGED <<ord, new, lock, patch, policy>>

Added(p, op) == [id \in DOMAIN p \cup {op.id} |-> IF id = op.id THEN op.to ELSE p[id]]

\* Mutant of Applied: set-stock adds to the stock.
AppliedTwice(p, op) ==
    CASE op.op = "add-product" -> IF op.id \in DOMAIN p THEN None ELSE Added(p, op)
      [] op.op = "set-price" -> IF op.id \notin DOMAIN p THEN None ELSE [p EXCEPT ![op.id].price = op.to]
      [] op.op = "set-stock" -> IF op.id \notin DOMAIN p THEN None ELSE [p EXCEPT ![op.id].stock = @ + op.to]
      [] OTHER -> p

\* One line of a batch; None: it throws.  An operation nobody knows is skipped.
Applied(p, op) ==
    CASE op.op = "add-product" -> IF op.id \in DOMAIN p THEN None ELSE Added(p, op)
      [] op.op = "set-price" -> IF op.id \notin DOMAIN p THEN None ELSE [p EXCEPT ![op.id].price = op.to]
      [] op.op = "set-stock" -> IF op.id \notin DOMAIN p THEN None ELSE [p EXCEPT ![op.id].stock = op.to]
      [] OTHER -> p

\* The catalog after a whole batch; None: a line threw, and nothing is saved.
Ran(p, batch) ==
    LET after[i \in 0 .. Len(batch)] ==
            IF i = 0 THEN p ELSE IF after[i - 1] = None THEN None ELSE Applied(after[i - 1], batch[i])
    IN after[Len(batch)]

\* applied.log, by which an op_id is known to be done, is read but never
\* written: every line is applied.
BatchApply(d, batch) ==
    /\ Ran(prod[d], batch) # None
    /\ Save(d, Ran(prod[d], batch))
    /\ Remember(d, [cmd |-> "batch", batch |-> batch])
    /\ UNCHANGED <<ord, new, lock, patch, policy>>

\* The line it, of a product that may be listed.
Hash(it, listed) ==
    [product |-> IF it.product \in listed THEN Hashed(it.product) ELSE it.product,
     qty |-> it.qty, price |-> it.price]
HashedOrders(o, listed) == [x \in DOMAIN o |-> [i \in DOMAIN o[x] |-> Hash(o[x][i], listed)]]

\* redact --ids hash into another directory; an id that is not listed is not
\* in the map, and stays.  Two ids with one hash end the command.
Redact(d, e) ==
    LET of(h) == CHOOSE id \in DOMAIN prod[d] : Hashed(id) = h
    IN /\ \A a, b \in DOMAIN prod[d] : Hashed(a) = Hashed(b) => a = b
       /\ Save(e, [h \in {Hashed(id) : id \in DOMAIN prod[d]} |-> prod[d][of(h)]])
       /\ ord' = [ord EXCEPT ![e] = HashedOrders(ord[d], DOMAIN prod[d])]
       /\ Remember(e, Found("redact", d, d))
       /\ UNCHANGED <<new, lock, patch, policy>>

Command ==
    \E d \in Dir :
        \/ \E e \in Dir \ {d} : Merge(d, e) \/ Diff(d, e) \/ Redact(d, e)
        \/ DedupeOrders(d) \/ PolicyEnforce(d) \/ Recover(d) \/ PatchApply(d)
        \/ \E b \in Batches : BatchApply(d, b)

Next == n < MaxCommands /\ n' = n + 1 /\ Command

Spec == Init /\ [][Next]_vars

-----------------------------------------------------------------------------
\* A command of its own has taken effect as a whole, and nothing since.
Completed(d, cmd) == was[d] # None /\ was[d].cmd = cmd /\ new[d] = None

NoLineTwice(items) == \A i, j \in DOMAIN items : items[i].product = items[j].product => i = j
OnePrice(items) ==
    \A i, j \in DOMAIN items : items[i].product = items[j].product => items[i].price = items[j].price
Sold(o, x, id) == IF x \in DOMAIN o THEN Qty(o[x], id) ELSE 0

\* docs/MERGE_DATASETS.md:8: of each product of each order as many units are in
\* the merged dataset p, o as in both of w, if the left one has no line twice;
\* and every product that was listed on either side is.  If doctor approved of
\* both it approves of the result.
Merged(w, p, o) ==
    LET l == w.ord
        r == w.with.ord
    IN /\ DOMAIN p = DOMAIN w.prod \cup DOMAIN w.with.prod
       /\ DOMAIN o = DOMAIN l \cup DOMAIN r
       /\ \A x \in DOMAIN o, id \in Ordered(l) \cup Ordered(r) :
            (x \in DOMAIN l => NoLineTwice(l[x])) => Sold(o, x, id) = Sold(l, x, id) + Sold(r, x, id)
       /\ Checkup(w) /\ Checkup(w.with) => Checkup([prod |-> p, ord |-> o])

\* docs/DEDUPE.md:4: no line is there twice, and the units are the same; where
\* lines of one product have one price a seal made before still verifies.
Orderly(w, p, o) ==
    /\ \A x \in DOMAIN o : NoLineTwice(o[x])
    /\ \A x \in DOMAIN w.ord, id \in Ordered(w.ord) : Sold(o, x, id) = Sold(w.ord, x, id)
    /\ (\A x \in DOMAIN w.ord : OnePrice(w.ord[x])) => SealVerify(Fingerprint(w.prod, w.ord), p, o)

\* The sales of every product are those of its hashed namesake, if what was
\* ordered and is not listed is not called like one.
Redacted(w, o) ==
    (\A q \in Ordered(w.ord) \ DOMAIN w.prod : \A id \in DOMAIN w.prod : q # Hashed(id)) =>
        \A id \in DOMAIN w.prod \cap Ordered(w.ord) : Sales(o)[Hashed(id)] = Sales(w.ord)[id]

\* What is merged, deduped or redacted has neither lost nor gained a unit, for
\* each command whose write was completed, by itself or by recovery, in however
\* many attempts.
NothingLost ==
    \A d \in Dir :
        /\ Completed(d, "merge") => Merged(was[d], prod[d], ord[d])
        /\ Completed(d, "dedupe") => Orderly(was[d], prod[d], ord[d])
        /\ Completed(d, "redact") => Redacted(was[d], ord[d])

\* docs/POLICY_ENFORCE.md:3: what policy enforce has clamped passes policy
\* check, if the bounds do not exclude each other and can be printed.
EnforceThenCheck ==
    \A d \in Dir :
        Completed(d, "enforce") /\ (policy.ceil = 0 \/ policy.floor <= policy.ceil)
        /\ Printed(policy.floor) = policy.floor /\ Printed(policy.ceil) = policy.ceil
            => PolicyCheck(prod[d], ord[d])

\* Applied to the catalog it was made from, a patch makes the one it was made
\* for, as vdiff sees it (a price with more decimals than a patch shows arrives
\* as the patch shows it); applied again it is refused or changes nothing.
PatchMakesRight ==
    [][\A d \in Dir : PatchApply(d) =>
        /\ prod[d] = patch.from =>
            /\ DOMAIN prod'[d] = DOMAIN patch.to
            /\ (\A id \in DOMAIN patch.to : Printed(Fixed(patch.to[id].price)) = patch.to[id].price) =>
                    SameProducts(prod'[d], patch.to)
        /\ was[d] # None /\ was[d].cmd = "patch" /\ was[d].patch = patch => prod'[d] = prod[d]]_vars

\* CHANGELOG.md:319: a batch applied again to what it has made is refused or
\* changes nothing.
BatchRetryHarmless ==
    [][\A d \in Dir : was[d] # None /\ was[d].cmd = "batch" =>
          (BatchApply(d, was[d].batch) => prod'[d] = prod[d])]_vars
=============================================================================
