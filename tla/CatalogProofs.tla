---------------------------- MODULE CatalogProofs ----------------------------
(* Theorems about Catalog for any two or more directories, whatever stands  *)
(* there, every policy, patch and batch, and any number of commands.  How a *)
(* price is printed is left open, but for this.                             *)
EXTENDS Catalog, FiniteSetTheorems, WellFoundedInduction, TLAPS

\* What was printed and read back is printed in the same way.
PrintsAgain == \A price : Printed(Printed(price)) = Printed(price)

-----------------------------------------------------------------------------
(* The invariant                                                             *)
Maps == /\ prod = [d \in Dir |-> prod[d]]
        /\ new = [d \in Dir |-> new[d]]
        /\ was = [d \in Dir |-> was[d]]
        /\ ord = [d \in Dir |-> ord[d]]
        /\ policy \in Policies

\* Every products.csv, installed or pending, was saved.
Printouts == \A d \in Dir :
    /\ prod[d] = Stored(prod[d])
    /\ new[d] # None /\ new[d].prod # None => new[d].prod = Stored(new[d].prod)

\* A patch tells two catalogs that were saved.
IsPatch(p) == p = Patch(p.from, p.to) /\ p.from = Stored(p.from) /\ p.to = Stored(p.to)

\* The catalog c has what the patch p adds and changes and not what it deletes.
Holds(p, c) ==
    /\ DOMAIN p.add \subseteq DOMAIN c
    /\ p.del \cap DOMAIN c = {}
    /\ \A id \in DOMAIN p.mod : id \in DOMAIN c /\ c[id] = Stored(p.mod)[id]

Patches ==
    /\ patch # None => IsPatch(patch)
    /\ \A d \in Dir : was[d] # None /\ was[d].cmd = "patch" =>
            IsPatch(was[d].patch) /\ Holds(was[d].patch, prod[d])

IInv == Maps /\ Printouts /\ Patches

\* The bounds of the policy b can be met and can be printed.
Sound(b) ==
    /\ b.ceil = 0 \/ b.floor <= b.ceil
    /\ Printed(b.floor) = b.floor /\ Printed(b.ceil) = b.ceil

PricesFit(b, p) == \A id \in DOMAIN p :
    ~(b.floor > 0 /\ p[id].price < b.floor) /\ ~(b.ceil > 0 /\ p[id].price > b.ceil)
QtysFit(b, o) ==
    b.qty.rest > 0 => \A x \in DOMAIN o : \A i \in DOMAIN o[x] : ~(o[x][i].qty > b.qty.rest)

\* What policy enforce has clamped is in place, or is what recovery will
\* install: of a directory with history w, pending j, products p and orders o.
EnforcedAt(b, w, j, p, o) ==
    w # None /\ w.cmd = "enforce" =>
        /\ j = None => PricesFit(b, p) /\ QtysFit(b, o)
        /\ j # None => PricesFit(b, IF j.prod = None THEN p ELSE j.prod) /\ QtysFit(b, j.ord)
Enforced ==
    Sound(policy) => \A d \in Dir : EnforcedAt(policy, was[d], new[d], prod[d], ord[d])

-----------------------------------------------------------------------------
(* Saved catalogs                                                            *)
LEMMA StoredFacts ==
    ASSUME NEW p
    PROVE  /\ DOMAIN Stored(p) = DOMAIN p
           /\ \A id \in DOMAIN p : /\ Stored(p)[id] = [price |-> Printed(p[id].price), stock |-> p[id].stock]
                                   /\ Stored(p)[id].price = Printed(p[id].price)
                                   /\ Stored(p)[id].stock = p[id].stock
  BY DEF Stored

LEMMA StoredTwice == ASSUME PrintsAgain, NEW p PROVE Stored(Stored(p)) = Stored(p)
<1>1. ASSUME NEW id \in DOMAIN p PROVE Printed(Stored(p)[id].price) = Stored(p)[id].price
  <2>1. Stored(p)[id].price = Printed(p[id].price)
    BY StoredFacts
  <2> QED BY <2>1 DEF PrintsAgain
<1> QED BY <1>1, StoredFacts DEF Stored

\* A row of a catalog that was saved.
LEMMA SavedRow ==
    ASSUME NEW p, p = Stored(p), NEW id \in DOMAIN p
    PROVE  p[id] = [price |-> p[id].price, stock |-> p[id].stock] /\ Printed(p[id].price) = p[id].price
<1>1. p[id] = [price |-> Printed(p[id].price), stock |-> p[id].stock]
  BY StoredFacts
<1>2. p[id].price = Printed(p[id].price)
  BY <1>1
<1> QED BY <1>1, <1>2

\* What a command that saves p in d leaves behind.
LEMMA SavePrints ==
    ASSUME PrintsAgain, IInv, NEW d \in Dir, NEW p,
           prod' = [prod EXCEPT ![d] = Stored(p)], UNCHANGED <<new, policy>>
    PROVE  Printouts' /\ prod' = [x \in Dir |-> prod'[x]] /\ prod'[d] = Stored(p)
                      /\ \A x \in Dir \ {d} : prod'[x] = prod[x]
<1>1. prod = [x \in Dir |-> prod[x]]
  BY DEF IInv, Maps
<1>2. /\ prod'[d] = Stored(p) /\ \A x \in Dir \ {d} : prod'[x] = prod[x]
      /\ prod' = [x \in Dir |-> prod'[x]]
  BY <1>1
<1>3. Stored(prod'[d]) = prod'[d]
  BY <1>2, StoredTwice
<1> QED BY <1>2, <1>3 DEF IInv, Printouts

-----------------------------------------------------------------------------
(* Patches                                                                   *)
LEMMA PatchParts ==
    ASSUME NEW p, IsPatch(p)
    PROVE  /\ DOMAIN p.add = DOMAIN p.to \ DOMAIN p.from
           /\ p.del = DOMAIN p.from \ DOMAIN p.to
           /\ DOMAIN p.mod = {id \in DOMAIN p.from \cap DOMAIN p.to : p.from[id] # p.to[id]}
           /\ \A id \in DOMAIN p.add : p.add[id] = [p.to[id] EXCEPT !.price = Fixed(@)]
           /\ \A id \in DOMAIN p.mod : p.mod[id] = [p.to[id] EXCEPT !.price = Fixed(@)]
<1>1. p = Patch(p.from, p.to)
  BY DEF IsPatch
<1>2. /\ p.add = [id \in DOMAIN p.to \ DOMAIN p.from |-> [p.to[id] EXCEPT !.price = Fixed(@)]]
      /\ p.del = DOMAIN p.from \ DOMAIN p.to
      /\ p.mod = [id \in {i \in DOMAIN p.from \cap DOMAIN p.to : p.from[i] # p.to[i]} |->
                    [p.to[id] EXCEPT !.price = Fixed(@)]]
  BY <1>1 DEF Patch
<1> QED BY <1>2

LEMMA DiffPatch ==
    ASSUME NEW a, NEW b, a = Stored(a), b = Stored(b)
    PROVE  IsPatch(Patch(a, b))
<1>1. Patch(a, b).from = a /\ Patch(a, b).to = b
  BY DEF Patch
<1> QED BY <1>1 DEF IsPatch

LEMMA PatchedFacts ==
    ASSUME NEW p, NEW c
    PROVE  /\ DOMAIN Patched(p, c) = DOMAIN p.mod \cup DOMAIN p.add \cup (DOMAIN c \ p.del)
           /\ \A id \in DOMAIN Patched(p, c) :
                Patched(p, c)[id] = IF id \in DOMAIN p.mod THEN p.mod[id]
                                    ELSE IF id \in DOMAIN p.add THEN p.add[id] ELSE c[id]
  BY DEF Patched

\* After it was applied a patch holds.
LEMMA PatchedHolds ==
    ASSUME NEW p, IsPatch(p), NEW c
    PROVE  Holds(p, Stored(Patched(p, c)))
<1> DEFINE r == Patched(p, c)
<1>1. DOMAIN p.add \subseteq DOMAIN r /\ DOMAIN p.mod \subseteq DOMAIN r /\ p.del \cap DOMAIN r = {}
  BY PatchParts DEF Patched
<1>2. \A id \in DOMAIN p.mod : r[id] = p.mod[id]
  BY <1>1 DEF Patched
<1> HIDE DEF r
<1>3. DOMAIN Stored(r) = DOMAIN r /\ \A id \in DOMAIN p.mod : Stored(r)[id] = Stored(p.mod)[id]
  BY <1>1, <1>2 DEF Stored
<1>4. Holds(p, Stored(r))
  BY <1>1, <1>3 DEF Holds
<1> QED BY <1>4 DEF r

\* Applied where it holds, a patch that is not refused changes nothing.
LEMMA AgainNothing ==
    ASSUME NEW p, NEW c, c = Stored(c), Holds(p, c),
           DOMAIN p.add \cap DOMAIN c = {}, p.del \subseteq DOMAIN c
    PROVE  Stored(Patched(p, c)) = c
<1>1. DOMAIN p.add = {} /\ p.del = {} /\ DOMAIN p.mod \subseteq DOMAIN c
  BY DEF Holds
<1> DEFINE r == Patched(p, c)
<1>2. DOMAIN r = DOMAIN c
  BY <1>1 DEF Patched
<1>3. \A id \in DOMAIN c : r[id] = IF id \in DOMAIN p.mod THEN p.mod[id] ELSE c[id]
  BY <1>1, <1>2 DEF Patched
<1> HIDE DEF r
<1>4. ASSUME NEW id \in DOMAIN c PROVE Stored(r)[id] = c[id]
  <2>1. CASE id \in DOMAIN p.mod
    <3>1. Stored(r)[id] = Stored(p.mod)[id]
      BY <1>2, <1>3, <2>1 DEF Stored
    <3> QED BY <2>1, <3>1 DEF Holds
  <2>2. CASE id \notin DOMAIN p.mod
    <3>1. Stored(r)[id] = Stored(c)[id]
      BY <1>2, <1>3, <2>2 DEF Stored
    <3> QED BY <3>1
  <2> QED BY <2>1, <2>2
<1>5. Stored(r) = [id \in DOMAIN c |-> Stored(r)[id]] /\ c = [id \in DOMAIN c |-> c[id]]
  BY <1>2 DEF Stored
<1>6. Stored(r) = c
  BY <1>4, <1>5
<1> QED BY <1>6 DEF r

\* Applied to the catalog it was made from it makes the one it was made for.
LEMMA PatchedRight ==
    ASSUME NEW p, IsPatch(p)
    PROVE  /\ DOMAIN Stored(Patched(p, p.from)) = DOMAIN p.to
           /\ (\A id \in DOMAIN p.to : Printed(Fixed(p.to[id].price)) = p.to[id].price)
                    => SameProducts(Stored(Patched(p, p.from)), p.to)
<1> DEFINE r == Patched(p, p.from)
<1>1. DOMAIN r = DOMAIN p.to
  BY PatchParts DEF Patched
<1>2. \A id \in DOMAIN r : r[id] = IF id \in DOMAIN p.mod THEN p.mod[id]
                                   ELSE IF id \in DOMAIN p.add THEN p.add[id] ELSE p.from[id]
  BY DEF Patched
<1> HIDE DEF r
<1>3. ASSUME NEW id \in DOMAIN p.to, Printed(Fixed(p.to[id].price)) = p.to[id].price
      PROVE  Stored(r)[id].price = p.to[id].price /\ Stored(r)[id].stock = p.to[id].stock
  <2>1. p.to[id] = [price |-> p.to[id].price, stock |-> p.to[id].stock]
        /\ Printed(p.to[id].price) = p.to[id].price
    BY SavedRow DEF IsPatch
  <2>2. Stored(r)[id].price = Printed(r[id].price) /\ Stored(r)[id].stock = r[id].stock
    BY <1>1 DEF Stored
  <2>3. CASE id \in DOMAIN p.mod \cup DOMAIN p.add
    <3>1. r[id] = [p.to[id] EXCEPT !.price = Fixed(@)]
      BY <1>1, <1>2, <2>3, PatchParts
    <3>2. r[id].price = Fixed(p.to[id].price) /\ r[id].stock = p.to[id].stock
      BY <2>1, <3>1
    <3> QED BY <1>3, <2>2, <3>2
  <2>4. CASE id \notin DOMAIN p.mod \cup DOMAIN p.add
    <3>1. p.from[id] = p.to[id]
      BY <2>4, PatchParts
    <3>2. r[id] = p.to[id]
      BY <1>1, <1>2, <2>4, <3>1
    <3> QED BY <2>1, <2>2, <3>2
  <2> QED BY <2>3, <2>4
<1>4. DOMAIN Stored(r) = DOMAIN p.to
  BY <1>1 DEF Stored
<1>5. (\A id \in DOMAIN p.to : Printed(Fixed(p.to[id].price)) = p.to[id].price)
            => SameProducts(Stored(r), p.to)
  BY <1>3, <1>4 DEF SameProducts
<1> QED BY <1>4, <1>5 DEF r

-----------------------------------------------------------------------------
(* Steps                                                                     *)
\* What every change of one entry of a map leaves.
LEMMA OneEntry ==
    ASSUME NEW f, f = [x \in Dir |-> f[x]], NEW d \in Dir, NEW v, NEW g, g = [f EXCEPT ![d] = v]
    PROVE  g = [x \in Dir |-> g[x]] /\ g[d] = v /\ \A x \in Dir \ {d} : g[x] = f[x]
  OBVIOUS

LEMMA InitInv == Init => IInv
<1> SUFFICES ASSUME Init PROVE IInv
  OBVIOUS
<1>1. PICK s \in [Dir -> Datasets] : /\ prod = [d \in Dir |-> s[d].prod]
                                     /\ ord = [d \in Dir |-> s[d].ord]
  BY DEF Init
<1>2. /\ new = [d \in Dir |-> None] /\ was = [d \in Dir |-> None]
      /\ patch = None /\ policy \in Policies
  BY DEF Init
<1>3. Maps
  BY <1>1, <1>2 DEF Maps
<1>4. \A d \in Dir : prod[d] = Stored(prod[d])
  BY <1>1, CatalogAssumption
<1> QED BY <1>2, <1>3, <1>4 DEF IInv, Printouts, Patches

\* A command that saves products and neither leaves a patch nor a journal.
LEMMA SaveInv ==
    ASSUME PrintsAgain, IInv, NEW d \in Dir, NEW p, NEW history,
           Save(d, p), Remember(d, history), UNCHANGED <<new, patch, policy>>,
           ord' = [x \in Dir |-> ord'[x]],
           history.cmd = "patch" => IsPatch(history.patch) /\ Holds(history.patch, Stored(p))
    PROVE  IInv'
<1>1. Maps
  BY DEF IInv
<1>2. /\ prod' = [x \in Dir |-> prod'[x]] /\ prod'[d] = Stored(p)
      /\ \A x \in Dir \ {d} : prod'[x] = prod[x]
  BY <1>1, OneEntry DEF Maps, Save
<1>3. /\ was' = [x \in Dir |-> was'[x]] /\ was'[d] = history
      /\ \A x \in Dir \ {d} : was'[x] = was[x]
  BY <1>1, OneEntry DEF Maps, Remember
<1>4. Maps'
  BY <1>1, <1>2, <1>3 DEF Maps
<1>5. Printouts'
  BY <1>2, StoredTwice DEF IInv, Printouts
<1>6. Patches'
  BY <1>2, <1>3 DEF IInv, Patches
<1> QED BY <1>4, <1>5, <1>6 DEF IInv

\* A command that writes products and orders, as far as it gets.
LEMMA AtomicInv ==
    ASSUME PrintsAgain, IInv, NEW d \in Dir, NEW p, NEW o, NEW history,
           AtomicWrite(d, p, o, history), history.cmd # "patch"
    PROVE  IInv'
<1>1. Maps
  BY DEF IInv
<1>2. PICK pending :
        /\ pending \in {None, Stored(p)}
        /\ new' = [new EXCEPT ![d] = [prod |-> pending, ord |-> o]]
        /\ prod' = [prod EXCEPT ![d] = Stored(p)] \/ prod' = prod
  BY DEF AtomicWrite, Save
<1>3. /\ new' = [x \in Dir |-> new'[x]] /\ new'[d] = [prod |-> pending, ord |-> o]
      /\ \A x \in Dir \ {d} : new'[x] = new[x]
  BY <1>1, <1>2, OneEntry DEF Maps
<1>4. /\ prod' = [x \in Dir |-> prod'[x]] /\ prod'[d] \in {prod[d], Stored(p)}
      /\ \A x \in Dir \ {d} : prod'[x] = prod[x]
  BY <1>1, <1>2, OneEntry DEF Maps
<1>5. /\ was' = [x \in Dir |-> was'[x]] /\ was'[d] = history
      /\ \A x \in Dir \ {d} : was'[x] = was[x]
  BY <1>1, OneEntry DEF Maps, AtomicWrite, Remember
<1>6. UNCHANGED <<ord, patch, policy>>
  BY DEF AtomicWrite
<1>7. Maps'
  BY <1>1, <1>3, <1>4, <1>5, <1>6 DEF Maps
<1>8. Printouts'
  <2>1. \A x \in Dir : prod'[x] = Stored(prod'[x])
    BY <1>4, StoredTwice DEF IInv, Printouts
  <2>2. new'[d].prod = pending
    BY <1>3
  <2>3. \A x \in Dir : new'[x] # None /\ new'[x].prod # None => new'[x].prod = Stored(new'[x].prod)
    BY <1>2, <1>3, <2>2, StoredTwice DEF IInv, Printouts
  <2> QED BY <2>1, <2>3 DEF Printouts
<1>9. Patches'
  BY <1>4, <1>5, <1>6 DEF IInv, Patches
<1> QED BY <1>7, <1>8, <1>9 DEF IInv

LEMMA RecoverInv == ASSUME IInv, NEW d \in Dir, Recover(d) PROVE IInv'
<1> DEFINE installed == IF new[d].prod = None THEN prod[d] ELSE new[d].prod
           history == IF was[d] # None /\ was[d].cmd \in {"merge", "dedupe", "enforce"} THEN was[d] ELSE None
<1>1. Maps
  BY DEF IInv
<1>2. /\ prod' = [x \in Dir |-> prod'[x]] /\ prod'[d] = installed
      /\ \A x \in Dir \ {d} : prod'[x] = prod[x]
  <2>1. prod' = [prod EXCEPT ![d] = installed]
    BY DEF Recover
  <2> HIDE DEF installed
  <2> QED BY <1>1, <2>1, OneEntry DEF Maps
<1>3. /\ new' = [x \in Dir |-> new'[x]] /\ new'[d] = None
      /\ \A x \in Dir \ {d} : new'[x] = new[x]
  BY <1>1, OneEntry DEF Maps, Recover
<1>4. /\ was' = [x \in Dir |-> was'[x]] /\ was'[d] = history
      /\ \A x \in Dir \ {d} : was'[x] = was[x]
  <2>1. was' = [was EXCEPT ![d] = history]
    BY DEF Recover, Remember
  <2> HIDE DEF history
  <2> QED BY <1>1, <2>1, OneEntry DEF Maps
<1>5. ord' = [x \in Dir |-> ord'[x]] /\ UNCHANGED <<patch, policy>> /\ new[d] # None
  BY <1>1 DEF Maps, Recover
<1>6. Maps'
  BY <1>1, <1>2, <1>3, <1>4, <1>5 DEF Maps
<1>7. Printouts'
  <2>1. installed = Stored(installed)
    BY <1>5 DEF IInv, Printouts
  <2> HIDE DEF installed
  <2> QED BY <1>2, <1>3, <2>1 DEF IInv, Printouts
<1>8. Patches'
  <2>1. history # None => history.cmd # "patch"
    OBVIOUS
  <2> HIDE DEF installed, history
  <2> QED BY <1>2, <1>4, <1>5, <2>1 DEF IInv, Patches
<1> QED BY <1>6, <1>7, <1>8 DEF IInv

LEMMA NextInv == ASSUME PrintsAgain PROVE IInv /\ [Next]_vars => IInv'
<1> SUFFICES ASSUME IInv, [Next]_vars PROVE IInv'
  OBVIOUS
<1>1. ord = [x \in Dir |-> ord[x]]
  BY DEF IInv, Maps
<1>2. CASE UNCHANGED vars
  BY <1>2 DEF vars, IInv, Maps, Printouts, Patches
<1>3. ASSUME NEW d \in Dir, NEW e \in Dir \ {d}, Merge(d, e) PROVE IInv'
  <2>1. Found("merge", d, e).cmd # "patch"
    BY DEF Found
  <2> QED BY <1>3, <2>1, AtomicInv DEF Merge
<1>4. ASSUME NEW d \in Dir, DedupeOrders(d) \/ PolicyEnforce(d) PROVE IInv'
  <2>1. Found("dedupe", d, d).cmd # "patch" /\ Found("enforce", d, d).cmd # "patch"
    BY DEF Found
  <2> QED BY <1>4, <2>1, AtomicInv DEF DedupeOrders, PolicyEnforce
<1>5. ASSUME NEW d \in Dir, NEW e \in Dir, Diff(d, e) PROVE IInv'
  <2>1. IsPatch(patch')
    BY <1>5, DiffPatch DEF Diff, IInv, Printouts
  <2> QED BY <1>5, <2>1 DEF Diff, IInv, Maps, Printouts, Patches
<1>6. ASSUME NEW d \in Dir, NEW e \in Dir, Redact(d, e) PROVE IInv'
  <2>1. Found("redact", d, d).cmd # "patch"
    BY DEF Found
  <2>2. ord' = [x \in Dir |-> ord'[x]]
    BY <1>1, <1>6 DEF Redact
  <2>3. PICK p : Save(e, p)
    BY <1>6 DEF Redact
  <2>4. Remember(e, Found("redact", d, d)) /\ UNCHANGED <<new, patch, policy>>
    BY <1>6 DEF Redact
  <2> QED BY <2>1, <2>2, <2>3, <2>4, SaveInv
<1>7. ASSUME NEW d \in Dir, PatchApply(d) PROVE IInv'
  <2> DEFINE history == [cmd |-> "patch", patch |-> patch]
  <2>1. IsPatch(patch)
    BY <1>7 DEF PatchApply, IInv, Patches
  <2>2. Holds(patch, Stored(Patched(patch, prod[d])))
    BY <2>1, PatchedHolds
  <2>3. history.patch = patch
    OBVIOUS
  <2>4. /\ Save(d, Patched(patch, prod[d])) /\ Remember(d, history)
        /\ UNCHANGED <<new, patch, policy>> /\ ord' = [x \in Dir |-> ord'[x]]
    BY <1>1, <1>7 DEF PatchApply
  <2> HIDE DEF history
  <2> QED BY <2>1, <2>2, <2>3, <2>4, SaveInv
<1>8. ASSUME NEW d \in Dir, NEW b \in Batches, BatchApply(d, b) PROVE IInv'
  <2> DEFINE history == [cmd |-> "batch", batch |-> b]
  <2>1. history.cmd # "patch"
    OBVIOUS
  <2>2. PICK p : Save(d, p)
    BY <1>8 DEF BatchApply
  <2>3. /\ Remember(d, history)
        /\ UNCHANGED <<new, patch, policy>> /\ ord' = [x \in Dir |-> ord'[x]]
    BY <1>1, <1>8 DEF BatchApply
  <2> HIDE DEF history
  <2> QED BY <2>1, <2>2, <2>3, SaveInv
<1> QED BY <1>2, <1>3, <1>4, <1>5, <1>6, <1>7, <1>8, RecoverInv DEF Next, Command

\* Whatever is merged, redacted, enforced, recovered or batched in between, a
\* patch makes of the catalog it was made from the one it was made for, and
\* applied again to what it has made it is refused or changes nothing.
THEOREM PatchMakesRightHolds == ASSUME PrintsAgain PROVE Spec => PatchMakesRight
<1> DEFINE Right(d) ==
        /\ prod[d] = patch.from =>
            /\ DOMAIN prod'[d] = DOMAIN patch.to
            /\ (\A id \in DOMAIN patch.to : Printed(Fixed(patch.to[id].price)) = patch.to[id].price) =>
                    SameProducts(prod'[d], patch.to)
        /\ was[d] # None /\ was[d].cmd = "patch" /\ was[d].patch = patch => prod'[d] = prod[d]
<1>1. ASSUME IInv, NEW d \in Dir, PatchApply(d) PROVE Right(d)
  <2>1. IsPatch(patch) /\ prod[d] = Stored(prod[d])
    BY <1>1 DEF PatchApply, IInv, Patches, Printouts
  <2>2. prod'[d] = Stored(Patched(patch, prod[d]))
    BY <1>1 DEF PatchApply, Save, IInv, Maps
  <2>3. ASSUME prod[d] = patch.from
        PROVE  /\ DOMAIN prod'[d] = DOMAIN patch.to
               /\ (\A id \in DOMAIN patch.to : Printed(Fixed(patch.to[id].price)) = patch.to[id].price) =>
                    SameProducts(prod'[d], patch.to)
    <3>1. prod'[d] = Stored(Patched(patch, patch.from))
      BY <2>2, <2>3
    <3> QED BY <2>1, <3>1, PatchedRight
  <2>4. ASSUME was[d] # None, was[d].cmd = "patch", was[d].patch = patch
        PROVE  prod'[d] = prod[d]
    <3>1. Holds(patch, prod[d])
      BY <1>1, <2>4 DEF IInv, Patches
    <3>2. DOMAIN patch.add \cap DOMAIN prod[d] = {} /\ patch.del \subseteq DOMAIN prod[d]
      BY <1>1 DEF PatchApply
    <3> QED BY <2>1, <2>2, <3>1, <3>2, AgainNothing
  <2> QED BY <2>3, <2>4
<1>2. IInv /\ [Next]_vars => [\A d \in Dir : PatchApply(d) => Right(d)]_vars
  BY <1>1
<1> QED BY <1>2, InitInv, NextInv, PTL DEF Spec, PatchMakesRight

-----------------------------------------------------------------------------
(* policy enforce                                                            *)
\* None is no file and no journal.
NoneApart == (\A p : Stored(p) # None) /\ (\A p, o : [prod |-> p, ord |-> o] # None)

\* A price that was clamped is in the bounds, and is printed as it is.
LEMMA ClampFits ==
    ASSUME policy \in Policies, Sound(policy), NEW price, Printed(price) = price
    PROVE  /\ Printed(Clamp(price)) = Clamp(price)
           /\ ~(policy.floor > 0 /\ Clamp(price) < policy.floor)
           /\ ~(policy.ceil > 0 /\ Clamp(price) > policy.ceil)
<1> DEFINE x == IF policy.floor > 0 /\ price < policy.floor THEN policy.floor ELSE price
<1>1. policy.floor \in Int /\ policy.ceil \in Int
  BY CatalogAssumption
<1>2. Clamp(price) = IF policy.ceil > 0 /\ x > policy.ceil THEN policy.ceil ELSE x
  BY DEF Clamp
<1>3. Printed(x) = x /\ ~(policy.floor > 0 /\ x < policy.floor)
  BY <1>1 DEF Sound
<1> HIDE DEF x
<1> QED BY <1>1, <1>2, <1>3 DEF Sound

LEMMA ClampedFit ==
    ASSUME policy \in Policies, NEW o
    PROVE  QtysFit(policy, [x \in DOMAIN o |-> [i \in DOMAIN o[x] |-> Clamped(o[x][i])]])
<1> DEFINE c == [x \in DOMAIN o |-> [i \in DOMAIN o[x] |-> Clamped(o[x][i])]]
<1>1. MaxQty \in Int
  BY CatalogAssumption DEF MaxQty
<1>2. ASSUME NEW q, MaxQty > 0 PROVE ~(ClampQty(q) > MaxQty)
  BY <1>1, <1>2 DEF ClampQty
<1>3. ASSUME NEW x \in DOMAIN c, NEW i \in DOMAIN c[x] PROVE c[x][i].qty = ClampQty(o[x][i].qty)
  <2>1. c[x][i] = Clamped(o[x][i])
    BY <1>3
  <2> QED BY <2>1 DEF Clamped
<1> HIDE DEF c
<1>4. QtysFit(policy, c)
  BY <1>2, <1>3 DEF QtysFit, MaxQty
<1> QED BY <1>4 DEF c

LEMMA PricesClamped ==
    ASSUME policy \in Policies, Sound(policy), NEW p, p = Stored(p)
    PROVE  PricesFit(policy, Stored([id \in DOMAIN p |-> [p[id] EXCEPT !.price = Clamp(@)]]))
<1> DEFINE c == [id \in DOMAIN p |-> [p[id] EXCEPT !.price = Clamp(@)]]
<1>1. ASSUME NEW id \in DOMAIN p PROVE Stored(c)[id].price = Clamp(p[id].price)
  <2>1. p[id] = [price |-> p[id].price, stock |-> p[id].stock] /\ Printed(p[id].price) = p[id].price
    BY SavedRow
  <2>2. c[id].price = Clamp(p[id].price)
    BY <2>1
  <2>3. Stored(c)[id].price = Printed(c[id].price)
    BY DEF Stored
  <2> QED BY <2>1, <2>2, <2>3, ClampFits
<1>2. ASSUME NEW id \in DOMAIN p
      PROVE  /\ ~(policy.floor > 0 /\ Clamp(p[id].price) < policy.floor)
             /\ ~(policy.ceil > 0 /\ Clamp(p[id].price) > policy.ceil)
  BY SavedRow, ClampFits
<1>3. DOMAIN Stored(c) = DOMAIN p
  BY DEF Stored
<1> HIDE DEF c
<1>4. PricesFit(policy, Stored(c))
  BY <1>1, <1>2, <1>3 DEF PricesFit
<1> QED BY <1>4 DEF c

\* A command changes one directory.
LEMMA OneDirectory ==
    ASSUME Enforced, NEW d \in Dir, policy' = policy,
           \A x \in Dir \ {d} : /\ was'[x] = was[x] /\ new'[x] = new[x]
                                /\ prod'[x] = prod[x] /\ ord'[x] = ord[x],
           Sound(policy) => EnforcedAt(policy, was'[d], new'[d], prod'[d], ord'[d])
    PROVE  Enforced'
  BY DEF Enforced

LEMMA EnforceEnforces ==
    ASSUME NoneApart, IInv, Enforced, NEW d \in Dir, PolicyEnforce(d)
    PROVE  Enforced'
<1> DEFINE p == [id \in DOMAIN prod[d] |-> [prod[d][id] EXCEPT !.price = Clamp(@)]]
           o == [x \in DOMAIN ord[d] |-> [i \in DOMAIN ord[d][x] |-> Clamped(ord[d][x][i])]]
<1>1. Maps /\ prod[d] = Stored(prod[d])
  BY DEF IInv, Printouts
<1>2. AtomicWrite(d, p, o, Found("enforce", d, d))
  BY DEF PolicyEnforce
<1>3. QtysFit(policy, o) /\ (Sound(policy) => PricesFit(policy, Stored(p)))
  BY <1>1, ClampedFit, PricesClamped DEF Maps
<1> HIDE DEF p, o
<1>4. PICK pending :
        /\ new' = [new EXCEPT ![d] = [prod |-> pending, ord |-> o]]
        /\ \/ pending = None /\ prod' = [prod EXCEPT ![d] = Stored(p)]
           \/ pending = Stored(p) /\ prod' = prod
  BY <1>2 DEF AtomicWrite, Save
<1>5. /\ new'[d] = [prod |-> pending, ord |-> o] /\ \A x \in Dir \ {d} : new'[x] = new[x]
  BY <1>1, <1>4, OneEntry DEF Maps
<1>6. /\ pending = None => prod'[d] = Stored(p)
      /\ pending # None => pending = Stored(p)
      /\ \A x \in Dir \ {d} : prod'[x] = prod[x]
  BY <1>1, <1>4, OneEntry DEF Maps, NoneApart
<1>7. \A x \in Dir \ {d} : was'[x] = was[x]
  BY <1>1, <1>2, OneEntry DEF Maps, AtomicWrite, Remember
<1>8. ord' = ord /\ policy' = policy
  BY <1>2 DEF AtomicWrite
<1>9. new'[d] # None /\ new'[d].prod = pending /\ new'[d].ord = o
  BY <1>5 DEF NoneApart
<1>10. Sound(policy) => PricesFit(policy, IF pending = None THEN prod'[d] ELSE pending)
  BY <1>3, <1>6
<1>11. Sound(policy) => EnforcedAt(policy, was'[d], new'[d], prod'[d], ord'[d])
  BY <1>3, <1>9, <1>10 DEF EnforcedAt
<1> QED BY <1>5, <1>6, <1>7, <1>8, <1>11, OneDirectory

\* Any other command makes its own history.
LEMMA OthersKeepEnforced ==
    ASSUME IInv, Enforced, NEW d \in Dir, NEW history, Remember(d, history),
           history.cmd # "enforce", policy' = policy,
           \A x \in Dir \ {d} : new'[x] = new[x] /\ prod'[x] = prod[x] /\ ord'[x] = ord[x]
    PROVE  Enforced'
<1>1. was'[d] = history /\ \A x \in Dir \ {d} : was'[x] = was[x]
  BY OneEntry DEF IInv, Maps, Remember
<1>2. EnforcedAt(policy, was'[d], new'[d], prod'[d], ord'[d])
  BY <1>1 DEF EnforcedAt
<1> QED BY <1>1, <1>2, OneDirectory

LEMMA AtomicKeepsEnforced ==
    ASSUME IInv, Enforced, NEW d \in Dir, NEW p, NEW o, NEW history,
           AtomicWrite(d, p, o, history), history.cmd # "enforce"
    PROVE  Enforced'
<1>1. Maps
  BY DEF IInv
<1>2. \A x \in Dir \ {d} : new'[x] = new[x] /\ prod'[x] = prod[x]
  BY <1>1, OneEntry DEF Maps, AtomicWrite, Save
<1>3. Remember(d, history) /\ ord' = ord /\ policy' = policy
  BY DEF AtomicWrite
<1> QED BY <1>2, <1>3, OthersKeepEnforced

LEMMA SaveKeepsEnforced ==
    ASSUME IInv, Enforced, NEW d \in Dir, NEW p, NEW history, Save(d, p), Remember(d, history),
           history.cmd # "enforce", UNCHANGED <<new, policy>>,
           \A x \in Dir \ {d} : ord'[x] = ord[x]
    PROVE  Enforced'
<1>1. \A x \in Dir \ {d} : prod'[x] = prod[x]
  BY OneEntry DEF IInv, Maps, Save
<1> QED BY <1>1, OthersKeepEnforced

LEMMA RecoverEnforces ==
    ASSUME IInv, Enforced, NEW d \in Dir, Recover(d)
    PROVE  Enforced'
<1> DEFINE installed == IF new[d].prod = None THEN prod[d] ELSE new[d].prod
           history == IF was[d] # None /\ was[d].cmd \in {"merge", "dedupe", "enforce"} THEN was[d] ELSE None
<1>1. Maps /\ new[d] # None /\ policy' = policy
  BY DEF IInv, Recover
<1>2. /\ prod' = [prod EXCEPT ![d] = installed] /\ was' = [was EXCEPT ![d] = history]
      /\ new' = [new EXCEPT ![d] = None] /\ ord' = [ord EXCEPT ![d] = new[d].ord]
  BY DEF Recover, Remember
<1>3. history # None => history = was[d]
  OBVIOUS
<1>4. Sound(policy) /\ was[d] # None /\ was[d].cmd = "enforce" =>
        PricesFit(policy, installed) /\ QtysFit(policy, new[d].ord)
  BY <1>1 DEF Enforced, EnforcedAt
<1> HIDE DEF installed, history
<1>5. /\ prod'[d] = installed /\ \A x \in Dir \ {d} : prod'[x] = prod[x]
      /\ was'[d] = history /\ \A x \in Dir \ {d} : was'[x] = was[x]
      /\ new'[d] = None /\ \A x \in Dir \ {d} : new'[x] = new[x]
      /\ ord'[d] = new[d].ord /\ \A x \in Dir \ {d} : ord'[x] = ord[x]
  BY <1>1, <1>2 DEF Maps
<1>6. Sound(policy) => EnforcedAt(policy, was'[d], new'[d], prod'[d], ord'[d])
  BY <1>3, <1>4, <1>5 DEF EnforcedAt
<1> QED BY <1>1, <1>5, <1>6, OneDirectory

LEMMA NextEnforced == ASSUME NoneApart PROVE IInv /\ Enforced /\ [Next]_vars => Enforced'
<1> SUFFICES ASSUME IInv, Enforced, [Next]_vars PROVE Enforced'
  OBVIOUS
<1>1. Maps
  BY DEF IInv
<1>2. CASE UNCHANGED vars
  BY <1>2 DEF vars, Enforced
<1>3. ASSUME NEW d \in Dir, NEW e \in Dir \ {d}, Merge(d, e) PROVE Enforced'
  <2>1. Found("merge", d, e).cmd # "enforce"
    BY DEF Found
  <2> QED BY <1>3, <2>1, AtomicKeepsEnforced DEF Merge
<1>4. ASSUME NEW d \in Dir, DedupeOrders(d) PROVE Enforced'
  <2>1. Found("dedupe", d, d).cmd # "enforce"
    BY DEF Found
  <2> QED BY <1>4, <2>1, AtomicKeepsEnforced DEF DedupeOrders
<1>5. ASSUME NEW d \in Dir, NEW e \in Dir, Diff(d, e) PROVE Enforced'
  BY <1>5 DEF Diff, Enforced
<1>6. ASSUME NEW d \in Dir, NEW e \in Dir, Redact(d, e) PROVE Enforced'
  <2>1. Found("redact", d, d).cmd # "enforce"
    BY DEF Found
  <2>2. \A x \in Dir \ {e} : ord'[x] = ord[x]
    BY <1>1, <1>6 DEF Redact, Maps
  <2>3. PICK p : Save(e, p)
    BY <1>6 DEF Redact
  <2>4. Remember(e, Found("redact", d, d)) /\ UNCHANGED <<new, policy>>
    BY <1>6 DEF Redact
  <2> QED BY <2>1, <2>2, <2>3, <2>4, SaveKeepsEnforced
<1>7. ASSUME NEW d \in Dir, PatchApply(d) PROVE Enforced'
  <2> DEFINE history == [cmd |-> "patch", patch |-> patch]
  <2>1. history.cmd # "enforce"
    OBVIOUS
  <2>2. /\ Save(d, Patched(patch, prod[d])) /\ Remember(d, history)
        /\ UNCHANGED <<new, policy>> /\ ord' = ord
    BY <1>7 DEF PatchApply
  <2> HIDE DEF history
  <2> QED BY <2>1, <2>2, SaveKeepsEnforced
<1>8. ASSUME NEW d \in Dir, NEW b \in Batches, BatchApply(d, b) PROVE Enforced'
  <2> DEFINE history == [cmd |-> "batch", batch |-> b]
  <2>1. history.cmd # "enforce"
    OBVIOUS
  <2>2. PICK p : Save(d, p)
    BY <1>8 DEF BatchApply
  <2>3. Remember(d, history) /\ UNCHANGED <<new, policy>> /\ ord' = ord
    BY <1>8 DEF BatchApply
  <2> HIDE DEF history
  <2> QED BY <2>1, <2>2, <2>3, SaveKeepsEnforced
<1> QED BY <1>2, <1>3, <1>4, <1>5, <1>6, <1>7, <1>8, RecoverEnforces, EnforceEnforces
       DEF Next, Command

\* For every policy whose bounds can be met and printed: what policy enforce has
\* clamped passes policy check, though its write failed and recovery installed
\* the products, or the orders, or both.
THEOREM EnforceThenCheckHolds ==
    ASSUME PrintsAgain, NoneApart PROVE Spec => []EnforceThenCheck
<1>1. Init => Enforced
  BY DEF Init, Enforced, EnforcedAt
<1>2. Enforced => EnforceThenCheck
  BY DEF Enforced, EnforcedAt, EnforceThenCheck, Completed, PolicyCheck, PricesFit, QtysFit,
         Sound, MaxQty
<1> QED BY <1>1, <1>2, InitInv, NextInv, NextEnforced, PTL DEF Spec

-----------------------------------------------------------------------------
(* batch apply                                                               *)
\* Induction over the naturals, for a set in place of a predicate.
LEMMA SetInduction ==
    ASSUME NEW T \in SUBSET Nat, 0 \in T, \A k \in T : k + 1 \in T
    PROVE  T = Nat
<1> SUFFICES ASSUME Nat \ T # {} PROVE FALSE
  OBVIOUS
<1> DEFINE R == {ss \in Nat \X Nat : ss[1] < ss[2]}
<1>1. IsWellFoundedOn(R, Nat)
  BY NatLessThanWellFounded DEF OpToRel
<1> HIDE DEF R
<1>2. \E x \in Nat \ T : \A y \in Nat \ T : ~(<<y, x>> \in R)
  BY <1>1, WFMin
<1>3. PICK x \in Nat \ T : \A y \in Nat \ T : ~(<<y, x>> \in R)
  BY <1>2
<1>4. x # 0 /\ x - 1 \in Nat \ T
  OBVIOUS
<1>5. <<x - 1, x>> \in R
  BY <1>4 DEF R
<1> QED BY <1>3, <1>4, <1>5

\* f[i] is the catalog p after i lines of the batch b.
Follows(f, p, b, m) ==
    f = [i \in 0 .. m |->
            IF i = 0 THEN p ELSE IF f[i - 1] = None THEN None ELSE Applied(f[i - 1], b[i])]

LEMMA RunExists ==
    ASSUME NEW p, NEW b, NEW m \in Nat
    PROVE  \E f : Follows(f, p, b, m)
<1> DEFINE T == {k \in Nat : \E f : Follows(f, p, b, k)}
<1>1. 0 \in T
  <2> DEFINE f == [i \in 0 .. 0 |-> p]
  <2>1. Follows(f, p, b, 0)
    BY DEF Follows
  <2> HIDE DEF f
  <2> QED BY <2>1
<1>2. ASSUME NEW k \in T PROVE k + 1 \in T
  <2>1. PICK f : Follows(f, p, b, k)
    OBVIOUS
  <2> DEFINE g == [i \in 0 .. k + 1 |->
                    IF i <= k THEN f[i] ELSE IF f[k] = None THEN None ELSE Applied(f[k], b[k + 1])]
  <2>2. \A i \in 0 .. k : g[i] = f[i]
    OBVIOUS
  <2>3. ASSUME NEW i \in 0 .. k + 1
        PROVE  g[i] = IF i = 0 THEN p ELSE IF g[i - 1] = None THEN None ELSE Applied(g[i - 1], b[i])
    <3>1. CASE i = k + 1
      <4>1. g[i] = IF f[k] = None THEN None ELSE Applied(f[k], b[k + 1])
        BY <3>1
      <4>2. g[i - 1] = f[k] /\ i # 0
        BY <3>1
      <4> HIDE DEF g
      <4> QED BY <3>1, <4>1, <4>2
    <3>2. CASE i \in 0 .. k
      <4>1. f[i] = IF i = 0 THEN p ELSE IF f[i - 1] = None THEN None ELSE Applied(f[i - 1], b[i])
        BY <2>1, <3>2 DEF Follows
      <4>2. i # 0 => i - 1 \in 0 .. k
        BY <3>2
      <4> HIDE DEF g
      <4> QED BY <2>2, <3>2, <4>1, <4>2
    <3> QED BY <3>1, <3>2
  <2>4. g = [i \in 0 .. k + 1 |-> g[i]]
    OBVIOUS
  <2> HIDE DEF g
  <2>5. Follows(g, p, b, k + 1)
    BY <2>3, <2>4 DEF Follows
  <2> QED BY <2>5
<1> HIDE DEF T
<1>3. T = Nat
  BY <1>1, <1>2, SetInduction DEF T
<1> QED BY <1>3 DEF T

LEMMA RanFollows ==
    ASSUME NEW p, NEW b, Len(b) \in Nat
    PROVE  \E f : Follows(f, p, b, Len(b)) /\ Ran(p, b) = f[Len(b)]
<1> DEFINE f == CHOOSE f : Follows(f, p, b, Len(b))
<1>1. Follows(f, p, b, Len(b))
  BY RunExists
<1>2. Ran(p, b) = f[Len(b)]
  BY DEF Ran, Follows
<1> HIDE DEF f
<1> QED BY <1>1, <1>2

\* A batch that was not refused was not refused before its end.
LEMMA NeverRefused ==
    ASSUME NEW f, NEW p, NEW b, NEW m \in Nat, Follows(f, p, b, m), f[m] # None
    PROVE  /\ \A i \in 0 .. m : f[i] # None
           /\ f[0] = p
           /\ \A i \in 0 .. m - 1 : f[i + 1] = Applied(f[i], b[i + 1])
<1> DEFINE T == {k \in Nat : k <= m => f[m - k] # None}
<1>1. \A i \in 0 .. m :
        f[i] = IF i = 0 THEN p ELSE IF f[i - 1] = None THEN None ELSE Applied(f[i - 1], b[i])
  BY DEF Follows
<1>2. 0 \in T
  OBVIOUS
<1>3. ASSUME NEW k \in T PROVE k + 1 \in T
  <2>1. CASE k + 1 <= m
    <3>1. f[m - k] # None /\ m - k \in 0 .. m /\ m - k # 0
      BY <2>1
    <3>2. f[(m - k) - 1] # None
      BY <1>1, <3>1
    <3>3. (m - k) - 1 = m - (k + 1)
      OBVIOUS
    <3> QED BY <3>2, <3>3
  <2>2. CASE ~(k + 1 <= m)
    BY <2>2
  <2> QED BY <2>1, <2>2
<1> HIDE DEF T
<1>4. T = Nat
  BY <1>2, <1>3, SetInduction DEF T
<1>5. ASSUME NEW i \in 0 .. m PROVE f[i] # None
  <2>1. m - i \in T /\ m - i <= m /\ m - (m - i) = i
    BY <1>4
  <2> QED BY <2>1 DEF T
<1>6. ASSUME NEW i \in 0 .. m - 1 PROVE f[i + 1] = Applied(f[i], b[i + 1])
  <2>1. i + 1 \in 0 .. m /\ i + 1 # 0 /\ (i + 1) - 1 = i /\ i \in 0 .. m
    OBVIOUS
  <2> QED BY <1>1, <1>5, <2>1
<1>7. f[0] = p
  BY <1>1
<1> QED BY <1>5, <1>6, <1>7

\* A row and what a line makes of it.
HasRows(x, D) == x = [id \in D |-> [price |-> x[id].price, stock |-> x[id].stock]]

LEMMA AppliedDomain ==
    ASSUME NEW x, NEW op, Applied(x, op) # None
    PROVE  /\ DOMAIN x \subseteq DOMAIN Applied(x, op)
           /\ op.op = "add-product" => op.id \in DOMAIN Applied(x, op) /\ op.id \notin DOMAIN x
  BY DEF Applied, Added

LEMMA AppliedRow ==
    ASSUME NEW D, NEW x, HasRows(x, D), NEW op, Applied(x, op) # None, op.op # "add-product"
    PROVE  /\ HasRows(Applied(x, op), D)
           /\ \A id \in D :
                /\ Applied(x, op)[id].price =
                        IF op.op = "set-price" /\ id = op.id THEN op.to ELSE x[id].price
                /\ Applied(x, op)[id].stock =
                        IF op.op = "set-stock" /\ id = op.id THEN op.to ELSE x[id].stock
<1>1. /\ DOMAIN x = D
      /\ \A id \in D : x[id] = [price |-> x[id].price, stock |-> x[id].stock]
  BY DEF HasRows
<1>2. CASE op.op = "set-price"
  <2>1. op.id \in D /\ Applied(x, op) = [x EXCEPT ![op.id].price = op.to]
    BY <1>1, <1>2 DEF Applied
  <2> DEFINE y == [x EXCEPT ![op.id].price = op.to]
  <2>2. y = [id \in D |-> y[id]]
    BY <1>1
  <2>3. ASSUME NEW id \in D
        PROVE  /\ y[id] = [price |-> IF id = op.id THEN op.to ELSE x[id].price, stock |-> x[id].stock]
               /\ y[id].price = IF id = op.id THEN op.to ELSE x[id].price
               /\ y[id].stock = x[id].stock
    <3>1. y[id] = IF id = op.id THEN [x[id] EXCEPT !.price = op.to] ELSE x[id]
      BY <1>1, <2>1
    <3> HIDE DEF y
    <3>2. y[id] = [price |-> IF id = op.id THEN op.to ELSE x[id].price, stock |-> x[id].stock]
      BY <1>1, <3>1
    <3> QED BY <3>2
  <2> HIDE DEF y
  <2>4. HasRows(y, D)
    BY <2>2, <2>3 DEF HasRows
  <2> QED BY <1>2, <2>1, <2>3, <2>4 DEF y
<1>3. CASE op.op = "set-stock"
  <2>1. op.id \in D /\ Applied(x, op) = [x EXCEPT ![op.id].stock = op.to]
    BY <1>1, <1>3 DEF Applied
  <2> DEFINE y == [x EXCEPT ![op.id].stock = op.to]
  <2>2. y = [id \in D |-> y[id]]
    BY <1>1
  <2>3. ASSUME NEW id \in D
        PROVE  /\ y[id] = [price |-> x[id].price, stock |-> IF id = op.id THEN op.to ELSE x[id].stock]
               /\ y[id].stock = IF id = op.id THEN op.to ELSE x[id].stock
               /\ y[id].price = x[id].price
    <3>1. y[id] = IF id = op.id THEN [x[id] EXCEPT !.stock = op.to] ELSE x[id]
      BY <1>1, <2>1
    <3> HIDE DEF y
    <3>2. y[id] = [price |-> x[id].price, stock |-> IF id = op.id THEN op.to ELSE x[id].stock]
      BY <1>1, <3>1
    <3> QED BY <3>2
  <2> HIDE DEF y
  <2>4. HasRows(y, D)
    BY <2>2, <2>3 DEF HasRows
  <2> QED BY <1>3, <2>1, <2>3, <2>4 DEF y
<1>4. CASE op.op \notin {"set-price", "set-stock"}
  <2>1. Applied(x, op) = x
    BY <1>4 DEF Applied
  <2> QED BY <1>4, <2>1
<1> QED BY <1>2, <1>3, <1>4

\* No line removes a product.
LEMMA NoneRemoved ==
    ASSUME NEW f, NEW p, NEW b, NEW m \in Nat, Follows(f, p, b, m), f[m] # None,
           NEW i \in 0 .. m
    PROVE  DOMAIN f[i] \subseteq DOMAIN f[m]
<1> DEFINE T == {k \in Nat : i + k <= m => DOMAIN f[i] \subseteq DOMAIN f[i + k]}
<1>1. 0 \in T
  OBVIOUS
<1>2. ASSUME NEW k \in T PROVE k + 1 \in T
  <2>1. CASE i + (k + 1) <= m
    <3>1. i + k \in 0 .. m - 1 /\ i + (k + 1) = (i + k) + 1 /\ (i + k) + 1 \in 0 .. m
      BY <2>1
    <3>2. f[(i + k) + 1] = Applied(f[i + k], b[(i + k) + 1]) /\ f[(i + k) + 1] # None
      BY <3>1, NeverRefused
    <3>3. DOMAIN f[i + k] \subseteq DOMAIN f[(i + k) + 1]
      BY <3>2, AppliedDomain
    <3>4. DOMAIN f[i] \subseteq DOMAIN f[i + k]
      BY <3>1
    <3> QED BY <3>1, <3>3, <3>4
  <2>2. CASE ~(i + (k + 1) <= m)
    BY <2>2
  <2> QED BY <2>1, <2>2
<1> HIDE DEF T
<1>3. T = Nat
  BY <1>1, <1>2, SetInduction DEF T
<1>4. m - i \in T /\ i + (m - i) = m
  BY <1>3
<1> QED BY <1>4 DEF T

\* A batch that adds nothing leaves every price and stock as its last line for
\* them says, whatever they were: run on f[m], as saved, it leaves that.
LEMMA SameAgain ==
    ASSUME PrintsAgain, NEW m \in Nat, NEW b, NEW c, c = Stored(c),
           NEW f, Follows(f, c, b, m), f[m] # None,
           NEW g, Follows(g, Stored(f[m]), b, m), g[m] # None
    PROVE  Stored(g[m]) = Stored(f[m])
<1> DEFINE q == Stored(f[m])
           D == DOMAIN c
<1>1. /\ \A i \in 0 .. m : f[i] # None /\ g[i] # None
      /\ f[0] = c /\ g[0] = q
      /\ \A i \in 0 .. m - 1 : f[i + 1] = Applied(f[i], b[i + 1]) /\ g[i + 1] = Applied(g[i], b[i + 1])
  BY NeverRefused
<1>2. DOMAIN q = DOMAIN f[m]
  BY DEF Stored
<1> HIDE DEF q, D
<1>3. ASSUME NEW i \in 0 .. m - 1 PROVE b[i + 1].op # "add-product"
  <2> SUFFICES ASSUME b[i + 1].op = "add-product" PROVE FALSE
    OBVIOUS
  <2>1. i \in 0 .. m /\ i + 1 \in 0 .. m
    OBVIOUS
  <2>2. b[i + 1].id \in DOMAIN f[i + 1]
    BY <1>1, <2>1, AppliedDomain
  <2>3. b[i + 1].id \notin DOMAIN g[i]
    BY <1>1, <2>1, AppliedDomain
  <2>4. b[i + 1].id \in DOMAIN q
    BY <1>2, <2>1, <2>2, NoneRemoved
  <2>5. DOMAIN q \subseteq DOMAIN g[i]
    <3> DEFINE T == {k \in Nat : k <= m => DOMAIN q \subseteq DOMAIN g[k]}
    <3>1. 0 \in T
      BY <1>1
    <3>2. ASSUME NEW k \in T PROVE k + 1 \in T
      <4>1. CASE k + 1 <= m
        <5>1. k \in 0 .. m - 1 /\ k + 1 \in 0 .. m /\ k <= m
          BY <4>1
        <5>2. DOMAIN g[k] \subseteq DOMAIN g[k + 1]
          BY <1>1, <5>1, AppliedDomain
        <5> QED BY <5>1, <5>2
      <4>2. CASE ~(k + 1 <= m)
        BY <4>2
      <4> QED BY <4>1, <4>2
    <3> HIDE DEF T
    <3>3. T = Nat
      BY <3>1, <3>2, SetInduction DEF T
    <3>4. i \in T /\ i <= m
      BY <3>3
    <3> QED BY <3>4 DEF T
  <2> QED BY <2>3, <2>4, <2>5
<1>4. HasRows(f[0], D)
  BY <1>1, SavedRow DEF HasRows, D, Stored
<1> DEFINE Alike(k) == \A id \in D :
        /\ g[k][id].price \in {f[k][id].price, q[id].price}
        /\ g[k][id].stock \in {f[k][id].stock, q[id].stock}
<1>5. ASSUME NEW k \in 0 .. m - 1, HasRows(f[k], D), HasRows(g[k], D), Alike(k)
      PROVE  HasRows(f[k + 1], D) /\ HasRows(g[k + 1], D) /\ Alike(k + 1)
  <2> DEFINE op == b[k + 1]
  <2>1. /\ f[k + 1] = Applied(f[k], op) /\ g[k + 1] = Applied(g[k], op)
        /\ Applied(f[k], op) # None /\ Applied(g[k], op) # None /\ op.op # "add-product"
    BY <1>1, <1>3
  <2> HIDE DEF op
  <2>2. HasRows(f[k + 1], D) /\ HasRows(g[k + 1], D)
    BY <1>5, <2>1, AppliedRow
  <2>3. ASSUME NEW id \in D
        PROVE  /\ f[k + 1][id].price = IF op.op = "set-price" /\ id = op.id THEN op.to ELSE f[k][id].price
               /\ g[k + 1][id].price = IF op.op = "set-price" /\ id = op.id THEN op.to ELSE g[k][id].price
               /\ f[k + 1][id].stock = IF op.op = "set-stock" /\ id = op.id THEN op.to ELSE f[k][id].stock
               /\ g[k + 1][id].stock = IF op.op = "set-stock" /\ id = op.id THEN op.to ELSE g[k][id].stock
    BY <1>5, <2>1, AppliedRow
  <2>4. Alike(k + 1)
    BY <1>5, <2>3
  <2> QED BY <2>2, <2>4
<1>6. HasRows(f[m], D)
  <2> DEFINE T == {k \in Nat : k <= m => HasRows(f[k], D)}
  <2>1. 0 \in T
    BY <1>4
  <2>2. ASSUME NEW k \in T PROVE k + 1 \in T
    <3>1. CASE k + 1 <= m
      <4>1. k \in 0 .. m - 1 /\ k + 1 \in 0 .. m /\ k <= m
        BY <3>1
      <4>2. HasRows(f[k], D) /\ f[k + 1] = Applied(f[k], b[k + 1]) /\ f[k + 1] # None
        BY <1>1, <4>1
      <4>3. HasRows(f[k + 1], D)
        BY <1>3, <4>1, <4>2, AppliedRow
      <4> QED BY <4>3
    <3>2. CASE ~(k + 1 <= m)
      BY <3>2
    <3> QED BY <3>1, <3>2
  <2> HIDE DEF T
  <2>3. T = Nat
    BY <2>1, <2>2, SetInduction DEF T
  <2> QED BY <2>3 DEF T
<1>7. DOMAIN f[m] = D
  BY <1>6 DEF HasRows
<1>8. HasRows(q, D) /\ \A id \in D : q[id].price = Printed(f[m][id].price) /\ q[id].stock = f[m][id].stock
  BY <1>7 DEF q, HasRows, Stored
<1>9. HasRows(f[m], D) /\ HasRows(g[m], D) /\ Alike(m)
  <2> DEFINE T == {k \in Nat : k <= m => HasRows(f[k], D) /\ HasRows(g[k], D) /\ Alike(k)}
  <2>1. 0 \in T
    BY <1>1, <1>4, <1>8
  <2>2. ASSUME NEW k \in T PROVE k + 1 \in T
    <3> HIDE DEF Alike
    <3>1. CASE k + 1 <= m
      <4>1. k \in 0 .. m - 1 /\ k <= m
        BY <3>1
      <4> QED BY <1>5, <4>1
    <3>2. CASE ~(k + 1 <= m)
      BY <3>2
    <3> QED BY <3>1, <3>2
  <2> HIDE DEF T
  <2>3. T = Nat
    BY <2>1, <2>2, SetInduction DEF T
  <2> QED BY <2>3 DEF T
<1>10. DOMAIN g[m] = D
  BY <1>9 DEF HasRows
<1>11. ASSUME NEW id \in D
       PROVE  Printed(g[m][id].price) = q[id].price /\ g[m][id].stock = q[id].stock
  <2>1. g[m][id].price \in {f[m][id].price, q[id].price} /\ g[m][id].stock \in {f[m][id].stock, q[id].stock}
    BY <1>9
  <2>2. q[id].price = Printed(f[m][id].price) /\ q[id].stock = f[m][id].stock
    BY <1>8
  <2>3. Printed(q[id].price) = q[id].price
    BY <2>2 DEF PrintsAgain
  <2> QED BY <2>1, <2>2, <2>3
<1>12. Stored(g[m]) = [id \in D |-> [price |-> q[id].price, stock |-> q[id].stock]]
  BY <1>10, <1>11 DEF Stored
<1>13. q = [id \in D |-> [price |-> q[id].price, stock |-> q[id].stock]]
  BY <1>8 DEF HasRows
<1>14. Stored(g[m]) = q
  BY <1>12, <1>13
<1> QED BY <1>14 DEF q

LEMMA RanAgain ==
    ASSUME PrintsAgain, NEW b, Len(b) \in Nat, NEW c, c = Stored(c),
           Ran(c, b) # None, Ran(Stored(Ran(c, b)), b) # None
    PROVE  Stored(Ran(Stored(Ran(c, b)), b)) = Stored(Ran(c, b))
<1>1. PICK f : Follows(f, c, b, Len(b)) /\ Ran(c, b) = f[Len(b)]
  BY RanFollows
<1> DEFINE q == Stored(f[Len(b)])
<1>2. PICK g : Follows(g, q, b, Len(b)) /\ Ran(q, b) = g[Len(b)]
  BY RanFollows
<1>3. f[Len(b)] # None /\ g[Len(b)] # None
  BY <1>1, <1>2
<1>4. Stored(g[Len(b)]) = Stored(f[Len(b)])
  BY <1>1, <1>2, <1>3, SameAgain
<1> QED BY <1>1, <1>2, <1>4

-----------------------------------------------------------------------------
\* A batch that was applied last stands for what it has made.
BatchedAt(w, p) ==
    w # None /\ w.cmd = "batch" =>
        \E c : /\ c = Stored(c) /\ Ran(c, w.batch) # None /\ p = Stored(Ran(c, w.batch))
               /\ w.batch \in Batches
Batched == \A d \in Dir : BatchedAt(was[d], prod[d])

LEMMA OneBatched ==
    ASSUME IInv, Batched, NEW d \in Dir, NEW p, NEW history,
           was' = [was EXCEPT ![d] = history], prod' = [prod EXCEPT ![d] = p] \/ prod' = prod,
           history # None => history.cmd # "batch"
    PROVE  Batched'
<1>1. was'[d] = history /\ \A x \in Dir \ {d} : was'[x] = was[x] /\ prod'[x] = prod[x]
  BY OneEntry DEF IInv, Maps
<1>2. BatchedAt(was'[d], prod'[d])
  BY <1>1 DEF BatchedAt
<1> QED BY <1>1, <1>2 DEF Batched

LEMMA NextBatched == IInv /\ Batched /\ [Next]_vars => Batched'
<1> SUFFICES ASSUME IInv, Batched, [Next]_vars PROVE Batched'
  OBVIOUS
<1>1. CASE UNCHANGED vars
  BY <1>1 DEF vars, Batched
<1>2. ASSUME NEW d \in Dir, NEW p, NEW o, NEW history, AtomicWrite(d, p, o, history),
             history.cmd # "batch"
      PROVE  Batched'
  <2>1. prod' = [prod EXCEPT ![d] = Stored(p)] \/ prod' = prod
    BY <1>2 DEF AtomicWrite, Save
  <2>2. was' = [was EXCEPT ![d] = history]
    BY <1>2 DEF AtomicWrite, Remember
  <2> QED BY <1>2, <2>1, <2>2, OneBatched
<1>3. ASSUME NEW d \in Dir, NEW p, NEW history, Save(d, p), Remember(d, history),
             history.cmd # "batch"
      PROVE  Batched'
  BY <1>3, OneBatched DEF Save, Remember
<1>4. ASSUME NEW d \in Dir, NEW e \in Dir \ {d}, Merge(d, e) PROVE Batched'
  <2>1. Found("merge", d, e).cmd # "batch"
    BY DEF Found
  <2> QED BY <1>2, <1>4, <2>1 DEF Merge
<1>5. ASSUME NEW d \in Dir, DedupeOrders(d) \/ PolicyEnforce(d) PROVE Batched'
  <2>1. Found("dedupe", d, d).cmd # "batch" /\ Found("enforce", d, d).cmd # "batch"
    BY DEF Found
  <2> QED BY <1>2, <1>5, <2>1 DEF DedupeOrders, PolicyEnforce
<1>6. ASSUME NEW d \in Dir, NEW e \in Dir, Diff(d, e) PROVE Batched'
  BY <1>6 DEF Diff, Batched
<1>7. ASSUME NEW d \in Dir, NEW e \in Dir, Redact(d, e) PROVE Batched'
  <2>1. Found("redact", d, d).cmd # "batch"
    BY DEF Found
  <2>2. PICK p : Save(e, p)
    BY <1>7 DEF Redact
  <2>3. Remember(e, Found("redact", d, d))
    BY <1>7 DEF Redact
  <2> QED BY <1>3, <2>1, <2>2, <2>3
<1>8. ASSUME NEW d \in Dir, PatchApply(d) PROVE Batched'
  <2> DEFINE history == [cmd |-> "patch", patch |-> patch]
  <2>1. history.cmd # "batch"
    OBVIOUS
  <2>2. Save(d, Patched(patch, prod[d])) /\ Remember(d, history)
    BY <1>8 DEF PatchApply
  <2> HIDE DEF history
  <2> QED BY <1>3, <2>1, <2>2
<1>9. ASSUME NEW d \in Dir, Recover(d) PROVE Batched'
  <2> DEFINE installed == IF new[d].prod = None THEN prod[d] ELSE new[d].prod
             history == IF was[d] # None /\ was[d].cmd \in {"merge", "dedupe", "enforce"}
                        THEN was[d] ELSE None
  <2>1. history # None => history.cmd # "batch"
    OBVIOUS
  <2>2. prod' = [prod EXCEPT ![d] = installed] /\ was' = [was EXCEPT ![d] = history]
    BY <1>9 DEF Recover, Remember
  <2> HIDE DEF installed, history
  <2> QED BY <2>1, <2>2, OneBatched
<1>10. ASSUME NEW d \in Dir, NEW b \in Batches, BatchApply(d, b) PROVE Batched'
  <2> DEFINE history == [cmd |-> "batch", batch |-> b]
  <2>1. history.batch = b
    OBVIOUS
  <2>2. /\ Ran(prod[d], b) # None
        /\ prod' = [prod EXCEPT ![d] = Stored(Ran(prod[d], b))] /\ was' = [was EXCEPT ![d] = history]
    BY <1>10 DEF BatchApply, Save, Remember
  <2> HIDE DEF history
  <2>3. /\ prod'[d] = Stored(Ran(prod[d], b)) /\ was'[d] = history
        /\ \A x \in Dir \ {d} : was'[x] = was[x] /\ prod'[x] = prod[x]
    BY <2>2, OneEntry DEF IInv, Maps
  <2>4. prod[d] = Stored(prod[d])
    BY DEF IInv, Printouts
  <2>5. BatchedAt(was'[d], prod'[d])
    BY <2>1, <2>2, <2>3, <2>4 DEF BatchedAt
  <2> QED BY <2>3, <2>5 DEF Batched
<1> QED BY <1>1, <1>4, <1>5, <1>6, <1>7, <1>8, <1>9, <1>10 DEF Next, Command

\* For every batch of any length: applied again to what it has made it is
\* refused, for it adds a product, or changes nothing.
THEOREM BatchRetryHarmlessHolds == ASSUME PrintsAgain PROVE Spec => BatchRetryHarmless
<1>1. Init => Batched
  BY DEF Init, Batched, BatchedAt
<1>2. ASSUME IInv, Batched, NEW d \in Dir, was[d] # None, was[d].cmd = "batch",
             BatchApply(d, was[d].batch)
      PROVE  prod'[d] = prod[d]
  <2>1. PICK c : /\ c = Stored(c) /\ Ran(c, was[d].batch) # None
                 /\ prod[d] = Stored(Ran(c, was[d].batch)) /\ was[d].batch \in Batches
    BY <1>2 DEF Batched, BatchedAt
  <2>2. Ran(prod[d], was[d].batch) # None /\ prod'[d] = Stored(Ran(prod[d], was[d].batch))
    BY <1>2 DEF BatchApply, Save, IInv, Maps
  <2>3. Len(was[d].batch) \in Nat
    BY <2>1, CatalogAssumption
  <2> QED BY <2>1, <2>2, <2>3, RanAgain
<1>3. IInv /\ Batched /\ [Next]_vars
        => [\A d \in Dir : was[d] # None /\ was[d].cmd = "batch" =>
                (BatchApply(d, was[d].batch) => prod'[d] = prod[d])]_vars
  BY <1>2
<1> QED BY <1>1, <1>3, InitInv, NextInv, NextBatched, PTL DEF Spec, BatchRetryHarmless

-----------------------------------------------------------------------------
(* Sums                                                                      *)
\* s[i] is the sum of the first i numbers of f.
Adds(s, f, m) == s = [i \in 0 .. m |-> IF i = 0 THEN 0 ELSE s[i - 1] + f[i]]

LEMMA AddsExist == ASSUME NEW f, NEW m \in Nat PROVE \E s : Adds(s, f, m)
<1> DEFINE T == {k \in Nat : \E s : Adds(s, f, k)}
<1>1. 0 \in T
  <2> DEFINE s == [i \in 0 .. 0 |-> 0]
  <2>1. Adds(s, f, 0)
    BY DEF Adds
  <2> HIDE DEF s
  <2> QED BY <2>1
<1>2. ASSUME NEW k \in T PROVE k + 1 \in T
  <2>1. PICK s : Adds(s, f, k)
    OBVIOUS
  <2> DEFINE t == [i \in 0 .. k + 1 |-> IF i <= k THEN s[i] ELSE s[k] + f[k + 1]]
  <2>2. ASSUME NEW i \in 0 .. k + 1 PROVE t[i] = IF i = 0 THEN 0 ELSE t[i - 1] + f[i]
    <3>1. CASE i = k + 1
      <4>1. t[i] = s[k] + f[k + 1] /\ t[i - 1] = s[k] /\ i # 0
        BY <3>1
      <4> HIDE DEF t
      <4> QED BY <3>1, <4>1
    <3>2. CASE i \in 0 .. k
      <4>1. s[i] = IF i = 0 THEN 0 ELSE s[i - 1] + f[i]
        BY <2>1, <3>2 DEF Adds
      <4>2. t[i] = s[i] /\ (i # 0 => t[i - 1] = s[i - 1])
        BY <3>2
      <4> HIDE DEF t
      <4> QED BY <4>1, <4>2
    <3> QED BY <3>1, <3>2
  <2>3. t = [i \in 0 .. k + 1 |-> t[i]]
    OBVIOUS
  <2> HIDE DEF t
  <2>4. Adds(t, f, k + 1)
    BY <2>2, <2>3 DEF Adds
  <2> QED BY <2>4
<1> HIDE DEF T
<1>3. T = Nat
  BY <1>1, <1>2, SetInduction DEF T
<1> QED BY <1>3 DEF T

LEMMA AddsAgree ==
    ASSUME NEW f, NEW m \in Nat, NEW len \in 0 .. m, NEW s, NEW t, Adds(s, f, m), Adds(t, f, len)
    PROVE  \A k \in 0 .. len : s[k] = t[k]
<1> DEFINE T == {k \in Nat : k <= len => s[k] = t[k]}
<1>1. /\ s[0] = 0 /\ t[0] = 0
      /\ \A k \in 0 .. len - 1 : s[k + 1] = s[k] + f[k + 1] /\ t[k + 1] = t[k] + f[k + 1]
  BY DEF Adds
<1>2. 0 \in T
  BY <1>1
<1>3. ASSUME NEW k \in T PROVE k + 1 \in T
  <2>1. k + 1 <= len => s[k] = t[k] /\ k \in 0 .. len - 1
    OBVIOUS
  <2> QED BY <1>1, <2>1
<1> HIDE DEF T
<1>4. T = Nat
  BY <1>2, <1>3, SetInduction DEF T
<1> QED BY <1>4 DEF T

LEMMA SumSteps ==
    ASSUME NEW f, NEW k \in Nat
    PROVE  SumTo(f, 0) = 0 /\ SumTo(f, k + 1) = SumTo(f, k) + f[k + 1]
<1> DEFINE sum(m) == CHOOSE s : Adds(s, f, m)
<1>1. \A m \in Nat : Adds(sum(m), f, m) /\ SumTo(f, m) = sum(m)[m]
  <2>1. ASSUME NEW m \in Nat PROVE Adds(sum(m), f, m)
    BY AddsExist
  <2>2. \A m \in Nat : SumTo(f, m) = sum(m)[m]
    BY DEF SumTo, Adds
  <2> QED BY <2>1, <2>2
<1> HIDE DEF sum
<1>2. sum(k + 1)[k] = sum(k)[k]
  <2>1. Adds(sum(k + 1), f, k + 1) /\ Adds(sum(k), f, k) /\ k \in 0 .. k + 1 /\ k \in 0 .. k
    BY <1>1
  <2>2. \A i \in 0 .. k : sum(k + 1)[i] = sum(k)[i]
    BY <2>1, AddsAgree
  <2> QED BY <2>1, <2>2
<1>3. sum(0)[0] = 0
  BY <1>1 DEF Adds
<1>4. sum(k + 1)[k + 1] = sum(k + 1)[k] + f[k + 1]
  <2>1. Adds(sum(k + 1), f, k + 1) /\ k + 1 \in 0 .. k + 1 /\ k + 1 # 0 /\ (k + 1) - 1 = k
    BY <1>1
  <2> QED BY <2>1 DEF Adds
<1> QED BY <1>1, <1>2, <1>3, <1>4

LEMMA SumInt ==
    ASSUME NEW f, NEW m \in Nat, \A i \in 1 .. m : f[i] \in Int
    PROVE  \A k \in 0 .. m : SumTo(f, k) \in Int
<1> DEFINE T == {k \in Nat : k <= m => SumTo(f, k) \in Int}
<1>1. 0 \in T
  BY SumSteps
<1>2. ASSUME NEW k \in T PROVE k + 1 \in T
  <2>1. SumTo(f, k + 1) = SumTo(f, k) + f[k + 1]
    BY SumSteps
  <2>2. k + 1 <= m => k + 1 \in 1 .. m /\ SumTo(f, k) \in Int
    OBVIOUS
  <2> QED BY <2>1, <2>2
<1> HIDE DEF T
<1>3. T = Nat
  BY <1>1, <1>2, SetInduction DEF T
<1> QED BY <1>3 DEF T

\* Numbers that are the same have the same sum.
LEMMA SumSame ==
    ASSUME NEW f, NEW g, NEW m \in Nat, \A i \in 1 .. m : f[i] = g[i]
    PROVE  SumTo(f, m) = SumTo(g, m)
<1> DEFINE T == {k \in Nat : k <= m => SumTo(f, k) = SumTo(g, k)}
<1>1. 0 \in T
  BY SumSteps
<1>2. ASSUME NEW k \in T PROVE k + 1 \in T
  <2>1. SumTo(f, k + 1) = SumTo(f, k) + f[k + 1] /\ SumTo(g, k + 1) = SumTo(g, k) + g[k + 1]
    BY SumSteps
  <2>2. k + 1 <= m => f[k + 1] = g[k + 1] /\ SumTo(f, k) = SumTo(g, k)
    OBVIOUS
  <2> QED BY <2>1, <2>2
<1> HIDE DEF T
<1>3. T = Nat
  BY <1>1, <1>2, SetInduction DEF T
<1>4. m \in T
  BY <1>3
<1> QED BY <1>4 DEF T

\* If the number at j grows by v the sum does.
LEMMA SumGrows ==
    ASSUME NEW f, NEW g, NEW m \in Nat, NEW j \in 1 .. m, NEW v \in Int,
           \A i \in 1 .. m : f[i] \in Int,
           \A i \in 1 .. m : g[i] = IF i = j THEN f[i] + v ELSE f[i]
    PROVE  SumTo(g, m) = SumTo(f, m) + v
<1> DEFINE T == {k \in Nat : k <= m => SumTo(g, k) = SumTo(f, k) + IF k < j THEN 0 ELSE v}
<1>1. 0 \in T
  BY SumSteps
<1>2. ASSUME NEW k \in T PROVE k + 1 \in T
  <2> SUFFICES ASSUME k + 1 <= m PROVE SumTo(g, k + 1) = SumTo(f, k + 1) + IF k + 1 < j THEN 0 ELSE v
    OBVIOUS
  <2>1. SumTo(f, k + 1) = SumTo(f, k) + f[k + 1] /\ SumTo(g, k + 1) = SumTo(g, k) + g[k + 1]
    BY SumSteps
  <2>2. k + 1 \in 1 .. m /\ SumTo(g, k) = SumTo(f, k) + IF k < j THEN 0 ELSE v
    OBVIOUS
  <2>3. SumTo(f, k) \in Int
    BY <2>2, SumInt
  <2>4. f[k + 1] \in Int /\ g[k + 1] = IF k + 1 = j THEN f[k + 1] + v ELSE f[k + 1]
    BY <2>2
  <2>5. CASE k + 1 < j
    <3>1. k < j /\ k + 1 # j
      BY <2>5
    <3> QED BY <2>1, <2>2, <2>3, <2>4, <2>5, <3>1
  <2>6. CASE k + 1 = j
    BY <2>1, <2>2, <2>3, <2>4, <2>6
  <2>7. CASE k + 1 > j
    <3>1. ~(k < j) /\ ~(k + 1 < j) /\ k + 1 # j
      BY <2>7
    <3> QED BY <2>1, <2>2, <2>3, <2>4, <3>1
  <2> QED BY <2>5, <2>6, <2>7
<1> HIDE DEF T
<1>3. T = Nat
  BY <1>1, <1>2, SetInduction DEF T
<1>4. m \in T
  BY <1>3
<1> QED BY <1>4 DEF T

LEMMA SumZero ==
    ASSUME NEW f, NEW m \in Nat, \A i \in 1 .. m : f[i] = 0
    PROVE  SumTo(f, m) = 0
<1> DEFINE T == {k \in Nat : k <= m => SumTo(f, k) = 0}
<1>1. 0 \in T
  BY SumSteps
<1>2. ASSUME NEW k \in T PROVE k + 1 \in T
  <2>1. SumTo(f, k + 1) = SumTo(f, k) + f[k + 1]
    BY SumSteps
  <2>2. k + 1 <= m => f[k + 1] = 0 /\ SumTo(f, k) = 0
    OBVIOUS
  <2> QED BY <2>1, <2>2
<1> HIDE DEF T
<1>3. T = Nat
  BY <1>1, <1>2, SetInduction DEF T
<1>4. m \in T
  BY <1>3
<1> QED BY <1>4 DEF T

\* If one number is not zero it is the sum.
LEMMA SumOne ==
    ASSUME NEW f, NEW m \in Nat, NEW j \in 1 .. m, f[j] \in Int, \A i \in 1 .. m \ {j} : f[i] = 0
    PROVE  SumTo(f, m) = f[j]
<1> DEFINE z == [i \in 1 .. m |-> 0]
<1>1. \A i \in 1 .. m : z[i] = 0
  OBVIOUS
<1>2. \A i \in 1 .. m : z[i] \in Int
  OBVIOUS
<1> HIDE DEF z
<1>3. SumTo(f, m) = SumTo(z, m) + f[j]
  <2> DEFINE v == f[j]
  <2>1. \A i \in 1 .. m : f[i] = IF i = j THEN z[i] + v ELSE z[i]
    BY <1>1
  <2>2. v \in Int
    OBVIOUS
  <2> HIDE DEF v
  <2>3. SumTo(f, m) = SumTo(z, m) + v
    BY <1>2, <2>1, <2>2, SumGrows
  <2> QED BY <2>3 DEF v
<1>4. SumTo(z, m) = 0
  BY <1>1, SumZero
<1> QED BY <1>3, <1>4

-----------------------------------------------------------------------------
(* Lists of items                                                            *)
LEMMA LinesFacts ==
    ASSUME NEW s, Lines(s)
    PROVE  /\ Len(s) \in Nat /\ DOMAIN s = 1 .. Len(s) /\ s = [i \in 1 .. Len(s) |-> s[i]]
           /\ \A i \in 1 .. Len(s) :
                /\ s[i] = [product |-> s[i].product, qty |-> s[i].qty, price |-> s[i].price]
                /\ s[i].product \in Products(s) /\ s[i].qty \in Int /\ s[i].price \in Int
           /\ \A id \in Products(s) : \E i \in 1 .. Len(s) : s[i].product = id
<1> DEFINE R == [product : Products(s), qty : Int, price : Int]
<1>1. s \in Seq(R)
  BY DEF Lines
<1>2. /\ Len(s) \in Nat /\ DOMAIN s = 1 .. Len(s) /\ s = [i \in 1 .. Len(s) |-> s[i]]
      /\ \A i \in 1 .. Len(s) : s[i] \in R
  <2> HIDE DEF R
  <2> QED BY <1>1
<1>3. \A id \in Products(s) : \E i \in 1 .. Len(s) : s[i].product = id
  BY <1>2 DEF Products
<1> QED BY <1>2, <1>3

LEMMA MakeLines ==
    ASSUME NEW m \in Nat, NEW s, s = [i \in 1 .. m |-> s[i]],
           \A i \in 1 .. m :
                /\ s[i] = [product |-> s[i].product, qty |-> s[i].qty, price |-> s[i].price]
                /\ s[i].qty \in Int /\ s[i].price \in Int
    PROVE  Lines(s) /\ Len(s) = m
<1> DEFINE R == [product : Products(s), qty : Int, price : Int]
<1>1. DOMAIN s = 1 .. m
  OBVIOUS
<1>2. \A i \in 1 .. m : s[i].product \in Products(s)
  BY <1>1 DEF Products
<1>3. \A i \in 1 .. m : s[i] \in R
  BY <1>2
<1> HIDE DEF R
<1>4. [i \in 1 .. m |-> s[i]] \in Seq(R) /\ Len([i \in 1 .. m |-> s[i]]) = m
  BY <1>3
<1>5. s \in Seq(R) /\ Len(s) = m
  BY <1>4
<1> QED BY <1>5 DEF Lines, R

LEMMA ProductsFinite == ASSUME NEW s, Lines(s) PROVE IsFiniteSet(Products(s))
<1> DEFINE f == [i \in 1 .. Len(s) |-> s[i].product]
<1>1. f \in Surjection(1 .. Len(s), Products(s))
  BY LinesFacts DEF Surjection
<1>2. IsFiniteSet(1 .. Len(s))
  <2>1. Len(s) \in Int /\ 1 \in Int
    BY LinesFacts
  <2> QED BY <2>1, FS_Interval
<1> HIDE DEF f
<1> QED BY <1>1, <1>2, FS_Surjection

\* What the lines of items add to the units of the product id.
Units(items, id) == [i \in DOMAIN items |-> IF items[i].product = id THEN items[i].qty ELSE 0]
Worth(items, id) ==
    [i \in DOMAIN items |-> IF items[i].product = id THEN items[i].price * items[i].qty ELSE 0]

LEMMA QtyInt ==
    ASSUME NEW s, Lines(s), NEW id
    PROVE  /\ \A i \in 1 .. Len(s) : Units(s, id)[i] \in Int
           /\ Qty(s, id) = SumTo(Units(s, id), Len(s)) /\ Qty(s, id) \in Int
<1>1. \A i \in 1 .. Len(s) : Units(s, id)[i] \in Int
  <2>1. DOMAIN s = 1 .. Len(s) /\ \A i \in 1 .. Len(s) : s[i].qty \in Int
    BY LinesFacts
  <2> QED BY <2>1 DEF Units
<1>2. Qty(s, id) = SumTo(Units(s, id), Len(s))
  BY DEF Qty, Units
<1>3. Len(s) \in Nat
  BY LinesFacts
<1>4. \A k \in 0 .. Len(s) : SumTo(Units(s, id), k) \in Int
  BY <1>1, <1>3, SumInt
<1> QED BY <1>1, <1>2, <1>3, <1>4

\* An order without a line of a product has no units of it.
LEMMA QtyNone ==
    ASSUME NEW s, Lines(s), NEW id, id \notin Products(s)
    PROVE  Qty(s, id) = 0
<1>1. \A i \in 1 .. Len(s) : Units(s, id)[i] = 0
  BY LinesFacts DEF Units
<1> QED BY <1>1, SumZero, QtyInt, LinesFacts

\* The units of a product with one line are those of the line.
LEMMA QtyOne ==
    ASSUME NEW s, Lines(s), NoLineTwice(s), NEW j \in 1 .. Len(s)
    PROVE  Qty(s, s[j].product) = s[j].qty
<1> DEFINE u == Units(s, s[j].product)
<1>1. /\ Len(s) \in Nat /\ DOMAIN s = 1 .. Len(s)
      /\ \A i \in 1 .. Len(s) : s[i].product = s[j].product => i = j
  BY LinesFacts DEF NoLineTwice
<1>2. u[j] = s[j].qty /\ u[j] \in Int /\ \A i \in 1 .. Len(s) \ {j} : u[i] = 0
  BY <1>1, LinesFacts DEF Units
<1>3. Qty(s, s[j].product) = SumTo(u, Len(s))
  BY DEF Qty, Units
<1> HIDE DEF u
<1>4. SumTo(u, Len(s)) = u[j]
  BY <1>1, <1>2, SumOne
<1> QED BY <1>2, <1>3, <1>4

-----------------------------------------------------------------------------
\* A map of slots, each with the product it stands for.
Slots(m) ==
    /\ m = [id \in DOMAIN m |-> m[id]] /\ IsFiniteSet(DOMAIN m)
    /\ \A id \in DOMAIN m : /\ m[id] = [product |-> id, qty |-> m[id].qty, price |-> m[id].price]
                            /\ m[id].qty \in Int /\ m[id].price \in Int

LEMMA Enumerated ==
    ASSUME NEW S, IsFiniteSet(S)
    PROVE  /\ Cardinality(S) \in Nat /\ SetToSeq(S) \in [1 .. Cardinality(S) -> S]
           /\ \A i, j \in 1 .. Cardinality(S) : SetToSeq(S)[i] = SetToSeq(S)[j] => i = j
           /\ \A id \in S : \E i \in 1 .. Cardinality(S) : SetToSeq(S)[i] = id
<1> DEFINE len == Cardinality(S)
           e == SetToSeq(S)
<1>1. len \in Nat /\ ExistsBijection(1 .. len, S)
  BY FS_CardinalityType
<1>2. \E f \in [1 .. len -> S] : IsInjective(f)
  BY <1>1 DEF ExistsBijection, Bijection, Injection
<1>3. e \in [1 .. len -> S] /\ IsInjective(e)
  BY <1>2 DEF SetToSeq
<1>4. e \in Injection(1 .. len, S)
  BY <1>3 DEF Injection
<1>5. IsFiniteSet(1 .. len) /\ Cardinality(1 .. len) = len
  BY <1>1, FS_Interval
<1>6. e \in Surjection(1 .. len, S)
  BY <1>4, <1>5, FS_Injection
<1>7. \A id \in S : \E i \in 1 .. len : e[i] = id
  BY <1>6 DEF Surjection
<1>8. \A i, j \in 1 .. len : e[i] = e[j] => i = j
  BY <1>3 DEF IsInjective
<1> QED BY <1>1, <1>3, <1>7, <1>8

\* The items of slots: one line of each product.
LEMMA ItemsFacts ==
    ASSUME NEW m, Slots(m)
    PROVE  /\ Lines(Items(m)) /\ NoLineTwice(Items(m)) /\ Products(Items(m)) = DOMAIN m
           /\ Len(Items(m)) = Cardinality(DOMAIN m) /\ Cardinality(DOMAIN m) \in Nat
           /\ \A i \in 1 .. Cardinality(DOMAIN m) : Items(m)[i] = m[SetToSeq(DOMAIN m)[i]]
           /\ \A id \in DOMAIN m : Qty(Items(m), id) = m[id].qty
<1> DEFINE S == DOMAIN m
           len == Cardinality(S)
           e == SetToSeq(S)
           t == Items(m)
<1>1. /\ len \in Nat /\ e \in [1 .. len -> S] /\ \A i, j \in 1 .. len : e[i] = e[j] => i = j
      /\ \A id \in S : \E i \in 1 .. len : e[i] = id
  BY Enumerated DEF Slots
<1>2. t = [i \in 1 .. len |-> m[e[i]]]
  BY <1>1 DEF Items
<1>3. /\ DOMAIN t = 1 .. len /\ t = [i \in 1 .. len |-> t[i]]
      /\ \A i \in 1 .. len : t[i] = m[e[i]]
  BY <1>2
<1>4. \A id \in S : /\ m[id] = [product |-> id, qty |-> m[id].qty, price |-> m[id].price]
                    /\ m[id].qty \in Int /\ m[id].price \in Int
  BY DEF Slots
<1> HIDE DEF S, len, e, t
<1>5. ASSUME NEW id \in S PROVE m[id].product = id
  <2> DEFINE r == [product |-> id, qty |-> m[id].qty, price |-> m[id].price]
  <2>1. r.product = id
    OBVIOUS
  <2>2. m[id] = r
    BY <1>4
  <2> HIDE DEF r
  <2> QED BY <2>1, <2>2
<1>6. ASSUME NEW i \in 1 .. len
      PROVE  /\ e[i] \in S /\ t[i].product = e[i] /\ t[i].qty = m[e[i]].qty
             /\ t[i] = [product |-> t[i].product, qty |-> t[i].qty, price |-> t[i].price]
             /\ t[i].qty \in Int /\ t[i].price \in Int
  <2>1. e[i] \in S
    BY <1>1
  <2>2. t[i] = m[e[i]]
    BY <1>3
  <2> QED BY <1>4, <1>5, <2>1, <2>2
<1>7. Lines(t) /\ Len(t) = len
  <2>1. \A i \in 1 .. len :
            /\ t[i] = [product |-> t[i].product, qty |-> t[i].qty, price |-> t[i].price]
            /\ t[i].qty \in Int /\ t[i].price \in Int
    BY <1>6
  <2> QED BY <1>1, <1>3, <2>1, MakeLines
<1>8. NoLineTwice(t)
  BY <1>1, <1>3, <1>6 DEF NoLineTwice
<1>9. Products(t) = S
  BY <1>1, <1>3, <1>6 DEF Products
<1>10. ASSUME NEW id \in S PROVE Qty(t, id) = m[id].qty
  <2>1. PICK i \in 1 .. len : e[i] = id
    BY <1>1
  <2>2. Qty(t, t[i].product) = t[i].qty
    BY <1>7, <1>8, QtyOne
  <2> QED BY <1>6, <2>1, <2>2
<1> QED BY <1>1, <1>3, <1>7, <1>8, <1>9, <1>10 DEF S, len, e, t

-----------------------------------------------------------------------------
(* Joining lines to slots                                                    *)
\* a[i] is the map m after the first i lines of s have joined it.
Joins(a, m, s, len) == a = [i \in 0 .. len |-> IF i = 0 THEN m ELSE Join(a[i - 1], s[i])]

LEMMA JoinsExist == ASSUME NEW m, NEW s, NEW len \in Nat PROVE \E a : Joins(a, m, s, len)
<1> DEFINE T == {k \in Nat : \E a : Joins(a, m, s, k)}
<1>1. 0 \in T
  <2> DEFINE a == [i \in 0 .. 0 |-> m]
  <2>1. Joins(a, m, s, 0)
    BY DEF Joins
  <2> HIDE DEF a
  <2> QED BY <2>1
<1>2. ASSUME NEW k \in T PROVE k + 1 \in T
  <2>1. PICK a : Joins(a, m, s, k)
    OBVIOUS
  <2> DEFINE b == [i \in 0 .. k + 1 |-> IF i <= k THEN a[i] ELSE Join(a[k], s[k + 1])]
  <2>2. ASSUME NEW i \in 0 .. k + 1 PROVE b[i] = IF i = 0 THEN m ELSE Join(b[i - 1], s[i])
    <3>1. CASE i = k + 1
      <4>1. b[i] = Join(a[k], s[k + 1]) /\ b[i - 1] = a[k] /\ i # 0
        BY <3>1
      <4> HIDE DEF b
      <4> QED BY <3>1, <4>1
    <3>2. CASE i \in 0 .. k
      <4>1. a[i] = IF i = 0 THEN m ELSE Join(a[i - 1], s[i])
        BY <2>1, <3>2 DEF Joins
      <4>2. b[i] = a[i] /\ (i # 0 => b[i - 1] = a[i - 1])
        BY <3>2
      <4> HIDE DEF b
      <4> QED BY <4>1, <4>2
    <3> QED BY <3>1, <3>2
  <2>3. b = [i \in 0 .. k + 1 |-> b[i]]
    OBVIOUS
  <2> HIDE DEF b
  <2>4. Joins(b, m, s, k + 1)
    BY <2>2, <2>3 DEF Joins
  <2> QED BY <2>4
<1> HIDE DEF T
<1>3. T = Nat
  BY <1>1, <1>2, SetInduction DEF T
<1> QED BY <1>3 DEF T

LEMMA JoinedJoins ==
    ASSUME NEW m, NEW s, Len(s) \in Nat
    PROVE  \E a : Joins(a, m, s, Len(s)) /\ Joined(m, s) = a[Len(s)]
<1> DEFINE a == CHOOSE a : Joins(a, m, s, Len(s))
<1>1. Joins(a, m, s, Len(s))
  BY JoinsExist
<1>2. Joined(m, s) = a[Len(s)]
  BY DEF Joined, Joins
<1> HIDE DEF a
<1> QED BY <1>1, <1>2

\* The units of the product id in the slots m.
Has(m, id) == IF id \in DOMAIN m THEN m[id].qty ELSE 0

\* j is m with the line it joined to it.
Grown(j, m, it) ==
    /\ Slots(j) /\ DOMAIN j = DOMAIN m \cup {it.product}
    /\ \A id : Has(j, id) = Has(m, id) + IF id = it.product THEN it.qty ELSE 0
    /\ \A id \in DOMAIN j : j[id].price = IF id \in DOMAIN m THEN m[id].price ELSE it.price

LEMMA JoinOne ==
    ASSUME NEW m, Slots(m), NEW it, it = [product |-> it.product, qty |-> it.qty, price |-> it.price],
           it.qty \in Int, it.price \in Int
    PROVE  Grown(Join(m, it), m, it)
<1> DEFINE j == Join(m, it)
           S == DOMAIN m \cup {it.product}
<1>1. DOMAIN j = S /\ j = [id \in S |-> j[id]]
  BY DEF Join
<1>2. IsFiniteSet(S)
  BY FS_AddElement DEF Slots
<1>3. ASSUME NEW id \in S
      PROVE  j[id] = IF id \notin DOMAIN m THEN it
                     ELSE [product |-> m[id].product, price |-> m[id].price,
                           qty |-> m[id].qty + IF id = it.product THEN it.qty ELSE 0]
  BY DEF Join
<1> HIDE DEF j, S
<1>4. ASSUME NEW id \in S
      PROVE  /\ j[id] = [product |-> id, qty |-> j[id].qty, price |-> j[id].price]
             /\ j[id].qty \in Int /\ j[id].price \in Int
             /\ j[id].qty = Has(m, id) + IF id = it.product THEN it.qty ELSE 0
             /\ j[id].price = IF id \in DOMAIN m THEN m[id].price ELSE it.price
  <2>1. CASE id \notin DOMAIN m
    <3>1. id = it.product /\ j[id] = it
      BY <1>3, <2>1 DEF S
    <3> QED BY <2>1, <3>1 DEF Has
  <2>2. CASE id \in DOMAIN m
    <3> DEFINE v == IF id = it.product THEN it.qty ELSE 0
               r == [product |-> m[id].product, price |-> m[id].price, qty |-> m[id].qty + v]
    <3>1. j[id] = r
      BY <1>3, <2>2
    <3>2. m[id].qty \in Int /\ m[id].price \in Int /\ m[id].product = id
      <4>1. m[id] = [product |-> id, qty |-> m[id].qty, price |-> m[id].price]
            /\ m[id].qty \in Int /\ m[id].price \in Int
        BY <2>2 DEF Slots
      <4>2. [product |-> id, qty |-> m[id].qty, price |-> m[id].price].product = id
        OBVIOUS
      <4> QED BY <4>1, <4>2
    <3>3. v \in Int
      OBVIOUS
    <3>4. r.product = id /\ r.price = m[id].price /\ r.qty = m[id].qty + v
      BY <3>2
    <3>5. r = [product |-> r.product, qty |-> r.qty, price |-> r.price]
      OBVIOUS
    <3>6. Has(m, id) = m[id].qty
      BY <2>2 DEF Has
    <3> HIDE DEF r, v
    <3>7. /\ j[id] = [product |-> id, qty |-> j[id].qty, price |-> j[id].price]
          /\ j[id].qty = Has(m, id) + v /\ j[id].price = m[id].price
          /\ j[id].qty \in Int /\ j[id].price \in Int
      BY <3>1, <3>2, <3>3, <3>4, <3>5, <3>6
    <3> QED BY <2>2, <3>7 DEF v
  <2> QED BY <2>1, <2>2
<1>5. Slots(j)
  BY <1>1, <1>2, <1>4 DEF Slots
<1>6. ASSUME NEW id PROVE Has(j, id) = Has(m, id) + IF id = it.product THEN it.qty ELSE 0
  <2>1. CASE id \in S
    BY <1>1, <1>4, <2>1 DEF Has
  <2>2. CASE id \notin S
    <3>1. id \notin DOMAIN m /\ id # it.product
      BY <2>2 DEF S
    <3> QED BY <1>1, <2>2, <3>1 DEF Has
  <2> QED BY <2>1, <2>2
<1>7. Grown(j, m, it)
  BY <1>1, <1>4, <1>5, <1>6 DEF Grown, S
<1> QED BY <1>7 DEF j

\* What a slot has after the lines of s have joined m, and where its price is from.
LEMMA JoinedFacts ==
    ASSUME NEW m, Slots(m), NEW s, Lines(s)
    PROVE  /\ Slots(Joined(m, s)) /\ DOMAIN Joined(m, s) = DOMAIN m \cup Products(s)
           /\ \A id : Has(Joined(m, s), id) = Has(m, id) + Qty(s, id)
           /\ \A id \in DOMAIN Joined(m, s) :
                \/ id \in DOMAIN m /\ Joined(m, s)[id].price = m[id].price
                \/ \E i \in 1 .. Len(s) : s[i].product = id /\ Joined(m, s)[id].price = s[i].price
           /\ (\A id \in DOMAIN m : m[id].qty > 0) /\ (\A i \in 1 .. Len(s) : s[i].qty > 0)
                => \A id \in DOMAIN Joined(m, s) : Joined(m, s)[id].qty > 0
<1> DEFINE len == Len(s)
           u(id) == Units(s, id)
           Priced(j) == \A id \in DOMAIN j :
                \/ id \in DOMAIN m /\ j[id].price = m[id].price
                \/ \E i \in 1 .. len : s[i].product = id /\ j[id].price = s[i].price
           Positive(j) == (\A id \in DOMAIN m : m[id].qty > 0) /\ (\A i \in 1 .. len : s[i].qty > 0)
                            => \A id \in DOMAIN j : j[id].qty > 0
<1>1. len \in Nat /\ DOMAIN s = 1 .. len
  BY LinesFacts
<1>2. \A i \in 1 .. len : /\ s[i] = [product |-> s[i].product, qty |-> s[i].qty, price |-> s[i].price]
                        /\ s[i].qty \in Int /\ s[i].price \in Int
  BY LinesFacts
<1>3. Products(s) = {s[i].product : i \in 1 .. len}
  BY <1>1 DEF Products
<1>4. \A id : \A i \in 1 .. len : u(id)[i] = IF s[i].product = id THEN s[i].qty ELSE 0
  BY <1>1 DEF Units
<1>5. \A id : Qty(s, id) = SumTo(u(id), len)
  BY DEF Qty, Units
<1>6. PICK a : Joins(a, m, s, len) /\ Joined(m, s) = a[len]
  BY <1>1, JoinedJoins
<1> HIDE DEF len, u
<1>7. ASSUME NEW id, NEW k \in 0 .. len PROVE SumTo(u(id), k) \in Int
  <2>1. \A i \in 1 .. len : u(id)[i] \in Int
    <3>1. \A i \in 1 .. len : s[i].qty \in Int
      BY <1>2
    <3> QED BY <1>4, <3>1
  <2> QED BY <1>1, <2>1, SumInt
<1>8. \A id : Has(m, id) \in Int
  BY DEF Has, Slots
<1> DEFINE Inv(k) == /\ Slots(a[k]) /\ DOMAIN a[k] = DOMAIN m \cup {s[i].product : i \in 1 .. k}
                     /\ \A id : Has(a[k], id) = Has(m, id) + SumTo(u(id), k)
                     /\ Priced(a[k]) /\ Positive(a[k])
<1>9. Inv(0)
  <2>1. a[0] = m
    BY <1>1, <1>6 DEF Joins
  <2>2. \A id : SumTo(u(id), 0) = 0
    BY SumSteps
  <2>3. DOMAIN m = DOMAIN m \cup {s[i].product : i \in 1 .. 0}
    OBVIOUS
  <2>4. Priced(m) /\ Positive(m)
    OBVIOUS
  <2> HIDE DEF Priced, Positive
  <2> QED BY <1>8, <2>1, <2>2, <2>3, <2>4
<1>10. ASSUME NEW k \in 0 .. len - 1, Inv(k) PROVE Inv(k + 1)
  <2> DEFINE it == s[k + 1]
             j == a[k]
  <2>1. k \in Nat /\ k \in 0 .. len /\ k + 1 \in 1 .. len
    BY <1>1
  <2>2. a[k + 1] = Join(j, it)
    <3>1. k + 1 \in 0 .. len /\ k + 1 # 0 /\ (k + 1) - 1 = k
      BY <1>1
    <3> QED BY <1>6, <3>1 DEF Joins
  <2>3. it.qty \in Int
    BY <1>2, <2>1
  <2>4. Slots(j)
    BY <1>10
  <2> HIDE DEF it, j
  <2>5. /\ Slots(Join(j, it)) /\ DOMAIN Join(j, it) = DOMAIN j \cup {it.product}
        /\ \A id : Has(Join(j, it), id) = Has(j, id) + IF id = it.product THEN it.qty ELSE 0
        /\ \A id \in DOMAIN Join(j, it) :
                Join(j, it)[id].price = IF id \in DOMAIN j THEN j[id].price ELSE it.price
    <3>1. it = [product |-> it.product, qty |-> it.qty, price |-> it.price]
      BY <1>2, <2>1 DEF it
    <3>2. it.price \in Int
      BY <1>2, <2>1 DEF it
    <3>3. Grown(Join(j, it), j, it)
      BY <2>3, <2>4, <3>1, <3>2, JoinOne
    <3> QED BY <3>3 DEF Grown
  <2>6. DOMAIN a[k + 1] = DOMAIN m \cup {s[i].product : i \in 1 .. k + 1}
    <3>1. 1 .. k + 1 = (1 .. k) \cup {k + 1}
      BY <2>1
    <3>2. DOMAIN j = DOMAIN m \cup {s[i].product : i \in 1 .. k}
      BY <1>10 DEF j
    <3> QED BY <2>2, <2>5, <3>1, <3>2 DEF it
  <2>7. ASSUME NEW id PROVE Has(a[k + 1], id) = Has(m, id) + SumTo(u(id), k + 1)
    <3>1. SumTo(u(id), k + 1) = SumTo(u(id), k) + u(id)[k + 1]
      BY <2>1, SumSteps
    <3>2. u(id)[k + 1] = IF id = it.product THEN it.qty ELSE 0
      BY <1>4, <2>1 DEF it
    <3>3. Has(j, id) = Has(m, id) + SumTo(u(id), k)
      BY <1>10 DEF j
    <3>4. Has(m, id) \in Int /\ SumTo(u(id), k) \in Int /\ u(id)[k + 1] \in Int
      BY <1>7, <1>8, <2>1, <2>3, <3>2
    <3>5. Has(a[k + 1], id) = Has(j, id) + u(id)[k + 1]
      BY <2>2, <2>5, <3>2
    <3> QED BY <3>1, <3>3, <3>4, <3>5
  <2>8. Priced(a[k + 1])
    <3>1. Priced(j)
      BY <1>10 DEF j
    <3>2. ASSUME NEW id \in DOMAIN Join(j, it)
          PROVE  \/ id \in DOMAIN m /\ Join(j, it)[id].price = m[id].price
                 \/ \E i \in 1 .. len : s[i].product = id /\ Join(j, it)[id].price = s[i].price
      <4>1. CASE id \in DOMAIN j
        BY <2>5, <3>1, <4>1
      <4>2. CASE id \notin DOMAIN j
        <5>1. id = it.product /\ Join(j, it)[id].price = it.price
          BY <2>5, <4>2
        <5> QED BY <2>1, <5>1 DEF it
      <4> QED BY <4>1, <4>2
    <3> QED BY <2>2, <3>2
  <2>9. Positive(a[k + 1])
    <3> SUFFICES ASSUME \A id \in DOMAIN m : m[id].qty > 0, \A i \in 1 .. len : s[i].qty > 0,
                        NEW id \in DOMAIN Join(j, it)
                 PROVE  Join(j, it)[id].qty > 0
      BY <2>2
    <3>1. Positive(j)
      BY <1>10 DEF j
    <3>2. it.qty > 0
      BY <2>1 DEF it
    <3>3. Join(j, it)[id].qty = Has(j, id) + IF id = it.product THEN it.qty ELSE 0
      BY <2>5 DEF Has
    <3>4. CASE id \in DOMAIN j
      <4>1. Has(j, id) > 0 /\ Has(j, id) \in Int
        BY <2>4, <3>1, <3>4 DEF Has, Slots
      <4> QED BY <2>3, <3>2, <3>3, <4>1
    <3>5. CASE id \notin DOMAIN j
      <4>1. id = it.product /\ Has(j, id) = 0
        BY <2>5, <3>5 DEF Has
      <4> QED BY <2>3, <3>2, <3>3, <4>1
    <3> QED BY <3>4, <3>5
  <2> HIDE DEF Priced, Positive
  <2> QED BY <2>2, <2>5, <2>6, <2>7, <2>8, <2>9
<1> HIDE DEF Inv
<1>11. Inv(len)
  <2> DEFINE T == {k \in Nat : k <= len => Inv(k)}
  <2>1. 0 \in T
    BY <1>9
  <2>2. ASSUME NEW k \in T PROVE k + 1 \in T
    <3>1. k + 1 <= len => k \in 0 .. len - 1 /\ Inv(k)
      BY <1>1
    <3> QED BY <1>10, <3>1
  <2> HIDE DEF T
  <2>3. T = Nat
    BY <2>1, <2>2, SetInduction DEF T
  <2> QED BY <1>1, <2>3 DEF T
<1>12. DOMAIN Joined(m, s) = DOMAIN m \cup Products(s)
  BY <1>3, <1>6, <1>11 DEF Inv
<1>13. \A id : Has(Joined(m, s), id) = Has(m, id) + Qty(s, id)
  BY <1>5, <1>6, <1>11 DEF Inv
<1>14. Slots(Joined(m, s)) /\ Priced(Joined(m, s)) /\ Positive(Joined(m, s))
  BY <1>6, <1>11 DEF Inv
<1> QED BY <1>12, <1>13, <1>14 DEF len

-----------------------------------------------------------------------------
(* Totals                                                                    *)
\* The price and the units of a product with one price make its revenue.
LEMMA RevenueIs ==
    ASSUME NEW s, Lines(s), NEW id, NEW c \in Int,
           \A i \in 1 .. Len(s) : s[i].product = id => s[i].price = c
    PROVE  Revenue(s, id) = c * Qty(s, id)
<1> DEFINE len == Len(s)
           w == Worth(s, id)
           u == Units(s, id)
<1>1. len \in Nat /\ DOMAIN s = 1 .. len /\ \A i \in 1 .. len : s[i].qty \in Int
  BY LinesFacts
<1>2. Revenue(s, id) = SumTo(w, len) /\ Qty(s, id) = SumTo(u, len)
  BY DEF Revenue, Qty, Worth, Units
<1>3. \A i \in 1 .. len : u[i] \in Int /\ w[i] = c * u[i]
  <2>1. ASSUME NEW i \in 1 .. len PROVE u[i] \in Int /\ w[i] = c * u[i]
    <3>1. CASE s[i].product = id
      BY <1>1, <3>1 DEF Worth, Units
    <3>2. CASE s[i].product # id
      BY <1>1, <3>2 DEF Worth, Units
    <3> QED BY <3>1, <3>2
  <2> QED BY <2>1
<1> HIDE DEF len, w, u
<1>4. \A k \in 0 .. len : SumTo(u, k) \in Int
  BY <1>1, <1>3, SumInt
<1>5. \A a, b \in Int : c * (a + b) = c * a + c * b
  OBVIOUS
<1> DEFINE T == {k \in Nat : k <= len => SumTo(w, k) = c * SumTo(u, k)}
<1>6. 0 \in T
  BY SumSteps
<1>7. ASSUME NEW k \in T PROVE k + 1 \in T
  <2> SUFFICES ASSUME k + 1 <= len PROVE SumTo(w, k + 1) = c * SumTo(u, k + 1)
    OBVIOUS
  <2>1. SumTo(w, k + 1) = SumTo(w, k) + w[k + 1] /\ SumTo(u, k + 1) = SumTo(u, k) + u[k + 1]
    BY SumSteps
  <2>2. k \in 0 .. len /\ k + 1 \in 1 .. len /\ SumTo(w, k) = c * SumTo(u, k)
    BY <1>1
  <2>3. SumTo(u, k) \in Int /\ u[k + 1] \in Int /\ w[k + 1] = c * u[k + 1]
    BY <1>3, <1>4, <2>2
  <2>4. c * (SumTo(u, k) + u[k + 1]) = c * SumTo(u, k) + c * u[k + 1]
    BY <1>5, <2>3
  <2> QED BY <2>1, <2>2, <2>3, <2>4
<1> HIDE DEF T
<1>8. T = Nat
  BY <1>6, <1>7, SetInduction DEF T
<1>9. SumTo(w, len) = c * SumTo(u, len)
  BY <1>1, <1>8 DEF T
<1> QED BY <1>2, <1>9

\* e[1], ..., e[m] are the members of S, each once.
Lists(e, m, S) ==
    /\ e \in [1 .. m -> S] /\ \A i, j \in 1 .. m : e[i] = e[j] => i = j
    /\ \A id \in S : \E i \in 1 .. m : e[i] = id

\* The revenues of all products of an order make its total.
LEMMA RevenuesAddUp ==
    ASSUME NEW s, Lines(s), NEW m \in Nat, NEW e, Lists(e, m, Products(s))
    PROVE  SumTo([i \in 1 .. m |-> Revenue(s, e[i])], m) = Total(s)
<1> DEFINE len == Len(s)
           all == [i \in DOMAIN s |-> s[i].price * s[i].qty]
           w(id) == Worth(s, id)
           r(k) == [i \in 1 .. m |-> SumTo(w(e[i]), k)]
<1>1. len \in Nat /\ DOMAIN s = 1 .. len
  BY LinesFacts
<1>2. \A i \in 1 .. len : s[i].qty \in Int /\ s[i].price \in Int /\ s[i].product \in Products(s)
  BY LinesFacts
<1>3. \A i \in 1 .. len : all[i] \in Int
  <2>1. \A a, b \in Int : a * b \in Int
    OBVIOUS
  <2> QED BY <1>1, <1>2, <2>1
<1>4. \A id : \A i \in 1 .. len : w(id)[i] = IF s[i].product = id THEN all[i] ELSE 0
  BY <1>1 DEF Worth
<1>5. Total(s) = SumTo(all, len)
  BY DEF Total
<1>6. \A id : Revenue(s, id) = SumTo(w(id), len)
  BY DEF Revenue, Worth
<1> HIDE DEF len, all, w
<1>7. ASSUME NEW id, NEW k \in 0 .. len PROVE SumTo(w(id), k) \in Int
  <2>1. \A i \in 1 .. len : w(id)[i] \in Int
    BY <1>3, <1>4
  <2> QED BY <1>1, <2>1, SumInt
<1> DEFINE T == {k \in Nat : k <= len => SumTo(r(k), m) = SumTo(all, k)}
<1>8. 0 \in T
  <2>1. \A i \in 1 .. m : SumTo(w(e[i]), 0) = 0
    BY SumSteps
  <2>2. \A i \in 1 .. m : r(0)[i] = 0
    BY <2>1
  <2> HIDE DEF r
  <2>3. SumTo(r(0), m) = 0
    BY <2>2, SumZero
  <2> QED BY <2>3, SumSteps
<1>9. ASSUME NEW k \in T PROVE k + 1 \in T
  <2> SUFFICES ASSUME k + 1 <= len PROVE SumTo(r(k + 1), m) = SumTo(all, k + 1)
    OBVIOUS
  <2> DEFINE v == all[k + 1]
  <2>1. k \in 0 .. len /\ k + 1 \in 1 .. len /\ SumTo(r(k), m) = SumTo(all, k)
    BY <1>1
  <2>2. PICK j \in 1 .. m : e[j] = s[k + 1].product
    BY <1>2, <2>1 DEF Lists
  <2>3. v \in Int
    BY <1>3, <2>1
  <2>4. SumTo(all, k + 1) = SumTo(all, k) + v
    BY SumSteps
  <2> HIDE DEF v
  <2>5. \A i \in 1 .. m : r(k)[i] \in Int
    BY <1>7, <2>1
  <2>6. ASSUME NEW i \in 1 .. m PROVE r(k + 1)[i] = IF i = j THEN r(k)[i] + v ELSE r(k)[i]
    <3>1. SumTo(w(e[i]), k + 1) = SumTo(w(e[i]), k) + w(e[i])[k + 1]
      BY SumSteps
    <3>2. w(e[i])[k + 1] = IF i = j THEN v ELSE 0
      <4>1. w(e[i])[k + 1] = IF s[k + 1].product = e[i] THEN v ELSE 0
        BY <1>4, <2>1 DEF v
      <4>2. s[k + 1].product = e[i] <=> i = j
        BY <2>2 DEF Lists
      <4> QED BY <4>1, <4>2
    <3>3. r(k + 1)[i] = r(k)[i] + w(e[i])[k + 1]
      BY <3>1
    <3> HIDE DEF r
    <3> QED BY <2>5, <3>2, <3>3
  <2> HIDE DEF r
  <2>7. SumTo(r(k + 1), m) = SumTo(r(k), m) + v
    <3> DEFINE f == r(k)
               g == r(k + 1)
    <3>1. \A i \in 1 .. m : f[i] \in Int
      BY <2>5
    <3>2. \A i \in 1 .. m : g[i] = IF i = j THEN f[i] + v ELSE f[i]
      BY <2>6
    <3> HIDE DEF f, g
    <3>3. SumTo(g, m) = SumTo(f, m) + v
      BY <2>2, <2>3, <3>1, <3>2, SumGrows
    <3> QED BY <3>3 DEF f, g
  <2> QED BY <2>1, <2>4, <2>7
<1> HIDE DEF T
<1>10. T = Nat
  BY <1>8, <1>9, SetInduction DEF T
<1> HIDE DEF r
<1>11. SumTo(r(len), m) = SumTo(all, len)
  <2>1. len \in T
    BY <1>1, <1>10
  <2> QED BY <1>1, <2>1 DEF T
<1>12. r(len) = [i \in 1 .. m |-> Revenue(s, e[i])]
  BY <1>6 DEF r
<1> QED BY <1>5, <1>11, <1>12

-----------------------------------------------------------------------------
\* The units of a product in the slots are those of their items.
LEMMA ItemsHave ==
    ASSUME NEW m, Slots(m), NEW id
    PROVE  Qty(Items(m), id) = Has(m, id)
<1>1. CASE id \in DOMAIN m
  BY <1>1, ItemsFacts DEF Has
<1>2. CASE id \notin DOMAIN m
  <2>1. Lines(Items(m)) /\ id \notin Products(Items(m))
    BY <1>2, ItemsFacts
  <2> QED BY <1>2, <2>1, QtyNone DEF Has
<1> QED BY <1>1, <1>2

\* dedupe: one line of each product, with all its units; if all its lines had
\* one price the total is the same.
LEMMA DedupedFacts ==
    ASSUME NEW s, Lines(s)
    PROVE  /\ Lines(Deduped(s)) /\ NoLineTwice(Deduped(s))
           /\ \A id : Qty(Deduped(s), id) = Qty(s, id)
           /\ OnePrice(s) => Total(Deduped(s)) = Total(s)
<1> DEFINE z == <<>>
           j == Joined(z, s)
           t == Items(j)
           m == Cardinality(DOMAIN j)
           e == SetToSeq(DOMAIN j)
<1>1. Slots(z) /\ DOMAIN z = {} /\ \A id : Has(z, id) = 0
  BY FS_EmptySet DEF Slots, Has
<1> HIDE DEF z
<1>2. Slots(j)
  BY <1>1, JoinedFacts
<1>3. DOMAIN j = Products(s)
  BY <1>1, JoinedFacts
<1>4. ASSUME NEW id PROVE Has(j, id) = Qty(s, id)
  <2>1. Has(j, id) = Has(z, id) + Qty(s, id)
    BY <1>1, JoinedFacts
  <2> QED BY <1>1, <2>1, QtyInt
<1>5. ASSUME NEW id \in DOMAIN j
      PROVE  \E i \in 1 .. Len(s) : s[i].product = id /\ j[id].price = s[i].price
  <2>1. \A x \in DOMAIN j :
            \/ x \in DOMAIN z /\ j[x].price = z[x].price
            \/ \E i \in 1 .. Len(s) : s[i].product = x /\ j[x].price = s[i].price
    BY <1>1, JoinedFacts, ZenonT(60)
  <2> QED BY <1>1, <2>1
<1>6. Deduped(s) = t
  BY DEF Deduped, z
<1> HIDE DEF j
<1>7. Lines(t) /\ NoLineTwice(t) /\ \A id : Qty(t, id) = Qty(s, id)
  BY <1>2, <1>4, ItemsFacts, ItemsHave
<1>8. ASSUME OnePrice(s) PROVE Total(t) = Total(s)
  <2>1. /\ m \in Nat /\ e \in [1 .. m -> DOMAIN j] /\ \A i, k \in 1 .. m : e[i] = e[k] => i = k
        /\ \A id \in DOMAIN j : \E i \in 1 .. m : e[i] = id
    BY <1>2, Enumerated DEF Slots
  <2>2. Len(t) = m /\ DOMAIN t = 1 .. m /\ \A i \in 1 .. m : t[i] = j[e[i]]
    BY <1>2, ItemsFacts, LinesFacts
  <2> HIDE DEF t, m, e
  <2>3. ASSUME NEW i \in 1 .. m PROVE t[i].price * t[i].qty = Revenue(s, e[i])
    <3> DEFINE id == e[i]
               c == j[id].price
    <3>1. id \in DOMAIN j /\ t[i] = j[id]
      BY <2>1, <2>2
    <3>2. c \in Int
      BY <1>2, <3>1 DEF Slots
    <3>3. j[id].qty = Qty(s, id)
      BY <1>4, <3>1 DEF Has
    <3>4. \A k \in 1 .. Len(s) : s[k].product = id => s[k].price = c
      BY <1>5, <1>8, <3>1, LinesFacts DEF OnePrice
    <3> HIDE DEF id, c
    <3>5. Revenue(s, id) = c * Qty(s, id)
      BY <3>2, <3>4, RevenueIs
    <3>6. t[i].price * t[i].qty = c * Qty(s, id)
      BY <3>1, <3>3 DEF c
    <3> QED BY <3>5, <3>6 DEF id
  <2>4. Total(t) = SumTo([i \in 1 .. m |-> t[i].price * t[i].qty], m)
    BY <2>2 DEF Total
  <2>5. [i \in 1 .. m |-> t[i].price * t[i].qty] = [i \in 1 .. m |-> Revenue(s, e[i])]
    BY <2>3
  <2>6. SumTo([i \in 1 .. m |-> Revenue(s, e[i])], m) = Total(s)
    BY <1>3, <2>1, RevenuesAddUp DEF Lists
  <2> QED BY <2>4, <2>5, <2>6
<1> QED BY <1>6, <1>7, <1>8

-----------------------------------------------------------------------------
(* Merging lines                                                             *)
LEMMA MaxIn == ASSUME NEW m \in Nat, NEW S \in SUBSET (1 .. m), S # {} PROVE Max(S) \in S
<1> DEFINE T == {k \in Nat : \A R \in SUBSET (1 .. k) : R # {} => \E x \in R : \A y \in R : x >= y}
<1>1. 0 \in T
  <2>1. 1 .. 0 = {}
    OBVIOUS
  <2> QED BY <2>1
<1>2. ASSUME NEW k \in T PROVE k + 1 \in T
  <2> SUFFICES ASSUME NEW R \in SUBSET (1 .. k + 1), R # {} PROVE \E x \in R : \A y \in R : x >= y
    OBVIOUS
  <2>1. CASE k + 1 \in R
    <3>1. \A y \in R : k + 1 >= y
      OBVIOUS
    <3> QED BY <2>1, <3>1
  <2>2. CASE k + 1 \notin R
    <3>1. R \in SUBSET (1 .. k)
      BY <2>2
    <3> QED BY <3>1
  <2> QED BY <2>1, <2>2
<1> HIDE DEF T
<1>3. T = Nat
  BY <1>1, <1>2, SetInduction DEF T
<1>4. \E x \in S : \A y \in S : x >= y
  BY <1>3 DEF T
<1> QED BY <1>4 DEF Max

LEMMA LastLinesFacts ==
    ASSUME NEW s, Lines(s)
    PROVE  /\ Slots(LastLines(s)) /\ DOMAIN LastLines(s) = Products(s)
           /\ \A id \in Products(s) :
                \E i \in 1 .. Len(s) : s[i].product = id /\ LastLines(s)[id] = s[i]
           /\ NoLineTwice(s) => \A id : Has(LastLines(s), id) = Qty(s, id)
<1> DEFINE m == LastLines(s)
           S == Products(s)
           last(id) == Max({i \in DOMAIN s : s[i].product = id})
<1>1. Len(s) \in Nat /\ DOMAIN s = 1 .. Len(s)
  BY LinesFacts
<1>2. ASSUME NEW id \in S PROVE last(id) \in 1 .. Len(s) /\ s[last(id)].product = id
  <2> DEFINE R == {i \in DOMAIN s : s[i].product = id}
  <2>1. R # {} /\ R \in SUBSET (1 .. Len(s))
    BY <1>1, LinesFacts
  <2>2. last(id) = Max(R)
    OBVIOUS
  <2> HIDE DEF last
  <2>3. \A i \in R : i \in 1 .. Len(s) /\ s[i].product = id
    BY <1>1
  <2> HIDE DEF R
  <2>4. Max(R) \in R
    BY <1>1, <2>1, MaxIn
  <2> QED BY <2>2, <2>3, <2>4
<1>3. m = [id \in S |-> s[last(id)]]
  BY DEF LastLines
<1>4. DOMAIN m = S /\ m = [id \in DOMAIN m |-> m[id]] /\ \A id \in S : m[id] = s[last(id)]
  BY <1>3
<1>5. IsFiniteSet(S)
  BY ProductsFinite
<1> HIDE DEF m, S, last
<1>6. ASSUME NEW id \in S
      PROVE  /\ m[id] = [product |-> id, qty |-> m[id].qty, price |-> m[id].price]
             /\ m[id].qty \in Int /\ m[id].price \in Int
  <2> DEFINE it == s[last(id)]
  <2>1. it = [product |-> it.product, qty |-> it.qty, price |-> it.price] /\ it.qty \in Int /\ it.price \in Int
    BY <1>2, LinesFacts
  <2>2. it.product = id /\ m[id] = it
    BY <1>2, <1>4
  <2> HIDE DEF it
  <2> QED BY <2>1, <2>2
<1>7. Slots(m)
  BY <1>4, <1>5, <1>6 DEF Slots
<1>8. \A id \in S : \E i \in 1 .. Len(s) : s[i].product = id /\ m[id] = s[i]
  BY <1>2, <1>4
<1>9. ASSUME NoLineTwice(s), NEW id PROVE Has(m, id) = Qty(s, id)
  <2>1. CASE id \in S
    <3>1. PICK i \in 1 .. Len(s) : s[i].product = id /\ m[id] = s[i]
      BY <1>8, <2>1
    <3>2. Qty(s, s[i].product) = s[i].qty
      BY <1>9, QtyOne
    <3> QED BY <1>4, <2>1, <3>1, <3>2 DEF Has
  <2>2. CASE id \notin S
    <3>1. Qty(s, id) = 0
      BY <2>2, QtyNone DEF S
    <3> QED BY <1>4, <2>2, <3>1 DEF Has
  <2> QED BY <2>1, <2>2
<1> QED BY <1>4, <1>7, <1>8, <1>9 DEF m, S

Positive(s) == \A i \in DOMAIN s : s[i].qty > 0

LEMMA MergedItemsFacts ==
    ASSUME NEW l, Lines(l), NEW r, Lines(r)
    PROVE  /\ Lines(MergedItems(l, r)) /\ Products(MergedItems(l, r)) = Products(l) \cup Products(r)
           /\ NoLineTwice(l) => \A id : Qty(MergedItems(l, r), id) = Qty(l, id) + Qty(r, id)
           /\ Positive(l) /\ Positive(r) => Positive(MergedItems(l, r))
<1> DEFINE m == LastLines(l)
           j == Joined(m, r)
           t == Items(j)
<1>1. Slots(m) /\ DOMAIN m = Products(l)
  BY LastLinesFacts
<1>2. \A id \in Products(l) : \E i \in 1 .. Len(l) : l[i].product = id /\ m[id] = l[i]
  BY LastLinesFacts
<1>3. NoLineTwice(l) => \A id : Has(m, id) = Qty(l, id)
  BY LastLinesFacts
<1>4. MergedItems(l, r) = t
  BY DEF MergedItems
<1> HIDE DEF m
<1>5. Slots(j) /\ DOMAIN j = Products(l) \cup Products(r)
  BY <1>1, JoinedFacts
<1>6. \A id : Has(j, id) = Has(m, id) + Qty(r, id)
  BY <1>1, JoinedFacts
<1>7. (\A id \in DOMAIN m : m[id].qty > 0) /\ (\A i \in 1 .. Len(r) : r[i].qty > 0)
        => \A id \in DOMAIN j : j[id].qty > 0
  BY <1>1, JoinedFacts
<1> HIDE DEF j
<1>8. Lines(t) /\ Products(t) = Products(l) \cup Products(r) /\ \A id : Qty(t, id) = Has(j, id)
  BY <1>5, ItemsFacts, ItemsHave
<1>9. ASSUME Positive(l), Positive(r) PROVE Positive(t)
  <2>1. DOMAIN l = 1 .. Len(l) /\ DOMAIN r = 1 .. Len(r) /\ DOMAIN t = 1 .. Len(t)
    BY <1>8, LinesFacts
  <2>2. \A id \in DOMAIN m : m[id].qty > 0
    BY <1>1, <1>2, <1>9, <2>1 DEF Positive
  <2>3. \A id \in DOMAIN j : j[id].qty > 0
    BY <1>7, <1>9, <2>1, <2>2 DEF Positive
  <2>4. ASSUME NEW i \in 1 .. Len(t) PROVE t[i].qty > 0
    <3>1. /\ Len(t) = Cardinality(DOMAIN j) /\ t[i] = j[SetToSeq(DOMAIN j)[i]]
      BY <1>5, ItemsFacts
    <3>2. SetToSeq(DOMAIN j)[i] \in DOMAIN j
      BY <1>5, <3>1, Enumerated DEF Slots
    <3> QED BY <2>3, <3>1, <3>2
  <2> QED BY <2>1, <2>4 DEF Positive
<1> QED BY <1>3, <1>4, <1>6, <1>8, <1>9

-----------------------------------------------------------------------------
(* Orders                                                                    *)
Orders(o) == \A x \in DOMAIN o : Lines(o[x])

LEMMA SoldInt == ASSUME NEW o, Orders(o), NEW x, NEW id PROVE Sold(o, x, id) \in Int
  BY QtyInt DEF Sold, Orders

LEMMA MergedOrdersFacts ==
    ASSUME NEW l, Orders(l), NEW r, Orders(r)
    PROVE  /\ Orders(MergedOrders(l, r)) /\ DOMAIN MergedOrders(l, r) = DOMAIN l \cup DOMAIN r
           /\ Ordered(MergedOrders(l, r)) \subseteq Ordered(l) \cup Ordered(r)
           /\ \A x \in DOMAIN l \cup DOMAIN r : \A id :
                (x \in DOMAIN l => NoLineTwice(l[x]))
                    => Sold(MergedOrders(l, r), x, id) = Sold(l, x, id) + Sold(r, x, id)
           /\ (\A x \in DOMAIN l : Positive(l[x])) /\ (\A x \in DOMAIN r : Positive(r[x]))
                => \A x \in DOMAIN MergedOrders(l, r) : Positive(MergedOrders(l, r)[x])
<1> DEFINE o == MergedOrders(l, r)
           D == DOMAIN l \cup DOMAIN r
<1>1. DOMAIN o = D /\ \A x \in D : o[x] = IF x \notin DOMAIN l THEN r[x] ELSE IF x \notin DOMAIN r THEN l[x]
                                          ELSE MergedItems(l[x], r[x])
  BY DEF MergedOrders
<1> HIDE DEF o, D
<1>2. ASSUME NEW x \in D
      PROVE  /\ Lines(o[x])
             /\ Products(o[x]) \subseteq Ordered(l) \cup Ordered(r)
             /\ \A id : (x \in DOMAIN l => NoLineTwice(l[x])) => Sold(o, x, id) = Sold(l, x, id) + Sold(r, x, id)
             /\ (x \in DOMAIN l => Positive(l[x])) /\ (x \in DOMAIN r => Positive(r[x])) => Positive(o[x])
  <2>1. CASE x \notin DOMAIN l
    <3>1. x \in DOMAIN r /\ o[x] = r[x]
      BY <1>1, <2>1 DEF D
    <3>2. Products(o[x]) \subseteq Ordered(r)
      BY <3>1 DEF Ordered
    <3>3. \A id : Sold(o, x, id) = Sold(l, x, id) + Sold(r, x, id)
      <4>1. \A id : Sold(l, x, id) = 0 /\ Sold(o, x, id) = Sold(r, x, id) /\ Sold(r, x, id) \in Int
        BY <1>1, <2>1, <3>1, SoldInt DEF Sold
      <4> QED BY <4>1
    <3> QED BY <3>1, <3>2, <3>3 DEF Orders
  <2>2. CASE x \in DOMAIN l /\ x \notin DOMAIN r
    <3>1. o[x] = l[x]
      BY <1>1, <2>2
    <3>2. Products(o[x]) \subseteq Ordered(l)
      BY <2>2, <3>1 DEF Ordered
    <3>3. \A id : Sold(o, x, id) = Sold(l, x, id) + Sold(r, x, id)
      <4>1. \A id : Sold(r, x, id) = 0 /\ Sold(o, x, id) = Sold(l, x, id) /\ Sold(l, x, id) \in Int
        BY <1>1, <2>2, <3>1, SoldInt DEF Sold
      <4> QED BY <4>1
    <3> QED BY <2>2, <3>1, <3>2, <3>3 DEF Orders
  <2>3. CASE x \in DOMAIN l /\ x \in DOMAIN r
    <3>1. o[x] = MergedItems(l[x], r[x])
      BY <1>1, <2>3
    <3>2. Lines(l[x]) /\ Lines(r[x])
      BY <2>3 DEF Orders
    <3>3. Lines(o[x]) /\ Products(o[x]) = Products(l[x]) \cup Products(r[x])
      BY <3>1, <3>2, MergedItemsFacts
    <3>4. Products(l[x]) \subseteq Ordered(l) /\ Products(r[x]) \subseteq Ordered(r)
      BY <2>3 DEF Ordered
    <3>5. ASSUME NoLineTwice(l[x]), NEW id PROVE Sold(o, x, id) = Sold(l, x, id) + Sold(r, x, id)
      <4>1. Qty(o[x], id) = Qty(l[x], id) + Qty(r[x], id)
        BY <3>1, <3>2, <3>5, MergedItemsFacts
      <4> QED BY <1>1, <2>3, <4>1 DEF Sold
    <3>6. Positive(l[x]) /\ Positive(r[x]) => Positive(o[x])
      BY <3>1, <3>2, MergedItemsFacts
    <3> QED BY <2>3, <3>3, <3>4, <3>5, <3>6
  <2> QED BY <2>1, <2>2, <2>3
<1>3. Orders(o)
  BY <1>1, <1>2 DEF Orders
<1>4. Ordered(o) \subseteq Ordered(l) \cup Ordered(r)
  <2>1. Ordered(o) = UNION {Products(o[x]) : x \in D}
    BY <1>1 DEF Ordered
  <2> QED BY <1>2, <2>1
<1>5. ASSUME \A x \in DOMAIN l : Positive(l[x]), \A x \in DOMAIN r : Positive(r[x])
      PROVE  \A x \in D : Positive(o[x])
  BY <1>2, <1>5
<1> QED BY <1>1, <1>2, <1>3, <1>4, <1>5 DEF o, D

LEMMA CheckupIs ==
    ASSUME NEW s
    PROVE  Checkup(s) <=> Ordered(s.ord) \subseteq DOMAIN s.prod /\ \A x \in DOMAIN s.ord : Positive(s.ord[x])
  BY DEF Checkup, Positive

LEMMA MergedHolds ==
    ASSUME NEW w, Orders(w.ord), Orders(w.with.ord), NEW s
    PROVE  Merged(w, Stored(MergedProducts(w.prod, w.with.prod, s)), MergedOrders(w.ord, w.with.ord))
<1> DEFINE l == w.ord
           r == w.with.ord
           p == Stored(MergedProducts(w.prod, w.with.prod, s))
           o == MergedOrders(l, r)
<1>1. DOMAIN p = DOMAIN w.prod \cup DOMAIN w.with.prod
  BY StoredFacts DEF MergedProducts
<1>2. DOMAIN o = DOMAIN l \cup DOMAIN r /\ Ordered(o) \subseteq Ordered(l) \cup Ordered(r)
  BY MergedOrdersFacts
<1>3. \A x \in DOMAIN l \cup DOMAIN r : \A id :
        (x \in DOMAIN l => NoLineTwice(l[x])) => Sold(o, x, id) = Sold(l, x, id) + Sold(r, x, id)
  BY MergedOrdersFacts
<1>4. (\A x \in DOMAIN l : Positive(l[x])) /\ (\A x \in DOMAIN r : Positive(r[x]))
        => \A x \in DOMAIN o : Positive(o[x])
  BY MergedOrdersFacts
<1> HIDE DEF p, o
<1>5. ASSUME Checkup(w), Checkup(w.with) PROVE Checkup([prod |-> p, ord |-> o])
  <2> DEFINE q == [prod |-> p, ord |-> o]
  <2>1. q.prod = p /\ q.ord = o
    OBVIOUS
  <2>2. /\ Ordered(l) \subseteq DOMAIN w.prod /\ Ordered(r) \subseteq DOMAIN w.with.prod
        /\ \A x \in DOMAIN o : Positive(o[x])
    BY <1>4, <1>5, CheckupIs
  <2> HIDE DEF q
  <2>3. Checkup(q)
    BY <1>1, <1>2, <2>1, <2>2, CheckupIs
  <2> QED BY <2>3 DEF q
<1>6. Merged(w, p, o)
  BY <1>1, <1>2, <1>3, <1>5 DEF Merged
<1> QED BY <1>6 DEF p, o

LEMMA OrderlyHolds ==
    ASSUME NEW w, Orders(w.ord)
    PROVE  LET o == [x \in DOMAIN w.ord |-> Deduped(w.ord[x])] IN Orders(o) /\ Orderly(w, w.prod, o)
<1> DEFINE o == [x \in DOMAIN w.ord |-> Deduped(w.ord[x])]
<1>1. DOMAIN o = DOMAIN w.ord /\ \A x \in DOMAIN w.ord : o[x] = Deduped(w.ord[x])
  OBVIOUS
<1> HIDE DEF o
<1>2. \A x \in DOMAIN w.ord : Lines(w.ord[x])
  BY DEF Orders
<1>3. \A x \in DOMAIN w.ord : /\ Lines(o[x]) /\ NoLineTwice(o[x])
                              /\ \A id : Qty(o[x], id) = Qty(w.ord[x], id)
                              /\ OnePrice(w.ord[x]) => Total(o[x]) = Total(w.ord[x])
  <2>1. ASSUME NEW x \in DOMAIN w.ord
        PROVE  /\ Lines(o[x]) /\ NoLineTwice(o[x])
               /\ \A id : Qty(o[x], id) = Qty(w.ord[x], id)
               /\ OnePrice(w.ord[x]) => Total(o[x]) = Total(w.ord[x])
    <3> DEFINE s == w.ord[x]
    <3>1. Lines(s) /\ o[x] = Deduped(s)
      BY <1>1, <1>2
    <3> HIDE DEF s
    <3>2. /\ Lines(Deduped(s)) /\ NoLineTwice(Deduped(s))
          /\ \A id : Qty(Deduped(s), id) = Qty(s, id)
          /\ OnePrice(s) => Total(Deduped(s)) = Total(s)
      BY <3>1, DedupedFacts
    <3> QED BY <3>1, <3>2 DEF s
  <2> QED BY <2>1
<1>4. \A x \in DOMAIN w.ord : \A id : Sold(o, x, id) = Sold(w.ord, x, id)
  BY <1>1, <1>3 DEF Sold
<1>5. ASSUME \A x \in DOMAIN w.ord : OnePrice(w.ord[x])
      PROVE  Fingerprint(w.prod, w.ord) = Fingerprint(w.prod, o)
  <2>1. [x \in DOMAIN o |-> Total(o[x])] = [x \in DOMAIN w.ord |-> Total(w.ord[x])]
    BY <1>1, <1>3, <1>5
  <2> QED BY <2>1 DEF Fingerprint
<1>6. Orders(o) /\ Orderly(w, w.prod, o)
  BY <1>1, <1>3, <1>4, <1>5 DEF Orders, Orderly, SealVerify
<1> QED BY <1>6 DEF o

\* Lines that are changed one by one are lines.
LEMMA HashedLines ==
    ASSUME NEW s, Lines(s), NEW listed, NEW t, t = [i \in DOMAIN s |-> Hash(s[i], listed)]
    PROVE  Lines(t) /\ Len(t) = Len(s)
<1>1. Len(s) \in Nat /\ DOMAIN s = 1 .. Len(s) /\ \A i \in 1 .. Len(s) : s[i].qty \in Int /\ s[i].price \in Int
  BY LinesFacts
<1>2. t = [i \in 1 .. Len(s) |-> t[i]]
  BY <1>1
<1>3. \A i \in 1 .. Len(s) : /\ t[i] = [product |-> t[i].product, qty |-> t[i].qty, price |-> t[i].price]
                             /\ t[i].qty \in Int /\ t[i].price \in Int
  BY <1>1 DEF Hash
<1>4. Lines(t) /\ Len(t) = Len(s)
  BY <1>1, <1>2, <1>3, MakeLines
<1> QED BY <1>3, <1>4

LEMMA ClampedLines ==
    ASSUME NEW s, Lines(s), policy \in Policies
    PROVE  Lines([i \in DOMAIN s |-> Clamped(s[i])])
<1> DEFINE t == [i \in DOMAIN s |-> Clamped(s[i])]
<1>1. Len(s) \in Nat /\ DOMAIN s = 1 .. Len(s) /\ \A i \in 1 .. Len(s) : s[i].qty \in Int /\ s[i].price \in Int
  BY LinesFacts
<1>2. t = [i \in 1 .. Len(s) |-> t[i]]
  BY <1>1
<1>3. MaxQty \in Int
  BY CatalogAssumption DEF MaxQty
<1>4. \A i \in 1 .. Len(s) : /\ t[i] = [product |-> t[i].product, qty |-> t[i].qty, price |-> t[i].price]
                             /\ t[i].qty \in Int /\ t[i].price \in Int
  BY <1>1, <1>3 DEF Clamped, ClampQty
<1> HIDE DEF t
<1>5. Lines(t)
  BY <1>1, <1>2, <1>4, MakeLines
<1> QED BY <1>5 DEF t

LEMMA RedactedHolds ==
    ASSUME NEW w, Orders(w.ord), \A a, b \in DOMAIN w.prod : Hashed(a) = Hashed(b) => a = b
    PROVE  /\ Orders(HashedOrders(w.ord, DOMAIN w.prod))
           /\ Redacted(w, HashedOrders(w.ord, DOMAIN w.prod))
<1> DEFINE o == HashedOrders(w.ord, DOMAIN w.prod)
           D == DOMAIN w.prod
<1>1. /\ DOMAIN o = DOMAIN w.ord
      /\ \A x \in DOMAIN w.ord : o[x] = [i \in DOMAIN w.ord[x] |-> Hash(w.ord[x][i], D)]
  BY DEF HashedOrders
<1> HIDE DEF o, D
<1>2. ASSUME NEW x \in DOMAIN w.ord
      PROVE  /\ Lines(w.ord[x]) /\ Lines(o[x]) /\ Len(o[x]) = Len(w.ord[x])
             /\ \A i \in 1 .. Len(o[x]) :
                  /\ o[x][i].qty = w.ord[x][i].qty /\ o[x][i].price = w.ord[x][i].price
                  /\ o[x][i].product = IF w.ord[x][i].product \in D THEN Hashed(w.ord[x][i].product)
                                       ELSE w.ord[x][i].product
  <2> DEFINE s == w.ord[x]
             t == o[x]
  <2>1. Lines(s)
    BY DEF Orders
  <2>2. t = [i \in DOMAIN s |-> Hash(s[i], D)]
    BY <1>1
  <2> HIDE DEF s, t
  <2>3. Lines(t) /\ Len(t) = Len(s)
    BY <2>1, <2>2, HashedLines
  <2>4. \A i \in 1 .. Len(s) :
            /\ t[i].qty = s[i].qty /\ t[i].price = s[i].price
            /\ t[i].product = IF s[i].product \in D THEN Hashed(s[i].product) ELSE s[i].product
    BY <2>1, <2>2, LinesFacts DEF Hash
  <2> QED BY <2>1, <2>3, <2>4 DEF s, t
<1>3. Orders(o)
  BY <1>1, <1>2 DEF Orders
<1>4. ASSUME \A q \in Ordered(w.ord) \ D : \A id \in D : q # Hashed(id), NEW id \in D \cap Ordered(w.ord)
      PROVE  Sales(o)[Hashed(id)] = Sales(w.ord)[id]
  <2> DEFINE h == Hashed(id)
  <2>1. ASSUME NEW x \in DOMAIN w.ord, NEW i \in 1 .. Len(o[x])
        PROVE  o[x][i].product = h <=> w.ord[x][i].product = id
    <3> DEFINE a == w.ord[x][i].product
    <3>1. a \in Ordered(w.ord)
      BY <1>2, LinesFacts DEF Ordered
    <3>2. o[x][i].product = IF a \in D THEN Hashed(a) ELSE a
      BY <1>2, <2>1
    <3> HIDE DEF a
    <3>3. CASE a \in D
      <4>1. a \in DOMAIN w.prod /\ id \in DOMAIN w.prod
        BY <1>4, <3>3 DEF D
      <4>2. Hashed(a) = Hashed(id) => a = id
        BY <4>1
      <4> QED BY <3>2, <3>3, <4>2 DEF a
    <3>4. CASE a \notin D
      <4>1. a \in Ordered(w.ord) \ D /\ id \in D
        BY <1>4, <3>1, <3>4
      <4>2. a # Hashed(id) /\ a # id
        BY <1>4, <4>1
      <4> QED BY <3>2, <3>4, <4>2 DEF a
    <3> QED BY <3>3, <3>4 DEF a
  <2> HIDE DEF h
  <2>2. ASSUME NEW x \in DOMAIN w.ord
        PROVE  Qty(o[x], h) = Qty(w.ord[x], id) /\ Revenue(o[x], h) = Revenue(w.ord[x], id)
    <3> DEFINE s == w.ord[x]
               t == o[x]
    <3>1. Lines(s) /\ Lines(t) /\ Len(t) = Len(s)
      BY <1>2
    <3>2. DOMAIN s = 1 .. Len(s) /\ DOMAIN t = 1 .. Len(s)
      BY <3>1, LinesFacts
    <3>3. \A i \in 1 .. Len(s) : /\ t[i].qty = s[i].qty /\ t[i].price = s[i].price
                                 /\ t[i].product = h <=> s[i].product = id
      BY <1>2, <2>1, <3>1
    <3> HIDE DEF s, t
    <3>4. [i \in DOMAIN t |-> IF t[i].product = h THEN t[i].qty ELSE 0]
            = [i \in DOMAIN s |-> IF s[i].product = id THEN s[i].qty ELSE 0]
      BY <3>2, <3>3
    <3>5. [i \in DOMAIN t |-> IF t[i].product = h THEN t[i].price * t[i].qty ELSE 0]
            = [i \in DOMAIN s |-> IF s[i].product = id THEN s[i].price * s[i].qty ELSE 0]
      BY <3>2, <3>3
    <3>6. Qty(t, h) = Qty(s, id) /\ Revenue(t, h) = Revenue(s, id)
      BY <3>1, <3>4, <3>5 DEF Qty, Revenue
    <3> QED BY <3>6 DEF s, t
  <2>3. h \in Ordered(o)
    <3>1. PICK x \in DOMAIN w.ord : id \in Products(w.ord[x])
      BY DEF Ordered
    <3>2. PICK i \in 1 .. Len(w.ord[x]) : w.ord[x][i].product = id
      BY <1>2, <3>1, LinesFacts
    <3>3. i \in 1 .. Len(o[x]) /\ o[x][i].product = h
      BY <1>2, <2>1, <3>2
    <3>4. h \in Products(o[x])
      BY <1>2, <3>3, LinesFacts
    <3> QED BY <1>1, <3>4 DEF Ordered
  <2>4. /\ [x \in DOMAIN o |-> Qty(o[x], h)] = [x \in DOMAIN w.ord |-> Qty(w.ord[x], id)]
        /\ [x \in DOMAIN o |-> Revenue(o[x], h)] = [x \in DOMAIN w.ord |-> Revenue(w.ord[x], id)]
    BY <1>1, <2>2
  <2>5. Sales(o)[h] = [qty |-> SumOver([x \in DOMAIN o |-> Qty(o[x], h)]),
                       revenue |-> SumOver([x \in DOMAIN o |-> Revenue(o[x], h)])]
    BY <2>3 DEF Sales
  <2>6. Sales(w.ord)[id] = [qty |-> SumOver([x \in DOMAIN w.ord |-> Qty(w.ord[x], id)]),
                            revenue |-> SumOver([x \in DOMAIN w.ord |-> Revenue(w.ord[x], id)])]
    BY DEF Sales
  <2>7. Sales(o)[h] = Sales(w.ord)[id]
    BY <2>4, <2>5, <2>6
  <2> QED BY <2>7 DEF h
<1>5. Redacted(w, o)
  BY <1>4 DEF Redacted, D
<1> QED BY <1>3, <1>5 DEF o, D

-----------------------------------------------------------------------------
(* merge, dedupe and redact                                                  *)
\* The products and orders that stand when a pending journal j is recovered.
FinalProd(j, p) == IF j = None THEN p ELSE IF j.prod = None THEN p ELSE j.prod
FinalOrd(j, o) == IF j = None THEN o ELSE j.ord

\* Of a directory with history w, journal j, products p and orders o: what the
\* command has made is in place, or is what recovery will install.
KeptAt(w, j, p, o) ==
    /\ Orders(o) /\ Orders(FinalOrd(j, o))
    /\ w # None => /\ w.cmd = "merge" => Merged(w, FinalProd(j, p), FinalOrd(j, o))
                   /\ w.cmd = "dedupe" => Orderly(w, FinalProd(j, p), FinalOrd(j, o))
                   /\ w.cmd = "redact" => Redacted(w, o)
Kept == \A d \in Dir : KeptAt(was[d], new[d], prod[d], ord[d])

LEMMA InitKept == Init => Kept
<1> SUFFICES ASSUME Init, NEW d \in Dir PROVE KeptAt(was[d], new[d], prod[d], ord[d])
  BY DEF Kept
<1>1. PICK s \in [Dir -> Datasets] : ord = [x \in Dir |-> s[x].ord]
  BY DEF Init
<1>2. was[d] = None /\ new[d] = None
  BY DEF Init
<1>3. Orders(ord[d])
  BY <1>1, CatalogAssumption DEF Orders
<1> QED BY <1>2, <1>3 DEF KeptAt, FinalOrd

\* A step that leaves the other directories alone.
LEMMA OneKept ==
    ASSUME Kept, NEW d \in Dir,
           \A x \in Dir \ {d} : /\ was'[x] = was[x] /\ new'[x] = new[x]
                                /\ prod'[x] = prod[x] /\ ord'[x] = ord[x],
           KeptAt(was'[d], new'[d], prod'[d], ord'[d])
    PROVE  Kept'
  BY DEF Kept

\* A write is kept if what it is to make is what its command promises.
LEMMA AtomicKept ==
    ASSUME NoneApart, IInv, Kept, NEW d \in Dir, NEW p, NEW o, NEW history,
           AtomicWrite(d, p, o, history), Orders(o),
           history.cmd = "merge" => Merged(history, Stored(p), o),
           history.cmd = "dedupe" => Orderly(history, Stored(p), o),
           history.cmd # "redact"
    PROVE  Kept'
<1>1. Maps
  BY DEF IInv
<1>2. PICK pending :
        /\ new' = [new EXCEPT ![d] = [prod |-> pending, ord |-> o]]
        /\ \/ pending = None /\ prod' = [prod EXCEPT ![d] = Stored(p)]
           \/ pending = Stored(p) /\ prod' = prod
  BY DEF AtomicWrite, Save
<1>3. new'[d] = [prod |-> pending, ord |-> o] /\ \A x \in Dir \ {d} : new'[x] = new[x]
  BY <1>1, <1>2, OneEntry DEF Maps
<1>4. /\ pending = None => prod'[d] = Stored(p)
      /\ pending # None => pending = Stored(p)
      /\ \A x \in Dir \ {d} : prod'[x] = prod[x]
  BY <1>1, <1>2, OneEntry DEF Maps, NoneApart
<1>5. was'[d] = history /\ \A x \in Dir \ {d} : was'[x] = was[x]
  BY <1>1, OneEntry DEF Maps, AtomicWrite, Remember
<1>6. ord' = ord
  BY DEF AtomicWrite
<1>7. new'[d] # None /\ new'[d].prod = pending /\ new'[d].ord = o
  BY <1>3 DEF NoneApart
<1>8. FinalProd(new'[d], prod'[d]) = Stored(p) /\ FinalOrd(new'[d], ord'[d]) = o
  BY <1>4, <1>7 DEF FinalProd, FinalOrd
<1>9. Orders(ord'[d])
  BY <1>6 DEF Kept, KeptAt
<1>10. KeptAt(was'[d], new'[d], prod'[d], ord'[d])
  BY <1>5, <1>8, <1>9 DEF KeptAt
<1> QED BY <1>3, <1>4, <1>5, <1>6, <1>10, OneKept

\* A save is kept if it is no merge and no dedupe, and a redaction keeps its promise.
LEMMA SaveKept ==
    ASSUME IInv, Kept, NEW d \in Dir, NEW p, NEW history, Save(d, p), Remember(d, history),
           history.cmd \notin {"merge", "dedupe"}, new' = new,
           \A x \in Dir \ {d} : ord'[x] = ord[x], Orders(ord'[d]),
           history.cmd = "redact" => Redacted(history, ord'[d])
    PROVE  Kept'
<1>1. Maps
  BY DEF IInv
<1>2. \A x \in Dir \ {d} : prod'[x] = prod[x]
  BY <1>1, OneEntry DEF Maps, Save
<1>3. was'[d] = history /\ \A x \in Dir \ {d} : was'[x] = was[x]
  BY <1>1, OneEntry DEF Maps, Remember
<1>4. Orders(FinalOrd(new'[d], ord'[d]))
  BY DEF Kept, KeptAt, FinalOrd
<1>5. KeptAt(was'[d], new'[d], prod'[d], ord'[d])
  BY <1>3, <1>4 DEF KeptAt
<1> QED BY <1>2, <1>3, <1>5, OneKept

LEMMA RecoverKept == ASSUME IInv, Kept, NEW d \in Dir, Recover(d) PROVE Kept'
<1> DEFINE installed == IF new[d].prod = None THEN prod[d] ELSE new[d].prod
           history == IF was[d] # None /\ was[d].cmd \in {"merge", "dedupe", "enforce"} THEN was[d] ELSE None
<1>1. Maps /\ new[d] # None
  BY DEF IInv, Recover
<1>2. /\ prod' = [prod EXCEPT ![d] = installed] /\ was' = [was EXCEPT ![d] = history]
      /\ new' = [new EXCEPT ![d] = None] /\ ord' = [ord EXCEPT ![d] = new[d].ord]
  BY DEF Recover, Remember
<1>3. history # None => history = was[d] /\ history.cmd # "redact"
  OBVIOUS
<1>4. installed = FinalProd(new[d], prod[d]) /\ new[d].ord = FinalOrd(new[d], ord[d])
  BY <1>1 DEF FinalProd, FinalOrd
<1> HIDE DEF installed, history
<1>5. /\ prod'[d] = installed /\ \A x \in Dir \ {d} : prod'[x] = prod[x]
      /\ was'[d] = history /\ \A x \in Dir \ {d} : was'[x] = was[x]
      /\ new'[d] = None /\ \A x \in Dir \ {d} : new'[x] = new[x]
      /\ ord'[d] = new[d].ord /\ \A x \in Dir \ {d} : ord'[x] = ord[x]
  BY <1>1, <1>2 DEF Maps
<1>6. FinalProd(new'[d], prod'[d]) = FinalProd(new[d], prod[d])
      /\ FinalOrd(new'[d], ord'[d]) = FinalOrd(new[d], ord[d])
  BY <1>4, <1>5 DEF FinalProd, FinalOrd
<1>7. KeptAt(was[d], new[d], prod[d], ord[d])
  BY DEF Kept
<1>8. KeptAt(was'[d], new'[d], prod'[d], ord'[d])
  BY <1>3, <1>4, <1>5, <1>6, <1>7 DEF KeptAt
<1> QED BY <1>5, <1>8, OneKept

LEMMA NextKept == ASSUME NoneApart PROVE IInv /\ Kept /\ [Next]_vars => Kept'
<1> SUFFICES ASSUME IInv, Kept, [Next]_vars PROVE Kept'
  OBVIOUS
<1>1. Maps /\ \A d \in Dir : Orders(ord[d])
  BY DEF IInv, Kept, KeptAt
<1>2. CASE UNCHANGED vars
  BY <1>2 DEF vars, Kept
<1>3. ASSUME NEW d \in Dir, NEW e \in Dir \ {d}, Merge(d, e) PROVE Kept'
  <2> DEFINE w == Found("merge", d, e)
  <2>1. /\ w.cmd = "merge" /\ w.prod = prod[d] /\ w.ord = ord[d]
        /\ w.with.prod = prod[e] /\ w.with.ord = ord[e]
    BY DEF Found
  <2> HIDE DEF w
  <2>2. PICK s \in Strategies :
            AtomicWrite(d, MergedProducts(prod[d], prod[e], s), MergedOrders(ord[d], ord[e]), w)
    BY <1>3 DEF Merge, w
  <2>3. Orders(ord[d]) /\ Orders(ord[e])
    BY <1>1
  <2>4. Orders(MergedOrders(ord[d], ord[e]))
    BY <2>3, MergedOrdersFacts
  <2>5. Merged(w, Stored(MergedProducts(prod[d], prod[e], s)), MergedOrders(ord[d], ord[e]))
    BY <2>1, <2>3, MergedHolds
  <2> QED BY <2>1, <2>2, <2>4, <2>5, AtomicKept
<1>4. ASSUME NEW d \in Dir, DedupeOrders(d) PROVE Kept'
  <2> DEFINE w == Found("dedupe", d, d)
             o == [x \in DOMAIN ord[d] |-> Deduped(ord[d][x])]
  <2>1. w.cmd = "dedupe" /\ w.prod = prod[d] /\ w.ord = ord[d]
    BY DEF Found
  <2>2. AtomicWrite(d, prod[d], o, w)
    BY <1>4 DEF DedupeOrders
  <2>3. Stored(prod[d]) = prod[d]
    BY DEF IInv, Printouts
  <2> HIDE DEF w
  <2>4. Orders(o) /\ Orderly(w, prod[d], o)
    BY <1>1, <2>1, OrderlyHolds
  <2> HIDE DEF o
  <2> QED BY <2>1, <2>2, <2>3, <2>4, AtomicKept
<1>5. ASSUME NEW d \in Dir, PolicyEnforce(d) PROVE Kept'
  <2> DEFINE w == Found("enforce", d, d)
             p == [id \in DOMAIN prod[d] |-> [prod[d][id] EXCEPT !.price = Clamp(@)]]
             o == [x \in DOMAIN ord[d] |-> [i \in DOMAIN ord[d][x] |-> Clamped(ord[d][x][i])]]
  <2>1. w.cmd = "enforce"
    BY DEF Found
  <2>2. AtomicWrite(d, p, o, w)
    BY <1>5 DEF PolicyEnforce
  <2>3. Orders(o)
    BY <1>1, ClampedLines DEF Orders, Maps
  <2> HIDE DEF w, p, o
  <2> QED BY <2>1, <2>2, <2>3, AtomicKept
<1>6. ASSUME NEW d \in Dir, NEW e \in Dir, Diff(d, e) PROVE Kept'
  BY <1>6 DEF Diff, Kept
<1>7. ASSUME NEW d \in Dir, NEW e \in Dir, Redact(d, e) PROVE Kept'
  <2> DEFINE w == Found("redact", d, d)
             o == HashedOrders(ord[d], DOMAIN prod[d])
  <2>1. w.cmd = "redact" /\ w.prod = prod[d] /\ w.ord = ord[d]
    BY DEF Found
  <2>2. /\ \A a, b \in DOMAIN prod[d] : Hashed(a) = Hashed(b) => a = b
        /\ ord' = [ord EXCEPT ![e] = o] /\ Remember(e, w) /\ new' = new
    BY <1>7 DEF Redact
  <2>3. PICK p : Save(e, p)
    BY <1>7 DEF Redact
  <2> HIDE DEF w
  <2>4. Orders(o) /\ Redacted(w, o)
    BY <1>1, <2>1, <2>2, RedactedHolds
  <2> HIDE DEF o
  <2>5. ord'[e] = o /\ \A x \in Dir \ {e} : ord'[x] = ord[x]
    BY <1>1, <2>2, OneEntry DEF Maps
  <2> QED BY <2>1, <2>2, <2>3, <2>4, <2>5, SaveKept
<1>8. ASSUME NEW d \in Dir, PatchApply(d) PROVE Kept'
  <2> DEFINE history == [cmd |-> "patch", patch |-> patch]
  <2>1. history.cmd = "patch"
    OBVIOUS
  <2>2. /\ Save(d, Patched(patch, prod[d])) /\ Remember(d, history)
        /\ new' = new /\ ord' = ord
    BY <1>8 DEF PatchApply
  <2> HIDE DEF history
  <2>3. Orders(ord'[d])
    BY <1>1, <2>2
  <2> QED BY <2>1, <2>2, <2>3, SaveKept
<1>9. ASSUME NEW d \in Dir, NEW b \in Batches, BatchApply(d, b) PROVE Kept'
  <2> DEFINE history == [cmd |-> "batch", batch |-> b]
  <2>1. history.cmd = "batch"
    OBVIOUS
  <2>2. PICK p : Save(d, p)
    BY <1>9 DEF BatchApply
  <2>3. Remember(d, history) /\ new' = new /\ ord' = ord
    BY <1>9 DEF BatchApply
  <2> HIDE DEF history
  <2>4. Orders(ord'[d])
    BY <1>1, <2>3
  <2> QED BY <2>1, <2>2, <2>3, <2>4, SaveKept
<1> QED BY <1>2, <1>3, <1>4, <1>5, <1>6, <1>7, <1>8, <1>9, RecoverKept DEF Next, Command

\* Whatever stands in the datasets, of any number of orders and lines: what is
\* merged, deduped or redacted has neither lost nor gained a unit, also when its
\* write failed and was left to recovery.
THEOREM NothingLostHolds == ASSUME PrintsAgain, NoneApart PROVE Spec => []NothingLost
<1>1. Kept => NothingLost
  BY DEF Kept, KeptAt, FinalProd, FinalOrd, NothingLost, Completed
<1> QED BY <1>1, InitKept, InitInv, NextInv, NextKept, PTL DEF Spec
=============================================================================
