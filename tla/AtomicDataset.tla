--------------------------- MODULE AtomicDataset ---------------------------
(* What TRANSACTIONS.md promises of an operation that changes products.csv  *)
(* and orders.csv together: the two files change in one step, both to the   *)
(* text of one writer, or not at all.                                       *)
CONSTANTS
    Writer,  \* the processes that write a whole dataset
    Initial  \* the dataset found on disk

VARIABLE dataset \* the pair of contents a reader would find

Init == dataset = [products |-> Initial, orders |-> Initial]

Commit(w) == dataset' = [products |-> w, orders |-> w]

Next == \E w \in Writer : Commit(w)

Spec == Init /\ [][Next]_dataset
=============================================================================
