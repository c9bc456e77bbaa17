---------------------------- MODULE AtomicTable ----------------------------
(* What CHANGELOG.md:81 promises of the SQLite backend ("saves now run      *)
(* inside transactions"): the stored list of products is replaced by the    *)
(* inventory of one process, or read, in one step.                          *)
CONSTANTS
    Proc,
    Id,
    Value,
    Absent \* what a list holds for an id it does not have

VARIABLES
    table, \* the stored list
    inv    \* inv[p]: the inventory of p

vars == <<table, inv>>
List == [Id -> Value \cup {Absent}]
Nothing == [i \in Id |-> Absent]

Init == table \in List /\ inv = [p \in Proc |-> Nothing]

\* What an inventory becomes when a list is loaded into it: ids it has stay.
Loaded(mine, list) == [i \in Id |-> IF mine[i] = Absent THEN list[i] ELSE mine[i]]

Change(p) == \E l \in List : inv' = [inv EXCEPT ![p] = l] /\ UNCHANGED table
Save(p) == table' = inv[p] /\ UNCHANGED inv
Load(p) == inv' = [inv EXCEPT ![p] = Loaded(inv[p], table)] /\ UNCHANGED table

Next == \E p \in Proc : Change(p) \/ Save(p) \/ Load(p)

Spec == Init /\ [][Next]_vars
=============================================================================
