----------------------------- MODULE MCCommands -----------------------------
(* Small instances of Commands for TLC: two ids with the same capitals, and *)
(* one of them with a space before it, which sanitize trims.                *)
EXTENDS Commands, TLC

CONSTANTS a, A, sa, o1, p1, p2

MCId == {a, A, sa}
MCClean == [i \in MCId |-> IF i = sa THEN a ELSE i]
MCUpper == [i \in MCId \cup {NoId} |-> IF i \in {a, A} THEN A ELSE i]
MCOrder == {o1}
MCPrice == {p1, p2}
\* Nothing compares two prices other than for equality.
MCSymmetry == Permutations(MCPrice)
MCRemove == {"remove-product"}
=============================================================================
