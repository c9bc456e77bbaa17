-------------------------- MODULE AtomicWorkspace --------------------------
(* What CHANGELOG.md:162 promises of `tx` ("atomic batch edits") and        *)
(* WHITEPAPER.md:21 of restoring ("restore is atomic"): a dataset, at most  *)
(* one working copy of it and some saved copies, each of which is made,     *)
(* installed and dropped in one step.  A copy that fails unnoticed, which    *)
(* they do not speak of, spoils the dataset until another is installed.      *)
CONSTANTS
    Edit, \* edits a command can make
    Slot, \* where copies are saved
    None  \* there is no such copy

VARIABLES
    base, \* the dataset: for each file, the edits its text includes; None: spoiled
    work, \* the working copy, or None
    saved \* saved[s]: the copy in slot s, or None

vars == <<base, work, saved>>
File == {"products.csv", "orders.csv"}
Dataset == [File -> SUBSET Edit]

Init ==
    /\ base = [f \in File |-> {}]
    /\ work = None
    /\ saved = [s \in Slot |-> None]

\* An edit of some files of d; in the other files it changes nothing.
Edited(d, e, fs) == [f \in File |-> IF f \in fs THEN d[f] \cup {e} ELSE d[f]]

EditBase == /\ base # None
            /\ \E e \in Edit, fs \in SUBSET File : base' = Edited(base, e, fs)
            /\ UNCHANGED <<work, saved>>
EditWork == /\ work # None
            /\ \E e \in Edit, fs \in SUBSET File : work' = Edited(work, e, fs)
            /\ UNCHANGED <<base, saved>>

Begin  == work = None /\ work' = base /\ UNCHANGED <<base, saved>>
Spoil  == base' = None /\ UNCHANGED <<work, saved>>
Commit == work # None /\ base' = work /\ work' = None /\ UNCHANGED saved
Abort  == work # None /\ work' = None /\ UNCHANGED <<base, saved>>

Save(s)    == saved' = [saved EXCEPT ![s] = base] /\ UNCHANGED <<base, work>>
Drop(s)    == saved' = [saved EXCEPT ![s] = None] /\ UNCHANGED <<base, work>>
Restore(s) == saved[s] # None /\ base' = saved[s] /\ UNCHANGED <<work, saved>>

Next ==
    \/ EditBase \/ EditWork \/ Begin \/ Commit \/ Abort \/ Spoil
    \/ \E s \in Slot : Save(s) \/ Drop(s) \/ Restore(s)

Spec == Init /\ [][Next]_vars
=============================================================================
