---------------------------- MODULE AtomicStore ----------------------------
(* What the callers of CsvStorage rely on: one stored text, loaded and      *)
(* replaced in single steps, from which no edit ever disappears.            *)
CONSTANTS
    Client, \* processes that use the store
    Updater \* those that add an edit and save

VARIABLES
    store, \* the edits the stored text holds
    view   \* view[c]: the edits in the text c loaded last

svars == <<store, view>>

Init ==
    /\ store = {}
    /\ view = [c \in Client |-> {}]

Load(c) ==
    /\ view' = [view EXCEPT ![c] = store]
    /\ UNCHANGED store

Save(c) ==
    /\ store' = store \cup {c}
    /\ UNCHANGED view

\* A killed process forgets what it loaded.
Forget(c) ==
    /\ view' = [view EXCEPT ![c] = {}]
    /\ UNCHANGED store

Next == \/ \E c \in Client : Load(c) \/ Forget(c)
        \/ \E c \in Updater : Save(c)

Spec == Init /\ [][Next]_svars
=============================================================================
