------------------------------ MODULE MCLedger ------------------------------
(* Small instances of Ledger for TLC.  The hash of a pair is the pair.      *)
EXTENDS Ledger

CONSTANTS p1, p2

MCHash(prv, body) == <<prv, body>>
MCProc == {p1, p2}
MCKeep == {0, 1, 2, 3}
=============================================================================
