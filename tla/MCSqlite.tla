------------------------------ MODULE MCSqlite ------------------------------
(* Small instances of Sqlite for TLC: the program and another process that  *)
(* uses the library.                                                        *)
EXTENDS Sqlite

CONSTANTS p1, p2, i1, i2, v1, o1

MCProc == {p1, p2}
MCCli == {p1}
MCId == {i1, i2}
MCValue == {v1}
MCOrder == {o1}
=============================================================================
