----------------------------- MODULE MCCsvStore -----------------------------
(* Small instances of CsvStore for TLC.                                     *)
EXTENDS CsvStore

CONSTANTS u1, u2, u3, v1, i1, i2, i3, i4

MCUpdater == {u1, u2, u3}
MCReader == {v1}
MCExpecting == {u2}
MCDry == {u3}
MCFourInodes == {i1, i2, i3, i4}
=============================================================================
