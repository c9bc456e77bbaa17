---------------------------- MODULE MCInventory ----------------------------
(* Small instances of Inventory for TLC.                                    *)
EXTENDS Inventory

CONSTANTS t1, t2, p, noId, nobody, noCall, absent

MCThread == {t1, t2}
MCId == {p}
MCQty == {-1, 0, 1, 3}
MCPrice == {-1, 1}
MCPlainQty == {1}
MCPlainPrice == {1}
=============================================================================
