---------------------------- MODULE MCDatasetTxn ----------------------------
(* Small instances of DatasetTxn for TLC.                                   *)
EXTENDS DatasetTxn, TLC

CONSTANTS g1, g2, g3, a1, a2, r1, r2

MCGuarded == {g1, g2, g3}
MCMixed == {g1, a1, a2}
MCMixedGuarded == {g1}
MCRecoverer == {r1, r2}
MCOneRecoverer == {r1}
TxnSymmetry == Permutations(MCGuarded) \cup Permutations(MCRecoverer)
=============================================================================
