---------------------------- MODULE MCWorkspace ----------------------------
(* Small instances of Workspace for TLC.  The hash of a pair is the pair.   *)
EXTENDS Workspace

CONSTANT e1

MCHash(prv, body) == <<prv, body>>
MCEdit == {e1}
MCKeep == {0, 1, 3}
=============================================================================
