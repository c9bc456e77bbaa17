----------------------------- MODULE HashChain -----------------------------
(* The chain format of .neonstore/ledger.log: every entry carries the hash  *)
(* of the entry before it, and its own hash over that and its body.         *)
EXTENDS Integers, Sequences

CONSTANTS
    Hash(_, _), \* sha256 of (prev, body): the body is dataset hash and time
    Genesis     \* 64 zeros, the prev of a first entry

\* The entry a writer appends that has found `prev` at the end of the log.
Entry(prev, body) == [prev |-> prev, body |-> body, hash |-> Hash(prev, body)]

\* What a writer finds at the end of the log.
LastHash(log) == IF log = <<>> THEN Genesis ELSE log[Len(log)].hash

PrevOf(log, i) == IF i = 1 THEN Genesis ELSE log[i - 1].hash

\* `ledger verify`: every entry names its predecessor and hashes to its hash.
Verify(log) ==
    \A i \in 1 .. Len(log) :
        /\ log[i].prev = PrevOf(log, i)
        /\ log[i].hash = Hash(log[i].prev, log[i].body)
=============================================================================
