---------------------------- MODULE MCStateSync ----------------------------
(* Small instances of StateSync for TLC. *)
EXTENDS StateSync

Apart == [p \in 1..MaxPtr |-> p]
Colliding == [p \in 1..MaxPtr |-> p % 2]
=============================================================================
