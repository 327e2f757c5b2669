----------------------------- MODULE MCTransport -----------------------------
(* Small instances of Transport for TLC. *)
EXTENDS Transport

CONSTANTS t1, t2, l1, l2

TwoThreads == {t1, t2}
OneLatch == {l1}
TwoLatches == {l1, l2}
=============================================================================
