---------------------------- MODULE MCCapability ----------------------------
(* Small instances of Capability for TLC. *)
EXTENDS Capability

CONSTANTS t1, t2, m1, m2

One == {t1}
Two == {t1, t2}
ShortThenLong == [b \in 0..1 |-> IF b = 0 THEN 2 ELSE 4]
Long == [b \in 0..1 |-> 6]
NoMethods == {}
TwoMethods == {m1, m2}
=============================================================================
