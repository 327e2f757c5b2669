---------------------------- MODULE MCAuditRing ----------------------------
(* Small instances of AuditRing for TLC. *)
EXTENDS AuditRing, TLC

CONSTANTS p1, c1, c2

OneProducer == {p1}
OneConsumer == {c1}
TwoConsumers == {c1, c2}
Symmetry == Permutations(TwoConsumers)

(* The properties of these runs end with straying, which lasts. *)
NotStrayed == ~strayed
=============================================================================
