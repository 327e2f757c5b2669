---------------------------- MODULE MCAuditLog ----------------------------
(* Small instances of AuditLog for TLC. *)
EXTENDS AuditLog, TLC

CONSTANTS t1, t2

ThreadSet == {t1, t2}
NoFaults == {}
IOFaults == {"io"}
HashFaults == {"hash"}
ReadFaults == {"read"}
AllFaults == {"io", "alloc", "read"}
Symmetry == Permutations(ThreadSet)
=============================================================================
