----------------------------- MODULE MCDispatch -----------------------------
(* Small instances of Dispatch for TLC. *)
EXTENDS Dispatch, TLC

CONSTANTS t1, t2

Two == {t1, t2}
TwoVerdicts == {"ok", "POLICY_DENIED"}
AllVerdicts == {"ok", "POLICY_DENIED", "BUDGET_EXCEEDED", "TAINT"}
Symmetry == Permutations(Threads)
=============================================================================
