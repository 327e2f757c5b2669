------------------------------ MODULE MCBudget ------------------------------
(* Small instances of Budget for TLC. *)
EXTENDS Budget, TLC

CONSTANTS t1, t2, t3

Two == {t1, t2}
Three == {t1, t2, t3}
Symmetry == Permutations(Threads)

SmallLimits == [r \in Resources |-> IF r \in {"calls", "tokens"} THEN 6 ELSE 1]
=============================================================================
