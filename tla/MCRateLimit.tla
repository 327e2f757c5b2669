----------------------------- MODULE MCRateLimit -----------------------------
(* Small instances of RateLimit for TLC. *)
EXTENDS RateLimit, TLC

CONSTANTS t1, t2, k1, k2, k3

One == {t1}
Two == {t1, t2}
OneToken == {k1}
ThreeTokens == {k1, k2, k3}
Symmetry == Permutations(Threads) \cup Permutations(Tokens)
=============================================================================
