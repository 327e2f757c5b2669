------------------------------- MODULE MCHeap -------------------------------
(* Small instances of Heap for TLC. *)
EXTENDS Heap

CONSTANTS t1

One == {t1}
KeepSome == {0, 1}
=============================================================================
