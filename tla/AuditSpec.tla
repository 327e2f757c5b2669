----------------------------- MODULE AuditSpec -----------------------------
(***************************************************************************)
(* What the audit log promises (INV-4): a log that only grows, a prefix of *)
(* it that is stable, and reboots that cut the log at some point at or     *)
(* after the end of the stable prefix, and change nothing before the cut.  *)
(***************************************************************************)
EXTENDS Naturals, Sequences

VARIABLES log,     \* the log a reader sees (after a crash: what recovery finds)
          stable   \* length of the prefix that no crash may remove

vars == <<log, stable>>

Init == log = <<>> /\ stable = 0

\* One more entry; the entries before it stay what they are.
AppendEntry == /\ Len(log') = Len(log) + 1
               /\ SubSeq(log', 1, Len(log)) = log
               /\ UNCHANGED stable

\* A longer prefix becomes stable.
Stabilize == stable' \in (stable + 1)..Len(log) /\ UNCHANGED log

\* A crash keeps at least the stable prefix, and what it keeps is stable.
Reboot == \E n \in stable..Len(log) : /\ log' = SubSeq(log, 1, n)
                                      /\ stable' = n

Next == AppendEntry \/ Stabilize \/ Reboot

Spec == Init /\ [][Next]_vars
=============================================================================
