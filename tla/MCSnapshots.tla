------------------------------ MODULE MCSnapshots ------------------------------
(* Small instances of Snapshots for TLC. *)
EXTENDS Snapshots

CONSTANTS r1, r2, g1

\* A schedule that keeps two snapshots, a manual run that keeps one, and the
\* retention of the daemon that keeps one.
TwoRuns == {r1, r2}
OnePruner == {g1}
Counts == [a \in {r1, r2, g1} |-> IF a = r1 THEN 2 ELSE 1]

Hostile == {"crash", "remote", "rm"}
UnreadableSource == {"unreadable"}
UnreadablePins == {"pins", "meta"}
================================================================================
