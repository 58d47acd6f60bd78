---------------------------- MODULE SnapshotCatalog ----------------------------
(***************************************************************************)
(* What backups and retention promise to the user of a destination: a      *)
(* catalog that whole snapshots enter in the order of their timestamps and *)
(* at once, and that only retention takes snapshots from, never a pinned   *)
(* one, never one of the newest.  A backup that fails, is skipped or is    *)
(* killed changes nothing.                                                 *)
(***************************************************************************)
EXTENDS Naturals, FiniteSets

CONSTANTS NumStamps,
          MinKeep      \* the least retention count anybody works with

VARIABLE shelf   \* each timestamp: not taken, kept, pinned, or given up to retention

Stamps == 1..NumStamps

In(states) == {s \in Stamps : shelf[s] \in states}

Init == shelf = [s \in Stamps |-> "none"]

\* A backup succeeds.
Take(s) ==
  /\ \A t \in Stamps : t >= s => shelf[t] = "none"
  /\ shelf' = [shelf EXCEPT ![s] = "kept"]

\* A retention chooses the snapshots to delete.
Drop(old) ==
  /\ old # {} /\ \A s \in old : shelf[s] = "kept"
  /\ \A s \in old : Cardinality({t \in In({"kept", "pinned"}) \ old : t > s}) >= MinKeep
  /\ shelf' = [s \in Stamps |-> IF s \in old THEN "dropped" ELSE shelf[s]]

\* A user pins a snapshot or takes the pin away.
Pin(s) ==
  /\ shelf[s] \in {"kept", "pinned"}
  /\ shelf' = [shelf EXCEPT ![s] = IF @ = "pinned" THEN "kept" ELSE "pinned"]

Next ==
  \/ \E s \in Stamps : Take(s) \/ Pin(s)
  \/ \E old \in SUBSET Stamps : Drop(old)

Spec == Init /\ [][Next]_shelf
================================================================================
