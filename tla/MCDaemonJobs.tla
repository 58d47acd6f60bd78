----------------------------- MODULE MCDaemonJobs -----------------------------
(* Small instances of DaemonJobs for TLC. *)
EXTENDS DaemonJobs, TLC

CONSTANTS p1, p2, p3

ThreePids == {p1, p2, p3}

\* Process ids are only compared for equality.
PidSymmetry == Permutations(Pids)

NoFaults == {}
CrashAndSpawnFaults == {"crash", "spawn"}
SpawnFault == {"spawn"}
================================================================================
