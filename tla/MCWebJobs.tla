------------------------------- MODULE MCWebJobs -------------------------------
(* Small instances of WebJobs for TLC. *)
EXTENDS WebJobs, TLC

CONSTANTS p1, p2, p3, t1, t2

ThreePids == {p1, p2, p3}
OneThread == {t1}
TwoThreads == {t1, t2}

\* Process ids and threads are only compared for equality.
WebSymmetry == Permutations(Pids) \union Permutations(Threads)

NoFaults == {}
================================================================================
