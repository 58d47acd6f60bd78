------------------------------- MODULE MCTuiJobs -------------------------------
(* Small instances of TuiJobs for TLC: beside the daemon runs one front end, the *)
(* dashboard or the text UI.                                                     *)
EXTENDS TuiJobs, TLC

CONSTANTS p1, p2, t1

VARIABLE front

frontVars == <<writersVars, front>>

FrontInit == TuiInit /\ front \in {"web", "tui"}

FrontNext ==
  \/ front = "web" /\ WebNext /\ UNCHANGED <<tuiVars, front>>
  \/ front = "tui" /\ TuiNext /\ UNCHANGED front

FrontSpec == FrontInit /\ [][FrontNext]_frontVars

TwoPids == {p1, p2}
OneThread == {t1}
NoThreads == {}

\* Process ids and threads are only compared for equality.
PidSymmetry == Permutations(Pids)

OnlyOk == {"ok"}
NoFaults == {}
SpawnFault == {"spawn"}
SpawnAndSaveFaults == {"spawn", "save"}
================================================================================
