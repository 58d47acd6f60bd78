-------------------------------- MODULE JobQueue --------------------------------
(***************************************************************************)
(* What the job registry promises, without files, locks or processes: a    *)
(* queue that starts the jobs in it in the order they were submitted, each *)
(* once, a bounded number at a time, and keeps a finished job finished.    *)
(* Jobs a user runs from a shell join as running and do not wait.          *)
(***************************************************************************)
EXTENDS Naturals, FiniteSets

CONSTANTS NumJobs, MaxConcurrent

VARIABLE stage   \* how far each job is

Stage == {"unborn", "queued", "running", "finished", "removed"}

At(s) == {j \in 1..NumJobs : stage[j] = s}

Init == /\ stage \in [1..NumJobs -> {"unborn", "queued"}]
        /\ \A i, j \in 1..NumJobs : i < j /\ stage[j] = "queued" => stage[i] = "queued"

\* A job run from a shell; job ids are issued in order.
Join(j) ==
  /\ stage[j] = "unborn"
  /\ \A i \in 1..(j - 1) : stage[i] # "unborn"
  /\ stage' = [stage EXCEPT ![j] = "running"]

\* The oldest queued job starts when a slot is free.
Dispatch(j) ==
  /\ stage[j] = "queued"
  /\ \A i \in At("queued") : j <= i
  /\ MaxConcurrent > 0 => Cardinality(At("running")) < MaxConcurrent
  /\ stage' = [stage EXCEPT ![j] = "running"]

\* Some running jobs are found to have ended.
Finish(ended) ==
  /\ ended \subseteq At("running")
  /\ stage' = [j \in 1..NumJobs |-> IF j \in ended THEN "finished" ELSE stage[j]]

\* Some finished jobs are old enough to be forgotten.
Remove(old) ==
  /\ old \subseteq At("finished")
  /\ stage' = [j \in 1..NumJobs |-> IF j \in old THEN "removed" ELSE stage[j]]

Next ==
  \/ \E j \in 1..NumJobs : Join(j) \/ Dispatch(j)
  \/ \E jobs \in SUBSET (1..NumJobs) : Finish(jobs) \/ Remove(jobs)

Spec == Init /\ [][Next]_stage
================================================================================
