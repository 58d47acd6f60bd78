------------------------------- MODULE DaemonJobs -------------------------------
(***************************************************************************)
(* gniza-daemon (daemon/core.py) on the job registry.  Every cycle it runs *)
(* check_jobs and dispatch_queue, and now and then cleanup_old_entries;    *)
(* each is a _locked_update: take the lock, load the file, work on the     *)
(* loaded entries, save them, release the lock.  Loading and saving are    *)
(* separate steps here, and so is every process dispatch_queue starts, so  *)
(* a crash or another writer can come between them.                        *)
(***************************************************************************)
EXTENDS JobRegistry

CONSTANTS
  Faults,       \* which faults the environment may inject
  CgroupKill,   \* TRUE under the systemd unit (KillMode=mixed), FALSE by hand
  MaxCrashes    \* bound: how often the daemon dies

ASSUME DaemonAssumption ==
  /\ Faults \subseteq {"crash", "spawn", "save"}
  /\ CgroupKill \in BOOLEAN
  /\ MaxCrashes \in Nat

VARIABLES
  dpc,      \* the update the daemon is in, or will start next
  entries,  \* the entries _locked_update loaded, as its callback changed them
  crashes   \* how often the daemon died so far

daemonVars == <<dpc, entries, crashes>>
vars == <<registryVars, daemonVars>>

NoEntries == [j \in Jobs |-> Absent]

\* The daemon starts on a registry in which the web dashboard left some jobs queued.
Init ==
  /\ issued \in 0..NumJobs
  /\ file = [j \in Jobs |-> EntryOf(IF j <= issued THEN "queued" ELSE "absent")]
  /\ locked = FALSE
  /\ proc = [p \in Pids |-> NoProcess]
  /\ joblog = [j \in Jobs |-> {}]
  /\ dpc = "check"
  /\ entries = NoEntries
  /\ crashes = 0

\* _locked_update up to and including _load_registry.
LockAndLoad ==
  /\ dpc # "down"
  /\ ~locked
  /\ locked' = TRUE
  /\ entries' = file
  /\ UNCHANGED <<file, proc, joblog, issued, dpc, crashes>>

\* _save_registry logs an OSError and returns; the lock is released either way.
SaveAndUnlock(new) ==
  /\ file' = new \/ ("save" \in Faults /\ file' = file)
  /\ locked' = FALSE
  /\ entries' = NoEntries

--------------------------------------------------------------------------------

Reapable(p) == proc[p].st = "zombie" /\ proc[p].parent = "daemon"

\* Mutant of SeenDead: without the kill(pid, 0) for processes that are no children.
SeenDeadChild(p) == Reapable(p)

SeenDead(p) == Reapable(p) \/ proc[p].st = "gone"

DeadJobs == {j \in Running(entries) :
               entries[j].pid \in Pids /\ SeenDead(entries[j].pid)}

\* Mutant of ReturnCode: the result of waitpid is not used.
ReturnCodeOfLog(j) == DetectReturnCode(joblog[j])

ReturnCode(j) == IF Reapable(entries[j].pid) THEN ExitCode(proc[entries[j].pid].exit)
                                             ELSE DetectReturnCode(joblog[j])

\* Mutant of Verdict: the return code is recorded as the status.
VerdictRaw(j) == ReturnCode(j)

Verdict(j) ==
  CASE ReturnCode(j) = "zero" /\ IsSkipped(joblog[j])  -> "skipped"
    [] ReturnCode(j) = "zero" /\ ~IsSkipped(joblog[j]) -> "success"
    [] OTHER -> "failed"

CheckJobs ==
  /\ dpc = "check"
  /\ locked
  /\ SaveAndUnlock([j \in Jobs |-> IF j \in DeadJobs THEN EntryOf(Verdict(j))
                                                     ELSE entries[j]])
  /\ proc' = [p \in Pids |->
                IF Reapable(p) /\ \E j \in DeadJobs : entries[j].pid = p
                THEN [proc[p] EXCEPT !.st = "gone"] ELSE proc[p]]
  /\ dpc' = "dispatch"
  /\ UNCHANGED <<joblog, issued, crashes>>

--------------------------------------------------------------------------------

CanDispatch == Queued(entries) # {} /\ UnderLimit(entries)

\* Mutant of DispatchOne: the started job stays queued.
DispatchOneForgets(p) ==
  /\ dpc = "dispatch"
  /\ locked
  /\ CanDispatch
  /\ Free(p)
  /\ proc' = Started(p, FirstQueued(entries), "daemon")
  /\ UNCHANGED <<file, locked, joblog, issued, dpc, entries, crashes>>

\* Mutant of DispatchOne: the pid goes into the entry of another queued job.
DispatchOneMixesUp(p) ==
  /\ dpc = "dispatch"
  /\ locked
  /\ CanDispatch
  /\ Free(p)
  /\ proc' = Started(p, FirstQueued(entries), "daemon")
  /\ entries' = [entries EXCEPT ![LastQueued(entries)] = RunningAs(p)]
  /\ UNCHANGED <<file, locked, joblog, issued, dpc, crashes>>

\* One iteration of the loop: the oldest queued job is started.
DispatchOne(p) ==
  LET j == FirstQueued(entries) IN
  /\ dpc = "dispatch"
  /\ locked
  /\ CanDispatch
  /\ Free(p)
  /\ proc' = Started(p, j, "daemon")
  /\ entries' = [entries EXCEPT ![j] = RunningAs(p)]
  /\ UNCHANGED <<file, locked, joblog, issued, dpc, crashes>>

\* The log cannot be opened or Popen fails: the exception leaves _locked_update
\* before its save and the cycle ends.
DispatchRaises ==
  /\ "spawn" \in Faults
  /\ dpc = "dispatch"
  /\ locked
  /\ CanDispatch
  /\ locked' = FALSE
  /\ entries' = NoEntries
  /\ dpc' = "check"
  /\ UNCHANGED <<file, proc, joblog, issued, crashes>>

\* The loop is over.  Every 60th cycle goes on to the cleanup.
DispatchDone ==
  /\ dpc = "dispatch"
  /\ locked
  /\ ~CanDispatch
  /\ SaveAndUnlock(entries)
  /\ dpc' \in {"check", "cleanup"}
  /\ UNCHANGED <<proc, joblog, issued, crashes>>

\* Finished entries older than LOG_RETAIN days go, with their logs.
CleanupOldEntries ==
  /\ dpc = "cleanup"
  /\ locked
  /\ \E old \in SUBSET {j \in Jobs : entries[j].st \in Terminal} :
       /\ SaveAndUnlock([j \in Jobs |-> IF j \in old THEN Absent
                                                     ELSE entries[j]])
       /\ joblog' = [j \in Jobs |-> IF j \in old THEN {} ELSE joblog[j]]
  /\ dpc' = "check"
  /\ UNCHANGED <<proc, issued, crashes>>

--------------------------------------------------------------------------------

\* Mutant of Orphaned: the unit has KillMode=process, its children live on.
OrphanedSurvives(p) ==
  IF proc[p].parent = "daemon" /\ proc[p].st = "live" THEN [proc[p] EXCEPT !.parent = "init"]
                                                      ELSE proc[p]

\* What becomes of a child of the daemon when the daemon dies: the unit's
\* KillMode=mixed kills it, else init adopts it.
Orphaned(p) ==
  CASE proc[p].parent # "daemon" \/ proc[p].st = "gone" -> proc[p]
    [] proc[p].parent = "daemon" /\ proc[p].st = "zombie" ->
         [proc[p] EXCEPT !.st = "gone"]
    [] OTHER -> IF CgroupKill THEN [proc[p] EXCEPT !.st = "gone", !.exit = "killed"]
                              ELSE [proc[p] EXCEPT !.parent = "init"]

\* The kernel drops the flock of a dead process.
Crash ==
  /\ "crash" \in Faults
  /\ crashes < MaxCrashes
  /\ dpc # "down"
  /\ dpc' = "down"
  /\ crashes' = crashes + 1
  /\ locked' = FALSE
  /\ entries' = NoEntries
  /\ proc' = [p \in Pids |-> Orphaned(p)]
  /\ \E torn \in SUBSET {j \in Jobs : CgroupKill /\ \E p \in Pids :
                           Live(p) /\ proc[p].parent = "daemon" /\ proc[p].job = j} :
       joblog' = [j \in Jobs |-> IF j \in torn THEN joblog[j] \union {"completed"}
                                               ELSE joblog[j]]
  /\ UNCHANGED <<file, issued>>

\* Restart=always; _child_procs starts empty.
Restart ==
  /\ dpc = "down"
  /\ dpc' = "check"
  /\ UNCHANGED <<registryVars, entries, crashes>>

--------------------------------------------------------------------------------

DaemonStep ==
  \/ LockAndLoad
  \/ CheckJobs
  \/ \E p \in Pids : DispatchOne(p)
  \/ DispatchRaises
  \/ DispatchDone
  \/ CleanupOldEntries
  \/ Restart

ProcessStep(p) == ProcExit(p) \/ ProcKilled(p)

ShellStep(p) == CmdStart(p) \/ CmdFinish(p)

Next ==
  \/ DaemonStep
  \/ Crash
  \/ \E p \in Pids : ProcessStep(p) /\ UNCHANGED daemonVars
  \/ \E p \in Pids : ShellStep(p) /\ UNCHANGED daemonVars

Spec == Init /\ [][Next]_vars

\* The loop of run() keeps turning, systemd restarts it, every CLI run ends, and Popen
\* does not fail for ever.
Fairness ==
  /\ WF_vars(DaemonStep)
  /\ SF_vars(\E p \in Pids : DispatchOne(p))
  /\ \A p \in Pids : WF_vars((ProcessStep(p) \/ CmdFinish(p)) /\ UNCHANGED daemonVars)

FairSpec == Spec /\ Fairness

--------------------------------------------------------------------------------
(* Properties. *)

\* The registry as the daemon sees it: what it has started but not yet saved counts.
View == IF locked /\ dpc = "dispatch" THEN entries ELSE file

\* Type correctness of the registry, the processes and the daemon.
TypeOK ==
  /\ RegistryTypeOK
  /\ dpc \in {"check", "dispatch", "cleanup", "down"}
  /\ entries \in Registry
  /\ crashes \in 0..MaxCrashes

\* _locked_update never works on outdated entries: while the daemon holds the
\* lock nobody changes the file, so what it saves drops no other writer's update.
LoadedIsCurrent ==
  locked => \A j \in Jobs :
    \/ entries[j] = file[j]
    \/ dpc = "dispatch" /\ file[j].st = "queued" /\ entries[j].st = "running"

\* Every process still running is recorded: the entry of its job is "running"
\* with its pid, so check_jobs and kill can find it.
LiveIsTracked == \A p \in Pids : Live(p) => View[proc[p].job] = RunningAs(p)

\* The pid of a running entry is that of a process started for this very job.
PidIsOfTheJob ==
  \A j \in Running(file) : file[j].pid \in Pids /\ proc[file[j].pid].job = j

\* No two processes run the same job at the same time.
OneRunAtATime ==
  \A p, q \in Pids : Live(p) /\ Live(q) /\ proc[p].job = proc[q].job => p = q

\* A job is started once, never again (check_jobs, dispatch_queue, a busy queue
\* and the cleanup notwithstanding).
StartedOnce ==
  \A p, q \in Pids : proc[p].job = proc[q].job /\ proc[p].job # 0 => p = q

LiveDaemonRuns == {p \in Pids : Live(p) /\ proc[p].parent # "shell"}

\* dispatch_queue keeps MAX_CONCURRENT_JOBS: the runs it started and that still
\* run are at most that many, whatever users start from their shells.
WithinLimit == MaxConcurrent > 0 => Cardinality(LiveDaemonRuns) <= MaxConcurrent

\* What check_jobs records of a child it waited for is what the child returned.
VerdictIsTrue ==
  \A p \in Pids : LET st == file[proc[p].job].st IN
    proc[p].parent = "daemon" /\ proc[p].st = "gone" /\ st \in Terminal
      => (st \in {"success", "skipped"} <=> ExitCode(proc[p].exit) = "zero")

\* A finished entry is never reopened: it stays as it is until cleanup removes it.
FinishedStays ==
  [][\A j \in Jobs : file[j].st \in Terminal => file'[j] \in {file[j], Absent}]_vars

\* A queued job is never overtaken by a job queued after it.
QueueOrder ==
  [][\A i, j \in Jobs : i < j /\ View[i].st = "queued" /\ View[j].st = "queued"
       => (View'[j].st = "running" => View'[i].st = "running")]_vars

\* A queued job is eventually run to an end that the registry records.
QueuedIsServed ==
  \A j \in Jobs : (file[j].st = "queued") ~> (file[j].st \in Terminal)

\* The daemon implements the job queue: an entry the daemon has started but not
\* yet saved is running, a job whose entry the file no longer has was removed.
StageOf(j) ==
  CASE View[j].st = "absent" -> IF j <= issued THEN "removed" ELSE "unborn"
    [] View[j].st \in Terminal -> "finished"
    [] OTHER -> View[j].st

Queue == INSTANCE JobQueue WITH stage <- [j \in Jobs |-> StageOf(j)]

ImplementsQueue == Queue!Spec
================================================================================
