-------------------------------- MODULE TuiJobs --------------------------------
(***************************************************************************)
(* JobManager of the text UI (tui/jobs.py) beside the daemon: a third      *)
(* writer of gniza-jobs.json.  It locks a file of its own                  *)
(* (gniza-jobs.json.lock), so nothing makes it wait for the others, reads  *)
(* the file without a lock, and writes all of its dictionary back.         *)
(*                                                                         *)
(* The text UI is one thread of asyncio: a callback, or a task up to its   *)
(* next await, is one step.  An asyncio task watches each process; whether *)
(* a job has one decides whether a reload may touch it.                    *)
(***************************************************************************)
EXTENDS WebJobs

CONSTANTS
  TuiFaults,   \* which faults the environment may inject into the text UI
  Ends         \* bound: the ends a process comes to

ASSUME TuiAssumption ==
  /\ TuiFaults \subseteq {"spawn", "save"}
  /\ Ends \subseteq Outcome

VARIABLES
  open,   \* whether the text UI is running
  tui     \* self._jobs

tuiVars == <<open, tui>>
writersVars == <<allVars, tuiVars>>

\* What becomes of a job: "new" has a task that has not run yet, "tail" a task and the
\* process it started, "follow" a task that watches a process of an earlier session,
\* "over" a task that has returned.
TuiTask == {"none", "new", "tail", "follow", "over"}

TuiJob == [st : Status, pid : Pids \union {NoPid}, task : TuiTask]

TuiJobOf(entry, task) == [st |-> entry.st, pid |-> entry.pid, task |-> task]

Unknown == TuiJobOf(Absent, "none")

TuiInit ==
  /\ WebInit
  /\ open = FALSE
  /\ tui = [j \in Jobs |-> Unknown]

\* _save_registry: what the dictionary looks like in the file.
Image(dict) ==
  [j \in Jobs |-> IF dict[j].st = "running" THEN RunningAs(dict[j].pid)
                                            ELSE EntryOf(dict[j].st)]

\* An OSError is only logged.
Saved(dict) == {Image(dict)} \union (IF "save" \in TuiFaults THEN {file} ELSE {})

\* kill(pid, 0) finds no process.
NotFound(p) == p \in Pids /\ proc[p].st = "gone"

\* What the text UI makes of a process it is not the parent of.
TuiVerdict(j) ==
  CASE DetectReturnCode(joblog[j]) = "zero" -> "success"
    [] DetectReturnCode(joblog[j]) = "nonzero" -> "failed"
    [] OTHER -> "unknown"

\* Mutant of Dispatched: it does not count what runs.
DispatchedAll(dict) ==
  [j \in Jobs |-> IF dict[j].st = "queued" THEN TuiJobOf(RunningAs(NoPid), "new")
                                           ELSE dict[j]]

\* _dispatch_queue: the oldest queued jobs, while slots are free, get a task.
Dispatched(dict) ==
  LET runs == Cardinality({j \in Jobs : dict[j].st = "running"})
      before(j) == Cardinality({i \in Jobs : i < j /\ dict[i].st = "queued"})
  IN [j \in Jobs |->
        IF dict[j].st = "queued" /\ (MaxConcurrent > 0 => runs + before(j) < MaxConcurrent)
        THEN TuiJobOf(RunningAs(NoPid), "new")
        ELSE dict[j]]

--------------------------------------------------------------------------------
(* The session. *)

\* _load_registry, at import, and start_tailing_reconnected.
TuiOpen ==
  LET Loaded(j) ==
        CASE file[j].st # "running" -> TuiJobOf(file[j], "none")
          [] file[j].st = "running" /\ file[j].pid = NoPid -> Unknown
          [] file[j].st = "running" /\ NotFound(file[j].pid) ->
               TuiJobOf(EntryOf(IF TuiVerdict(j) = "success" /\ IsSkipped(joblog[j])
                                THEN "skipped" ELSE TuiVerdict(j)), "none")
          [] OTHER -> TuiJobOf(file[j], "follow")
  IN
  /\ ~open
  /\ open' = TRUE
  /\ tui' = [j \in Jobs |-> Loaded(j)]
  /\ file' \in Saved(tui')
  /\ UNCHANGED <<locked, proc, joblog, issued>>

Tailed == {j \in Jobs : tui[j].task = "tail"}

\* asyncio cancels the tasks.  Each run_job saves, and dispatches before the next one
\* saves; a crash, or a session that started nothing, leaves the file alone.  The
\* processes have sessions of their own and go on.
TuiClose ==
  /\ open
  /\ open' = FALSE
  /\ \/ file' = file
     \/ Tailed # {} /\ file' = Image(tui)
     \/ Cardinality(Tailed) > 1 /\ file' = Image(Dispatched(tui))
  /\ tui' = [j \in Jobs |-> Unknown]
  /\ proc' = [p \in Pids |->
       CASE proc[p].parent = "tui" /\ proc[p].st = "live" -> [proc[p] EXCEPT !.parent = "init"]
         [] proc[p].parent = "tui" /\ proc[p].st = "zombie" -> [proc[p] EXCEPT !.st = "gone"]
         [] OTHER -> proc[p]]
  /\ UNCHANGED <<locked, joblog, issued>>

--------------------------------------------------------------------------------
(* Jobs of this session. *)

\* create_job and start_job.  running_count already counts the new job, so the last
\* free slot is only taken by a later dispatch.
TuiSubmit ==
  LET j == issued + 1
      runs == Cardinality({i \in Jobs : tui[i].st = "running"})
  IN
  /\ open
  /\ issued < NumJobs
  /\ issued' = j
  /\ IF MaxConcurrent > 0 /\ runs + 1 >= MaxConcurrent
     THEN /\ tui' = [tui EXCEPT ![j] = TuiJobOf(EntryOf("queued"), "none")]
          /\ file' \in Saved(tui')
     ELSE /\ tui' = [tui EXCEPT ![j] = TuiJobOf(RunningAs(NoPid), "new")]
          /\ file' = file
  /\ UNCHANGED <<locked, proc, joblog>>

\* run_job up to its first await.  Popen first waits for the children whose handle
\* was dropped.
TuiStart(j, p) ==
  /\ tui[j].task = "new"
  /\ Free(p)
  /\ proc' = [q \in Pids |->
       CASE q = p -> Started(p, j, "tui")[p]
         [] proc[q].parent = "tui" /\ proc[q].st = "zombie"
              /\ tui[proc[q].job].pid # q -> [proc[q] EXCEPT !.st = "gone"]
         [] OTHER -> proc[q]]
  /\ joblog' = [joblog EXCEPT ![j] = {}]
  /\ tui' = [tui EXCEPT ![j] = TuiJobOf(RunningAs(p), "tail")]
  /\ file' \in Saved(tui')
  /\ UNCHANGED <<locked, issued, open>>

\* Popen fails: the exception ends the task, and the job stays "running".
TuiStartRaises(j) ==
  /\ "spawn" \in TuiFaults
  /\ tui[j].task = "new"
  /\ tui' = [tui EXCEPT ![j].task = "over"]
  /\ UNCHANGED <<registryVars, open>>

\* The rest of run_job, when poll or waitpid returns the exit status.
TuiFinish(j) ==
  LET p == tui[j].pid
      zero == ExitCode(proc[p].exit) = "zero"
      st == CASE zero /\ IsSkipped(joblog[j]) -> "skipped"
              [] zero /\ ~IsSkipped(joblog[j]) -> "success"
              [] OTHER -> "failed"
      after == [tui EXCEPT ![j] = TuiJobOf(EntryOf(st), "over")]
  IN
  /\ tui[j].task = "tail"
  /\ proc[p].st = "zombie"
  /\ proc' = [proc EXCEPT ![p].st = "gone"]
  /\ file' \in Saved(after)
  /\ tui' = Dispatched(after)
  /\ UNCHANGED <<locked, joblog, issued, open>>

\* The end of _tail_reconnected.
TuiFollowEnds(j) ==
  LET after == [tui EXCEPT ![j] = TuiJobOf(EntryOf(TuiVerdict(j)), "none")] IN
  /\ tui[j].task = "follow"
  /\ NotFound(tui[j].pid)
  /\ file' \in Saved(after)
  /\ tui' = Dispatched(after)
  /\ UNCHANGED <<locked, proc, joblog, issued, open>>

--------------------------------------------------------------------------------
(* The timers of the application and of the task list. *)

\* Mutant of Reloaded: what the file has finished or lost is taken over, task or not.
ReloadedAny(dict, reg) ==
  [j \in Jobs |-> IF reg[j].st = "running" THEN dict[j] ELSE TuiJobOf(reg[j], "none")]

\* reload_registry.  Jobs with a task or a process are left alone; of the others, what
\* has finished is taken over, and what the file has lost goes.
Reloaded(dict, reg) ==
  LET New(j) ==
        CASE reg[j].st # "running" -> TuiJobOf(reg[j], "none")
          [] reg[j].st = "running" /\ reg[j].pid = NoPid -> Unknown
          [] reg[j].st = "running" /\ NotFound(reg[j].pid) -> TuiJobOf(EntryOf("unknown"), "none")
          [] OTHER -> TuiJobOf(reg[j], "none")
  IN [j \in Jobs |->
        CASE dict[j].task # "none" -> dict[j]
          [] dict[j].task = "none" /\ dict[j].st = "absent" -> New(j)
          [] dict[j].task = "none" /\ reg[j].st \in Terminal \union {"absent"} ->
               TuiJobOf(reg[j], "none")
          [] OTHER -> dict[j]]

\* check_reconnected: the jobs without a task whose process is gone.
LostJobs(dict) ==
  {j \in Jobs : dict[j].st = "running" /\ dict[j].task = "none" /\ NotFound(dict[j].pid)}

Checked(dict) ==
  [j \in Jobs |-> IF j \in LostJobs(dict) THEN TuiJobOf(EntryOf(TuiVerdict(j)), "none")
                                          ELSE dict[j]]

\* reload_registry, check_reconnected and _dispatch_queue on a dictionary and a file.
HealthCheck(dict, reg) ==
  LET dict2 == Checked(Reloaded(dict, reg)) IN
  /\ file' \in IF LostJobs(Reloaded(dict, reg)) = {} THEN {reg} ELSE Saved(dict2)
  /\ tui' = Dispatched(dict2)

TuiTimer ==
  /\ open
  /\ HealthCheck(tui, file)
  /\ UNCHANGED <<locked, proc, joblog, issued, open>>

--------------------------------------------------------------------------------
(* What the user does to jobs. *)

\* kill_job of a queued job, and the dispatch of _do_kill.
TuiCancel(j) ==
  LET after == [tui EXCEPT ![j] = TuiJobOf(EntryOf("failed"), "none")] IN
  /\ tui[j].st = "queued"
  /\ file' \in Saved(after)
  /\ tui' = Dispatched(after)
  /\ UNCHANGED <<locked, proc, joblog, issued, open>>

\* kill_job of a running one: SIGKILL to its process, if it is known and lives, and the
\* job counts as failed whatever the process came to.  Its task is cancelled; run_job
\* then saves once more, after the dispatch of _do_kill.
TuiKill(j) ==
  LET p == tui[j].pid
      after == [tui EXCEPT ![j] = TuiJobOf(EntryOf("failed"), "none")]
  IN
  /\ tui[j].st = "running"
  /\ IF p # NoPid /\ Live(p)
     THEN /\ proc' = Exited(p, "killed")
          /\ joblog' \in {joblog, [joblog EXCEPT ![j] = @ \union {"completed"}]}
     ELSE UNCHANGED <<proc, joblog>>
  /\ tui' = Dispatched(after)
  /\ file' \in Saved(after) \union (IF tui[j].task = "tail" THEN {Image(tui')} ELSE {})
  /\ UNCHANGED <<locked, issued, open>>

\* remove_finished, then the refresh of the table.
TuiClear ==
  LET kept == [j \in Jobs |-> IF tui[j].st \in {"running", "queued"} THEN tui[j] ELSE Unknown]
  IN
  /\ open
  /\ \E reg \in Saved(kept) : HealthCheck(kept, reg)
  /\ UNCHANGED <<locked, proc, joblog, issued, open>>

TuiStep ==
  \/ TuiOpen
  \/ TuiClose
  \/ TuiSubmit /\ UNCHANGED open
  \/ \E j \in Jobs :
       \/ \E p \in Pids : TuiStart(j, p)
       \/ TuiStartRaises(j)
       \/ TuiFinish(j)
       \/ TuiFollowEnds(j)
       \/ TuiCancel(j)
       \/ TuiKill(j)
  \/ TuiTimer
  \/ TuiClear

TuiNext ==
  \/ TuiStep /\ UNCHANGED <<daemonVars, webVars>>
  \/ (DaemonStep \/ Crash) /\ UNCHANGED <<webVars, tuiVars>>
  \/ \E p \in Pids : /\ ProcessStep(p)
                     /\ proc'[p].exit \in Ends
                     /\ UNCHANGED <<daemonVars, webVars, tuiVars>>

TuiSpec == TuiInit /\ [][TuiNext]_writersVars

--------------------------------------------------------------------------------
(* Properties. *)

TuiTypeOK ==
  /\ WebTypeOK
  /\ open \in BOOLEAN
  /\ tui \in [Jobs -> TuiJob]

\* Whatever copy of the registry any writer holds, and however often the writers
\* overwrite each other's, the pid of a running entry in it is that of a process
\* started for this very job: a kill or a verdict hits no other job.
EveryPidIsOfItsJob ==
  \A reg \in {file, entries, jobs, Image(tui)} \union {wjobs[t] : t \in Threads} :
    \A j \in Running(reg) : reg[j].pid # NoPid => proc[reg[j].pid].job = j

\* Every run this session of the text UI started and that still runs is in its
\* dictionary with its pid, whatever the daemon writes, finishes or cleans up in the
\* file: it can be shown and killed.
TuiLiveIsKnown ==
  \A p \in Pids : Live(p) /\ proc[p].parent = "tui" =>
    tui[proc[p].job].st = "running" /\ tui[proc[p].job].pid = p

\* The runs a session started never exceed MAX_CONCURRENT_JOBS.
TuiWithinLimit ==
  MaxConcurrent > 0 =>
    Cardinality({p \in Pids : Live(p) /\ proc[p].parent = "tui"}) <= MaxConcurrent
================================================================================
