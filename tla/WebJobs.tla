-------------------------------- MODULE WebJobs --------------------------------
(***************************************************************************)
(* WebJobManager (web/jobs.py) beside the daemon.  The request threads of  *)
(* the web server share one dictionary of jobs: load_registry replaces it  *)
(* with what the file says, every other operation changes it and writes    *)
(* all of it back.  Only create_and_start and _dispatch_queue take the     *)
(* thread lock, and the flock is held only while the file is read or       *)
(* written, so requests, threads and the daemon interleave between them.   *)
(***************************************************************************)
EXTENDS DaemonJobs

CONSTANTS
  Threads,      \* the request threads of the web server
  NoThread,     \* nobody holds the thread lock
  WebFaults     \* which faults the environment may inject into the web server

ASSUME WebAssumption ==
  /\ NoThread \notin Threads
  /\ WebFaults \subseteq {"spawn", "save"}

VARIABLES
  jobs,    \* self._jobs, shared by the threads
  tlock,   \* who holds self._lock
  wpc,     \* what each thread does next
  wjobs    \* the entries a load read or a save writes, or the job objects that a
           \* dispatch iterates over or a cancel has picked

webVars == <<jobs, tlock, wpc, wjobs>>
allVars == <<vars, webVars>>

\* In "detached" and "cancel_old" the dictionary was replaced meanwhile, and the job
\* objects that the thread holds are not those of the dictionary any more.
WebPc == {"idle", "refresh", "save", "save_unlock", "save_dispatch",
          "dispatch", "dispatching", "detached", "cancel", "cancel_old"}

WebInit ==
  /\ Init
  /\ issued = 0
  /\ jobs = NoEntries
  /\ tlock = NoThread
  /\ wpc = [t \in Threads |-> "idle"]
  /\ wjobs = [t \in Threads |-> NoEntries]

Goto(t, pc) == wpc' = [wpc EXCEPT ![t] = pc]

\* The start of _save_registry: the entries are built before the flock is waited for.
BuildEntries(t, pc) ==
  /\ Goto(t, pc)
  /\ wjobs' = [wjobs EXCEPT ![t] = jobs']

--------------------------------------------------------------------------------
(* load_registry *)

\* _flock_read, when the cached copy is older than its 1.5 seconds.
FlockRead(t) ==
  /\ wpc[t] = "idle"
  /\ ~locked
  /\ wjobs' = [wjobs EXCEPT ![t] = file]
  /\ Goto(t, "refresh")
  /\ UNCHANGED <<registryVars, jobs, tlock>>

WebReapable(p) == proc[p].st = "zombie" /\ proc[p].parent = "web"

WebDead(reg) == {j \in Running(reg) : reg[j].pid \in Pids
                   /\ (WebReapable(reg[j].pid) \/ proc[reg[j].pid].st = "gone")}

\* Mutant of WebReturnCode: the result of waitpid is not used.
WebReturnCodeOfLog(j, p) == DetectReturnCode(joblog[j])

WebReturnCode(j, p) == IF WebReapable(p) THEN ExitCode(proc[p].exit)
                                         ELSE DetectReturnCode(joblog[j])

\* Mutant of WebVerdict: the return code is recorded as the status.
WebVerdictRaw(j, p) == WebReturnCode(j, p)

WebVerdict(j, p) ==
  CASE WebReturnCode(j, p) = "zero" /\ IsSkipped(joblog[j]) -> "skipped"
    [] WebReturnCode(j, p) = "zero" /\ ~IsSkipped(joblog[j]) -> "success"
    [] WebReturnCode(j, p) = "nonzero" -> "failed"
    [] OTHER -> "unknown"

\* The rest of load_registry: wait for or look up every running process, then
\* replace self._jobs.  A dispatch of another thread goes on with the old objects.
Refresh(t) ==
  LET read == wjobs[t]
      dead == WebDead(read)
  IN
  /\ wpc[t] = "refresh"
  /\ jobs' = [j \in Jobs |-> IF j \in dead THEN EntryOf(WebVerdict(j, read[j].pid))
                                           ELSE read[j]]
  /\ proc' = [p \in Pids |-> IF WebReapable(p) /\ \E j \in dead : read[j].pid = p
                             THEN [proc[p] EXCEPT !.st = "gone"] ELSE proc[p]]
  /\ wjobs' = [wjobs EXCEPT ![t] = IF dead = {} THEN NoEntries ELSE jobs']
  /\ wpc' = [u \in Threads |->
               CASE u = t -> IF dead = {} THEN "idle" ELSE "save_dispatch"
                 [] u # t /\ wpc[u] = "dispatching" -> "detached"
                 [] u # t /\ wpc[u] = "cancel" -> "cancel_old"
                 [] OTHER -> wpc[u]]
  /\ UNCHANGED <<file, locked, joblog, issued, tlock>>

--------------------------------------------------------------------------------

\* Mutant of AfterSave: a finished job does not trigger a dispatch.
AfterSaveIdle(pc) == "idle"

AfterSave(pc) == IF pc = "save_dispatch" THEN "dispatch" ELSE "idle"

\* The rest of _save_registry: the entries of the whole dictionary replace the file, under
\* the flock; an OSError is only logged.
SaveRegistry(t) ==
  /\ wpc[t] \in {"save", "save_unlock", "save_dispatch"}
  /\ ~locked
  /\ file' = wjobs[t] \/ ("save" \in WebFaults /\ file' = file)
  /\ wjobs' = [wjobs EXCEPT ![t] = NoEntries]
  /\ Goto(t, AfterSave(wpc[t]))
  /\ tlock' = IF wpc[t] = "save_unlock" THEN NoThread ELSE tlock
  /\ UNCHANGED <<locked, proc, joblog, issued, jobs>>

\* start_cli_background truncates the log of the job.
WebStart(p, j) ==
  /\ Free(p)
  /\ proc' = Started(p, j, "web")
  /\ joblog' = [joblog EXCEPT ![j] = {}]

\* create_and_start: counts on the dictionary as it is, without a load.
CreateAndStart(t) ==
  LET j == issued + 1 IN
  /\ wpc[t] = "idle"
  /\ tlock = NoThread
  /\ issued < NumJobs
  /\ issued' = j
  /\ tlock' = t
  /\ \/ /\ ~UnderLimit(jobs)
        /\ jobs' = [jobs EXCEPT ![j] = EntryOf("queued")]
        /\ UNCHANGED <<proc, joblog>>
     \/ /\ UnderLimit(jobs)
        /\ \E p \in Pids : WebStart(p, j) /\ jobs' = [jobs EXCEPT ![j] = RunningAs(p)]
  /\ BuildEntries(t, "save_unlock")
  /\ UNCHANGED <<file, locked>>

\* _dispatch_queue takes the thread lock and lists the queued job objects ...
DispatchQueue(t) ==
  /\ wpc[t] = "dispatch"
  /\ tlock = NoThread
  /\ tlock' = t
  /\ wjobs' = [wjobs EXCEPT ![t] = [j \in Jobs |-> IF j \in Queued(jobs) THEN jobs[j]
                                                                       ELSE Absent]]
  /\ Goto(t, "dispatching")
  /\ UNCHANGED <<registryVars, jobs>>

\* Mutant of WebMayStart: the limit is only checked by create_and_start.
WebMayStartAny(t) == Queued(wjobs[t]) # {}

\* ... starts the oldest queued one while the dictionary shows a free slot ...
WebMayStart(t) == Queued(wjobs[t]) # {} /\ UnderLimit(jobs)

\* Mutant of WebDispatchOne: the job gets the pid of a run that has ended.
WebDispatchMixesUp(t, p) ==
  LET j == FirstQueued(wjobs[t]) IN
  /\ wpc[t] \in {"dispatching", "detached"}
  /\ WebMayStart(t)
  /\ WebStart(p, j)
  /\ \E q \in {p} \union {x \in Pids : proc[x].st = "gone"} :
       /\ wjobs' = [wjobs EXCEPT ![t][j] = RunningAs(q)]
       /\ jobs' = [jobs EXCEPT ![j] = RunningAs(q)]
  /\ UNCHANGED <<file, locked, issued, tlock, wpc>>

WebDispatchOne(t, p) ==
  LET j == FirstQueued(wjobs[t]) IN
  /\ wpc[t] \in {"dispatching", "detached"}
  /\ WebMayStart(t)
  /\ WebStart(p, j)
  /\ wjobs' = [wjobs EXCEPT ![t][j] = RunningAs(p)]
  /\ jobs' = IF wpc[t] = "dispatching" THEN [jobs EXCEPT ![j] = RunningAs(p)] ELSE jobs
  /\ UNCHANGED <<file, locked, issued, tlock, wpc>>

\* ... and saves if it started any.
DispatchQueueDone(t) ==
  /\ wpc[t] \in {"dispatching", "detached"}
  /\ ~WebMayStart(t)
  /\ UNCHANGED <<registryVars, jobs>>
  /\ \/ /\ Running(wjobs[t]) # {}
        /\ BuildEntries(t, "save_unlock")
        /\ UNCHANGED tlock
     \/ /\ Running(wjobs[t]) = {}
        /\ Goto(t, "idle")
        /\ tlock' = NoThread
        /\ wjobs' = [wjobs EXCEPT ![t] = NoEntries]

\* Popen fails: the exception leaves the loop, and the started jobs unsaved.
WebDispatchRaises(t) ==
  /\ "spawn" \in WebFaults
  /\ wpc[t] \in {"dispatching", "detached"}
  /\ WebMayStart(t)
  /\ Goto(t, "idle")
  /\ tlock' = NoThread
  /\ wjobs' = [wjobs EXCEPT ![t] = NoEntries]
  /\ UNCHANGED <<registryVars, jobs>>

--------------------------------------------------------------------------------

\* Mutant of CancelQueued: a finished job can be cancelled too.
CancelAny(t, j) ==
  /\ wpc[t] = "idle"
  /\ jobs[j].st \notin {"absent", "running"}
  /\ wjobs' = [wjobs EXCEPT ![t] = [NoEntries EXCEPT ![j] = jobs[j]]]
  /\ Goto(t, "cancel")
  /\ UNCHANGED <<registryVars, jobs, tlock>>

\* kill_job finds that the job is queued ...
CancelQueued(t, j) ==
  /\ wpc[t] = "idle"
  /\ jobs[j].st = "queued"
  /\ wjobs' = [wjobs EXCEPT ![t] = [NoEntries EXCEPT ![j] = jobs[j]]]
  /\ Goto(t, "cancel")
  /\ UNCHANGED <<registryVars, jobs, tlock>>

\* ... and has it failed, whatever it is by now, also for a dispatch that iterates over
\* the same object, and saves the dictionary, whether the object is still in it or not.
CancelJob(t, j) ==
  /\ wpc[t] \in {"cancel", "cancel_old"}
  /\ wjobs[t][j].st # "absent"
  /\ jobs' = IF wpc[t] = "cancel" /\ jobs[j].st # "absent"
             THEN [jobs EXCEPT ![j] = EntryOf("failed")] ELSE jobs
  /\ \E same \in SUBSET {u \in Threads : wpc[u] = "detached"} :
       LET holders == IF wpc[t] = "cancel" THEN {u \in Threads : wpc[u] = "dispatching"} ELSE same
           skip(u) == u \in holders /\ wjobs[u][j].st = "queued"
       IN wjobs' = [u \in Threads |-> CASE u = t -> jobs'
                                        [] u # t /\ skip(u) -> [wjobs[u] EXCEPT ![j] = Absent]
                                        [] OTHER -> wjobs[u]]
  /\ Goto(t, "save_dispatch")
  /\ UNCHANGED <<registryVars, tlock>>

\* kill_job of a running one: SIGKILL to the process group, nothing recorded.
KillRunning(t, j) ==
  /\ wpc[t] = "idle"
  /\ jobs[j].st = "running"
  /\ jobs[j].pid \in Pids
  /\ ProcKilled(jobs[j].pid)
  /\ UNCHANGED webVars

\* Mutant of RemoveFinished: running jobs are cleared with the finished ones.
RemoveNotQueued(t) ==
  /\ wpc[t] = "idle"
  /\ jobs' = [j \in Jobs |-> IF jobs[j].st = "queued" THEN jobs[j] ELSE Absent]
  /\ BuildEntries(t, "save")
  /\ UNCHANGED <<registryVars, tlock>>

RemoveFinished(t) ==
  /\ wpc[t] = "idle"
  /\ jobs' = [j \in Jobs |-> IF jobs[j].st \in {"running", "queued"} THEN jobs[j] ELSE Absent]
  /\ BuildEntries(t, "save")
  /\ UNCHANGED <<registryVars, tlock>>

--------------------------------------------------------------------------------

WebStep(t) ==
  \/ FlockRead(t)
  \/ Refresh(t)
  \/ SaveRegistry(t)
  \/ CreateAndStart(t)
  \/ DispatchQueue(t)
  \/ \E p \in Pids : WebDispatchOne(t, p)
  \/ DispatchQueueDone(t)
  \/ WebDispatchRaises(t)
  \/ \E j \in Jobs : CancelQueued(t, j) \/ CancelJob(t, j) \/ KillRunning(t, j)
  \/ RemoveFinished(t)

\* No daemon is installed.
WebAlone ==
  \/ \E t \in Threads : WebStep(t) /\ UNCHANGED daemonVars
  \/ \E p \in Pids : ProcessStep(p) /\ UNCHANGED <<daemonVars, webVars>>

WebNext ==
  \/ WebAlone
  \/ (DaemonStep \/ Crash) /\ UNCHANGED webVars

WebAloneSpec == WebInit /\ [][WebAlone]_allVars

WebSpec == WebInit /\ [][WebNext]_allVars

\* Every process ends, a request that was begun is finished, and the dashboard
\* keeps polling: the server serves requests in turn, so other requests do not
\* keep a thread from load_registry for ever.
WebFairSpec ==
  /\ WebAloneSpec
  /\ \A t \in Threads :
       /\ SF_allVars(FlockRead(t) /\ UNCHANGED daemonVars)
       /\ WF_allVars(/\ \/ Refresh(t)
                       \/ SaveRegistry(t)
                       \/ DispatchQueue(t)
                       \/ \E p \in Pids : WebDispatchOne(t, p)
                       \/ DispatchQueueDone(t)
                       \/ \E j \in Jobs : CancelJob(t, j)
                    /\ UNCHANGED daemonVars)
  /\ \A p \in Pids : WF_allVars(ProcessStep(p) /\ UNCHANGED <<daemonVars, webVars>>)

--------------------------------------------------------------------------------
(* Properties. *)

WebTypeOK ==
  /\ TypeOK
  /\ jobs \in Registry
  /\ tlock \in Threads \union {NoThread}
  /\ wpc \in [Threads -> WebPc]
  /\ wjobs \in [Threads -> Registry]

\* Every run the web server started and that still runs is in its dictionary, so
\* the dashboard shows it and can kill it.
WebLiveIsKnown ==
  \A p \in Pids : Live(p) /\ proc[p].parent = "web" => jobs[proc[p].job] = RunningAs(p)

LiveWebRuns == {p \in Pids : Live(p) /\ proc[p].parent = "web"}

\* create_and_start and _dispatch_queue keep MAX_CONCURRENT_JOBS.
WebWithinLimit == MaxConcurrent > 0 => Cardinality(LiveWebRuns) <= MaxConcurrent

\* What load_registry records of a child it waited for is what the child returned.
WebVerdictIsTrue ==
  \A p \in Pids : LET st == file[proc[p].job].st IN
    proc[p].parent = "web" /\ proc[p].st = "gone" /\ st \in Terminal
      => (st \in {"success", "skipped"} <=> ExitCode(proc[p].exit) = "zero")

\* A finished entry is never reopened, nor given another verdict.
WebFinishedStays ==
  [][\A j \in Jobs : file[j].st \in Terminal => file'[j] \in {file[j], Absent}]_allVars

\* While the dashboard polls, a queued job is eventually run or cancelled.
WebQueuedIsServed ==
  \A j \in Jobs : (file[j].st = "queued") ~> (file[j].st \in Terminal)
================================================================================
