------------------------------ MODULE JobRegistry ------------------------------
(***************************************************************************)
(* The job registry of gniza: the file gniza-jobs.json that the daemon,    *)
(* the web dashboard, the TUI and lib/job_register.py all rewrite, the     *)
(* flock gniza-jobs.lock next to it, the CLI processes the entries stand   *)
(* for, and the log file of each job.                                      *)
(*                                                                         *)
(* A job id is a number: ids are issued in increasing order, so comparing  *)
(* two ids is comparing their "started_at" fields.  An entry keeps the two *)
(* fields the control depends on, "status" and "pid"; a queued entry has   *)
(* its "cli_args" and no other entry has, so the field is not modelled.    *)
(***************************************************************************)
EXTENDS Naturals, FiniteSets

CONSTANTS
  NumJobs,        \* bound: how many job ids are ever issued
  Pids,           \* bound: the process ids the kernel can hand out, never reused
  NoPid,          \* the value of an absent "pid" field
  MaxConcurrent   \* MAX_CONCURRENT_JOBS, 0 = unlimited

ASSUME RegistryAssumption ==
  /\ NumJobs \in Nat
  /\ MaxConcurrent \in Nat
  /\ IsFiniteSet(Pids)
  /\ NoPid \notin Pids

VARIABLES
  file,     \* the content of gniza-jobs.json, by job id
  locked,   \* whether the daemon holds gniza-jobs.lock
  proc,     \* the processes started for jobs, by pid
  joblog,   \* the markers detect_return_code would find in the log, by job id
  issued    \* how many job ids were handed out (uuid4 in the code)

registryVars == <<file, locked, proc, joblog, issued>>

Jobs == 1..NumJobs

Terminal == {"success", "failed", "skipped", "unknown"}

\* "absent" stands for a job the file has no entry of.
Status == {"absent", "queued", "running"} \union Terminal

Entry == [st : Status, pid : Pids \union {NoPid}]

Registry == [Jobs -> Entry]

EntryOf(st) == [st |-> st, pid |-> NoPid]

Absent == EntryOf("absent")

RunningAs(p) == [st |-> "running", pid |-> p]

Running(reg) == {j \in Jobs : reg[j].st = "running"}

Queued(reg) == {j \in Jobs : reg[j].st = "queued"}

\* Mutant of FirstQueued: the sort is reversed.
LastQueued(reg) == CHOOSE j \in Queued(reg) : \A i \in Queued(reg) : j >= i

FirstQueued(reg) == CHOOSE j \in Queued(reg) : \A i \in Queued(reg) : j <= i

\* Mutant of UnderLimit: off by one.
UpToLimit(reg) == MaxConcurrent > 0 => Cardinality(Running(reg)) <= MaxConcurrent

UnderLimit(reg) == MaxConcurrent > 0 => Cardinality(Running(reg)) < MaxConcurrent

--------------------------------------------------------------------------------
(* What a CLI run can come to, and what it leaves in the log: "partial" is  *)
(* backup_all_targets with one target done and one failed, "silent" a       *)
(* successful command other than backup.                                    *)

Outcome == {"ok", "skip", "silent", "partial", "error", "killed"}

Marker == {"completed", "error", "skipping"}

ExitCode(o) == IF o \in {"ok", "skip", "silent"} THEN "zero" ELSE "nonzero"

Marks(o) == CASE o = "ok"      -> {"completed"}
              [] o = "skip"    -> {"skipping"}
              [] o = "partial" -> {"completed", "error"}
              [] o = "error"   -> {"error"}
              [] OTHER         -> {}

DetectReturnCode(log) == CASE "completed" \in log -> "zero"
                           [] "completed" \notin log /\ "error" \in log -> "nonzero"
                           [] OTHER -> "none"

IsSkipped(log) == "skipping" \in log /\ "completed" \notin log

--------------------------------------------------------------------------------
(* Processes.  kill(pid, 0) finds a process until its parent has reaped it. *)

Owner == {"daemon", "web", "tui", "shell", "init", "none"}

Process == [st     : {"free", "live", "zombie", "gone"},
            job    : 0..NumJobs,
            parent : Owner,
            exit   : Outcome \union {"none"}]

NoProcess == [st |-> "free", job |-> 0, parent |-> "none", exit |-> "none"]

Live(p) == proc[p].st = "live"

Free(p) == proc[p].st = "free"

\* start_new_session Popen of "gniza --cli ..." for job j.
Started(p, j, owner) ==
  [proc EXCEPT ![p] = [st |-> "live", job |-> j, parent |-> owner, exit |-> "none"]]

\* A child of the daemon, the web server or the TUI stays a zombie until it is
\* waited for; init and the user's shell wait at once.
ExitState(p) == IF proc[p].parent \in {"init", "shell"} THEN "gone" ELSE "zombie"

Exited(p, o) == [proc EXCEPT ![p].st = ExitState(p), ![p].exit = o]

\* The CLI run behind p ends by itself.
ProcExit(p) ==
  /\ Live(p)
  /\ proc[p].parent # "shell"
  /\ \E o \in Outcome \ {"killed"} :
       /\ proc' = Exited(p, o)
       /\ joblog' = [joblog EXCEPT ![proc[p].job] = @ \union Marks(o)]
  /\ UNCHANGED <<file, locked, issued>>

\* The CLI run behind p is killed from outside (out of memory, an operator);
\* a run over several targets may already have logged one as completed.
ProcKilled(p) ==
  /\ Live(p)
  /\ proc' = Exited(p, "killed")
  /\ \E log \in {joblog[proc[p].job], joblog[proc[p].job] \union {"completed"}} :
       joblog' = [joblog EXCEPT ![proc[p].job] = log]
  /\ UNCHANGED <<file, locked, issued>>

--------------------------------------------------------------------------------
(* lib/job_register.py: a backup the user runs from a shell registers       *)
(* itself and reports its own end, each a read-modify-write under the lock. *)

\* Mutant of CmdStart: it does not wait for the lock.
CmdStartUnlocked(p) ==
  /\ issued < NumJobs
  /\ Free(p)
  /\ issued' = issued + 1
  /\ proc' = Started(p, issued + 1, "shell")
  /\ file' = [file EXCEPT ![issued + 1] = RunningAs(p)]
  /\ UNCHANGED <<locked, joblog>>

CmdStart(p) ==
  /\ ~locked
  /\ issued < NumJobs
  /\ Free(p)
  /\ issued' = issued + 1
  /\ proc' = Started(p, issued + 1, "shell")
  /\ file' = [file EXCEPT ![issued + 1] = RunningAs(p)]
  /\ UNCHANGED <<locked, joblog>>

\* Mutant of CmdFinish: it does not wait for the lock.
CmdFinishUnlocked(p) ==
  /\ Live(p)
  /\ proc[p].parent = "shell"
  /\ proc' = Exited(p, "ok")
  /\ file' = [file EXCEPT ![proc[p].job] = EntryOf("success")]
  /\ UNCHANGED <<locked, joblog, issued>>

\* The EXIT trap of bin/gniza; the process is gone right after.
CmdFinish(p) ==
  LET j == proc[p].job IN
  /\ ~locked
  /\ Live(p)
  /\ proc[p].parent = "shell"
  /\ \E o \in Outcome \ {"killed"} :
       /\ proc' = Exited(p, o)
       /\ joblog' = [joblog EXCEPT ![j] = @ \union Marks(o)]
       /\ file' = IF file[j].st = "absent" THEN file
                  ELSE [file EXCEPT ![j] = EntryOf(IF ExitCode(o) = "zero"
                                                   THEN "success" ELSE "failed")]
  /\ UNCHANGED <<locked, issued>>

RegistryTypeOK ==
  /\ file \in Registry
  /\ locked \in BOOLEAN
  /\ proc \in [Pids -> Process]
  /\ joblog \in [Jobs -> SUBSET Marker]
  /\ issued \in 0..NumJobs
================================================================================
