--------------------------- MODULE DaemonJobs_proofs ---------------------------
(***************************************************************************)
(* What holds of the daemon's job registry for every number of jobs, every *)
(* set of process ids and every MAX_CONCURRENT_JOBS.                       *)
(*                                                                         *)
(* The theorems up to FinishedStaysThm, and QueueOrderThm, hold under all  *)
(* the modelled faults: crashes, failed saves and failed starts.           *)
(* LiveIsTracked, OneRunAtATime and WithinLimit need NoRunIsLost: a save   *)
(* or a start that fails, or a crash the runs survive, leaves a run nobody *)
(* counts.  StartedOnce, VerdictIsTrue and ImplementsQueue need NoFaults:  *)
(* after any of them a started job may be queued again.                    *)
(***************************************************************************)
EXTENDS DaemonJobs, FiniteSetTheorems, TLAPS

--------------------------------------------------------------------------------
(* Facts about the operators. *)

\* Every non-empty set of naturals has a least element.  The prefixes 1..n are
\* well-founded under strict inclusion, which spares an induction.
LEMMA LeastNatural ==
  ASSUME NEW S \in SUBSET Nat, S # {}
  PROVE  \E m \in S : \A n \in S : m <= n
<1> DEFINE T == {1..n : n \in S}
           R == StrictSubsetOrdering(Nat)
<1>1. T \subseteq FiniteSubsetsOf(Nat)
  <2> SUFFICES ASSUME NEW n \in S PROVE 1..n \in FiniteSubsetsOf(Nat)
    OBVIOUS
  <2>1. n \in Nat /\ IsFiniteSet(1..n)
    BY FS_Interval
  <2> QED BY <2>1 DEF FiniteSubsetsOf
<1>2. IsWellFoundedOn(R, FiniteSubsetsOf(Nat))
  BY FS_StrictSubsetOrderingWellFounded
<1>3. T # {}
  OBVIOUS
<1>4. PICK x \in T : \A y \in T : <<y, x>> \notin R
  <2> HIDE DEF T, R
  <2> QED BY <1>1, <1>2, <1>3, WFMin
<1>5. PICK m \in S : x = 1..m
  OBVIOUS
<1>6. ASSUME NEW n \in S, n < m PROVE FALSE
  <2>1. 1..n \subseteq 1..m /\ m \in 1..m /\ m \notin 1..n
    BY <1>6
  <2>2. <<1..n, 1..m>> \in R
    BY <2>1 DEF StrictSubsetOrdering
  <2>3. 1..n \in T
    OBVIOUS
  <2> QED BY <1>4, <1>5, <2>2, <2>3
<1>7. \A n \in S : m <= n
  BY <1>6
<1> QED BY <1>7

\* dispatch_queue's sort by started_at: the job it takes is queued, and the
\* oldest of the queued ones.
LEMMA FirstQueuedIsOldest ==
  ASSUME NEW reg, Queued(reg) # {}
  PROVE  /\ FirstQueued(reg) \in Queued(reg)
         /\ \A i \in Queued(reg) : FirstQueued(reg) <= i
<1>1. Queued(reg) \in SUBSET Nat
  BY RegistryAssumption DEF Queued, Jobs
<1>2. \E j \in Queued(reg) : \A i \in Queued(reg) : j <= i
  BY <1>1, LeastNatural
<1> QED BY <1>2 DEF FirstQueued

\* What check_jobs and job_register.py record of an ended run is a final status.
LEMMA VerdictIsTerminal ==
  \A j : Verdict(j) \in Terminal
BY DEF Verdict, Terminal

LEMMA MarksType ==
  \A o : Marks(o) \in SUBSET Marker
BY DEF Marks, Marker

\* The fields of the entries the operations write.
LEMMA EntryTypes ==
  /\ \A st \in Status : EntryOf(st) \in Entry
  /\ \A p \in Pids : RunningAs(p) \in Entry
  /\ Absent \in Entry
  /\ NoEntries \in Registry
BY DEF EntryOf, RunningAs, Absent, NoEntries, Entry, Registry, Status, Terminal

\* A process started for a job that exists, or one that ended, is a process.
LEMMA StartedType ==
  ASSUME proc \in [Pids -> Process], NEW p \in Pids, NEW j \in Jobs,
         NEW owner \in Owner
  PROVE  Started(p, j, owner) \in [Pids -> Process]
BY RegistryAssumption DEF Started, Process, Jobs, Owner

LEMMA ExitedType ==
  ASSUME proc \in [Pids -> Process], NEW p \in Pids, NEW o \in Outcome
  PROVE  Exited(p, o) \in [Pids -> Process]
BY DEF Exited, ExitState, Process

--------------------------------------------------------------------------------
(* Type correctness. *)

LEMMA TypeInit == Init => TypeOK
<1> SUFFICES ASSUME Init PROVE TypeOK
  OBVIOUS
<1>1. file \in Registry
  BY EntryTypes DEF Init, Registry, Status
<1>2. proc \in [Pids -> Process]
  BY RegistryAssumption DEF Init, NoProcess, Process, Owner
<1>3. joblog \in [Jobs -> SUBSET Marker]
  BY DEF Init
<1>4. entries \in Registry /\ crashes \in 0..MaxCrashes
  BY EntryTypes, DaemonAssumption DEF Init
<1> QED BY <1>1, <1>2, <1>3, <1>4 DEF Init, TypeOK, RegistryTypeOK

LEMMA TypeStep == TypeOK /\ [Next]_vars => TypeOK'
<1> SUFFICES ASSUME TypeOK, [Next]_vars PROVE TypeOK'
  OBVIOUS
<1> USE DEF TypeOK, RegistryTypeOK
<1>1. CASE LockAndLoad
  BY <1>1 DEF LockAndLoad
<1>2. CASE CheckJobs
  <2>1. [j \in Jobs |-> IF j \in DeadJobs THEN EntryOf(Verdict(j)) ELSE entries[j]] \in Registry
    BY EntryTypes, VerdictIsTerminal DEF Registry, Status
  <2>2. [p \in Pids |-> IF Reapable(p) /\ \E j \in DeadJobs : entries[j].pid = p
                        THEN [proc[p] EXCEPT !.st = "gone"] ELSE proc[p]] \in [Pids -> Process]
    BY DEF Process
  <2> QED BY <1>2, <2>1, <2>2, EntryTypes DEF CheckJobs, SaveAndUnlock
<1>3. ASSUME NEW p \in Pids, DispatchOne(p) PROVE TypeOK'
  <2>1. FirstQueued(entries) \in Jobs
    BY <1>3, FirstQueuedIsOldest DEF DispatchOne, CanDispatch, Queued
  <2>2. proc' \in [Pids -> Process]
    BY <1>3, <2>1, StartedType DEF DispatchOne, Owner
  <2>3. entries' \in Registry
    BY <1>3, EntryTypes DEF DispatchOne, Registry
  <2> QED BY <1>3, <2>2, <2>3 DEF DispatchOne
<1>4. CASE DispatchRaises
  BY <1>4, EntryTypes DEF DispatchRaises
<1>5. CASE DispatchDone
  BY <1>5, EntryTypes DEF DispatchDone, SaveAndUnlock
<1>6. CASE CleanupOldEntries
  <2>1. PICK old \in SUBSET {j \in Jobs : entries[j].st \in Terminal} :
          /\ SaveAndUnlock([j \in Jobs |-> IF j \in old THEN Absent ELSE entries[j]])
          /\ joblog' = [j \in Jobs |-> IF j \in old THEN {} ELSE joblog[j]]
    BY <1>6 DEF CleanupOldEntries
  <2>2. [j \in Jobs |-> IF j \in old THEN Absent ELSE entries[j]] \in Registry
    BY EntryTypes DEF Registry
  <2> QED BY <1>6, <2>1, <2>2, EntryTypes DEF CleanupOldEntries, SaveAndUnlock
<1>7. CASE Crash
  <2>1. proc' \in [Pids -> Process]
    <3> SUFFICES ASSUME NEW p \in Pids PROVE Orphaned(p) \in Process
      BY <1>7 DEF Crash
    <3> QED BY DEF Orphaned, Process, Owner, Outcome
  <2>2. joblog' \in [Jobs -> SUBSET Marker]
    BY <1>7 DEF Crash, Marker
  <2>3. crashes' \in 0..MaxCrashes
    BY <1>7, DaemonAssumption DEF Crash
  <2> QED BY <1>7, <2>1, <2>2, <2>3, EntryTypes DEF Crash
<1>8. CASE Restart
  BY <1>8 DEF Restart, registryVars
<1>9. ASSUME NEW p \in Pids, ProcExit(p) PROVE RegistryTypeOK'
  BY <1>9, ExitedType, MarksType DEF ProcExit
<1>10. ASSUME NEW p \in Pids, ProcKilled(p) PROVE RegistryTypeOK'
  BY <1>10, ExitedType DEF ProcKilled, Outcome, Marker
<1>11. ASSUME NEW p \in Pids, CmdStart(p) PROVE RegistryTypeOK'
  <2>1. issued + 1 \in Jobs /\ issued' \in 0..NumJobs
    BY <1>11, RegistryAssumption DEF CmdStart, Jobs
  <2>2. proc' \in [Pids -> Process]
    BY <1>11, <2>1, StartedType DEF CmdStart, Owner
  <2>3. file' \in Registry
    BY <1>11, EntryTypes DEF CmdStart, Registry
  <2> QED BY <1>11, <2>1, <2>2, <2>3 DEF CmdStart
<1>12. ASSUME NEW p \in Pids, CmdFinish(p) PROVE RegistryTypeOK'
  <2> DEFINE j == proc[p].job
  <2>1. PICK o \in Outcome \ {"killed"} :
          /\ proc' = Exited(p, o)
          /\ joblog' = [joblog EXCEPT ![j] = @ \union Marks(o)]
          /\ file' = IF file[j].st = "absent" THEN file
                     ELSE [file EXCEPT ![j] = EntryOf(IF ExitCode(o) = "zero"
                                                      THEN "success" ELSE "failed")]
    BY <1>12 DEF CmdFinish
  <2>2. EntryOf("success") \in Entry /\ EntryOf("failed") \in Entry
    BY EntryTypes DEF Status, Terminal
  <2>3. file' \in Registry
    BY <2>1, <2>2 DEF Registry
  <2>4. proc' \in [Pids -> Process]
    BY <2>1, ExitedType
  <2>5. joblog' \in [Jobs -> SUBSET Marker]
    BY <2>1, MarksType
  <2> QED BY <1>12, <2>3, <2>4, <2>5 DEF CmdFinish
<1>13. CASE UNCHANGED vars
  BY <1>13 DEF vars, registryVars, daemonVars
<1> QED
  BY <1>1, <1>2, <1>3, <1>4, <1>5, <1>6, <1>7, <1>8, <1>9, <1>10, <1>11, <1>12, <1>13
  DEF Next, DaemonStep, ProcessStep, ShellStep, daemonVars

\* The registry, the processes and the daemon keep their types.
THEOREM TypeCorrect == Spec => []TypeOK
BY TypeInit, TypeStep, PTL DEF Spec

--------------------------------------------------------------------------------
(* The inductive invariant of the registry, under every fault. *)

\* The file has no entry of a job id that was not handed out.
UnissuedAbsent == \A j \in Jobs : j > issued => file[j] = Absent

\* A free pid belongs to no job, the job of a live process was handed out.
ProcessHasJob ==
  \A p \in Pids :
    /\ Free(p) => proc[p].job = 0
    /\ Live(p) => proc[p].job \in Jobs /\ proc[p].job <= issued

\* The running entries of reg name a process of their own job.
PidsMatch(reg) ==
  \A j \in Running(reg) : reg[j].pid \in Pids /\ proc[reg[j].pid].job = j

\* A backup run from a shell has its entry until it reports its own end.
ShellIsTracked ==
  \A p \in Pids : Live(p) /\ proc[p].parent = "shell" => file[proc[p].job] = RunningAs(p)

IInv ==
  /\ TypeOK
  /\ LoadedIsCurrent
  /\ UnissuedAbsent
  /\ ProcessHasJob
  /\ PidsMatch(file)
  /\ PidsMatch(entries)
  /\ ShellIsTracked

NoRunIsLost == Faults \subseteq {"crash"} /\ ("crash" \in Faults => CgroupKill)

\* Every live run is a child of the daemon or of a shell.
LiveHasParent == \A p \in Pids : Live(p) => proc[p].parent \in {"daemon", "shell"}

TrackInv ==
  /\ LiveIsTracked
  /\ LiveHasParent
  /\ WithinLimit

LEMMA NoEntriesRunning == Running(NoEntries) = {}
BY DEF Running, NoEntries, Absent, EntryOf

\* What a step has to keep of the processes: which job each is for, who started
\* it, and that none becomes free or live.
ProcessesPersist ==
  \A p \in Pids :
    /\ proc'[p].job = proc[p].job
    /\ proc'[p].st = "free" => proc[p].st = "free"
    /\ proc'[p].st = "live" => proc[p].st = "live"

LEMMA PersistStep ==
  ASSUME TypeOK, ProcessesPersist, issued' = issued, ProcessHasJob
  PROVE  /\ ProcessHasJob'
         /\ \A reg : PidsMatch(reg) =>
              \A j \in Running(reg) : reg[j].pid \in Pids /\ proc'[reg[j].pid].job = j
<1>1. ProcessHasJob'
  BY DEF ProcessesPersist, ProcessHasJob, Free, Live
<1>2. ASSUME NEW reg, PidsMatch(reg), NEW j \in Running(reg)
      PROVE  reg[j].pid \in Pids /\ proc'[reg[j].pid].job = j
  BY <1>2 DEF ProcessesPersist, PidsMatch
<1> QED BY <1>1, <1>2

LEMMA ExitPersists ==
  ASSUME TypeOK, NEW p \in Pids, Live(p), NEW o \in Outcome, proc' = Exited(p, o)
  PROVE  /\ ProcessesPersist
         /\ \A q \in Pids : proc'[q].st = "live" => proc'[q] = proc[q] /\ q # p
<1>1. ExitState(p) \in {"gone", "zombie"}
  BY DEF ExitState
<1> QED BY <1>1 DEF ProcessesPersist, Exited, TypeOK, RegistryTypeOK, Process, Live

\* A save drops no running entry of a live process and invents none.
LEMMA SaveStep ==
  ASSUME IInv, NEW new \in Registry, SaveAndUnlock(new),
         ProcessesPersist, issued' = issued,
         \A p \in Pids : proc'[p].st = "live" => proc'[p] = proc[p],
         \A j \in Jobs : file[j] = Absent => new[j] = Absent,
         \A j \in Running(new) : new[j] = entries[j],
         \A p \in Pids : Live(p) /\ file[proc[p].job] = RunningAs(p)
                         => new[proc[p].job] = RunningAs(p)
  PROVE  /\ LoadedIsCurrent'
         /\ UnissuedAbsent'
         /\ ProcessHasJob'
         /\ PidsMatch(file)'
         /\ PidsMatch(entries)'
         /\ ShellIsTracked'
<1>1. file' \in {new, file} /\ locked' = FALSE /\ entries' = NoEntries
  BY DEF SaveAndUnlock
<1>2. LoadedIsCurrent'
  BY <1>1 DEF LoadedIsCurrent
<1>3. UnissuedAbsent'
  BY <1>1 DEF UnissuedAbsent, IInv
<1>4. ProcessHasJob'
  BY PersistStep DEF IInv
<1>5. PidsMatch(file)'
  <2>1. \A j \in Running(file) : file[j].pid \in Pids /\ proc'[file[j].pid].job = j
    BY PersistStep DEF IInv
  <2>2. \A j \in Running(entries) : entries[j].pid \in Pids /\ proc'[entries[j].pid].job = j
    BY PersistStep DEF IInv
  <2>3. \A j \in Running(new) : new[j].pid \in Pids /\ proc'[new[j].pid].job = j
    BY <2>2 DEF Running
  <2> QED BY <1>1, <2>1, <2>3 DEF PidsMatch, Running
<1>6. PidsMatch(entries)'
  BY <1>1, NoEntriesRunning DEF PidsMatch, Running
<1>7. ShellIsTracked'
  <2> SUFFICES ASSUME NEW p \in Pids, Live(p)', proc'[p].parent = "shell"
               PROVE  file'[proc'[p].job] = RunningAs(p)
    BY DEF ShellIsTracked, RunningAs
  <2>1. proc'[p] = proc[p] /\ Live(p)
    BY DEF Live
  <2> QED BY <1>1, <2>1 DEF IInv, ShellIsTracked
<1> QED BY <1>2, <1>3, <1>4, <1>5, <1>6, <1>7

LEMMA InvInit == Init => IInv
<1> SUFFICES ASSUME Init PROVE IInv
  OBVIOUS
<1>1. Running(file) = {} /\ Running(entries) = {}
  BY NoEntriesRunning DEF Init, Running, EntryOf
<1>2. UnissuedAbsent
  BY DEF Init, UnissuedAbsent, Absent, Jobs
<1>3. ProcessHasJob /\ ShellIsTracked
  BY DEF Init, ProcessHasJob, ShellIsTracked, NoProcess, Free, Live
<1>4. PidsMatch(file) /\ PidsMatch(entries)
  BY <1>1 DEF PidsMatch
<1>5. LoadedIsCurrent
  BY DEF Init, LoadedIsCurrent
<1> QED
  BY <1>2, <1>3, <1>4, <1>5, TypeInit DEF IInv

\* _locked_update: what it loads is the file.
LEMMA LockAndLoadInv == IInv /\ LockAndLoad => IInv'
<1> SUFFICES ASSUME IInv, LockAndLoad PROVE IInv'
  OBVIOUS
<1>1. TypeOK'
  BY TypeStep DEF IInv, Next, DaemonStep
<1> QED
  BY <1>1
  DEF IInv, LockAndLoad, LoadedIsCurrent, UnissuedAbsent, ProcessHasJob, PidsMatch,
      Running, ShellIsTracked, RunningAs, Free, Live

\* check_jobs: only entries whose process has ended change.
LEMMA CheckJobsInv == IInv /\ CheckJobs => IInv'
<1> SUFFICES ASSUME IInv, CheckJobs PROVE IInv'
  OBVIOUS
<1> DEFINE new == [j \in Jobs |-> IF j \in DeadJobs THEN EntryOf(Verdict(j)) ELSE entries[j]]
<1>1. TypeOK'
  BY TypeStep DEF IInv, Next, DaemonStep
<1>2. new \in Registry
  BY EntryTypes, VerdictIsTerminal DEF IInv, TypeOK, Registry, Status
<1>3. SaveAndUnlock(new) /\ issued' = issued
  BY DEF CheckJobs
<1>4. /\ ProcessesPersist
      /\ \A p \in Pids : proc'[p].st = "live" => proc'[p] = proc[p]
  BY DEF CheckJobs, ProcessesPersist, IInv, TypeOK, RegistryTypeOK, Process
<1>5. \A j \in Jobs : entries[j] = file[j]
  BY DEF CheckJobs, IInv, LoadedIsCurrent
<1>6. \A j \in Jobs : file[j] = Absent => new[j] = Absent
  BY <1>5 DEF DeadJobs, Running, Absent, EntryOf
<1>7. \A j \in Running(new) : new[j] = entries[j]
  <2>1. \A j \in Jobs : EntryOf(Verdict(j)).st # "running"
    BY VerdictIsTerminal DEF EntryOf, Terminal
  <2> QED BY <2>1 DEF Running
<1>8. ASSUME NEW p \in Pids, Live(p), file[proc[p].job] = RunningAs(p)
      PROVE  new[proc[p].job] = RunningAs(p)
  <2>1. proc[p].job \in Jobs /\ entries[proc[p].job] = RunningAs(p)
    BY <1>5, <1>8 DEF IInv, ProcessHasJob
  <2>2. proc[p].job \notin DeadJobs
    BY <1>8, <2>1 DEF DeadJobs, RunningAs, SeenDead, Reapable, Live
  <2> QED BY <2>1, <2>2
<1> HIDE DEF new
<1> QED
  BY <1>1, <1>2, <1>3, <1>4, <1>6, <1>7, <1>8, SaveStep DEF IInv

\* One job of dispatch_queue: its entry in the file is still queued.
LEMMA DispatchOneInv == ASSUME IInv, NEW p \in Pids, DispatchOne(p) PROVE IInv'
<1> DEFINE j == FirstQueued(entries)
<1>1. TypeOK'
  BY TypeStep DEF IInv, Next, DaemonStep
<1>2. j \in Jobs /\ entries[j].st = "queued"
  BY FirstQueuedIsOldest DEF DispatchOne, CanDispatch, Queued
<1>3. file[j] = entries[j] /\ j <= issued
  BY <1>2
  DEF DispatchOne, IInv, LoadedIsCurrent, UnissuedAbsent, Absent, EntryOf, TypeOK,
      RegistryTypeOK, Jobs
<1>4. /\ proc[p].st = "free" /\ proc[p].job = 0
      /\ proc' = [proc EXCEPT ![p] =
                   [st |-> "live", job |-> j, parent |-> "daemon", exit |-> "none"]]
      /\ entries' = [entries EXCEPT ![j] = RunningAs(p)]
      /\ UNCHANGED <<file, locked, issued, dpc>>
  BY DEF DispatchOne, Started, Free, IInv, ProcessHasJob
<1> USE DEF IInv, TypeOK, RegistryTypeOK, Registry
<1> HIDE DEF j
<1>5. LoadedIsCurrent'
  BY <1>2, <1>3, <1>4 DEF LoadedIsCurrent, RunningAs, DispatchOne
<1>6. UnissuedAbsent'
  BY <1>4 DEF UnissuedAbsent
<1>7. ProcessHasJob'
  BY <1>2, <1>3, <1>4 DEF ProcessHasJob, Free, Live
<1>8. PidsMatch(file)'
  BY <1>4 DEF PidsMatch, Running, Jobs
<1>9. PidsMatch(entries)'
  BY <1>2, <1>4 DEF PidsMatch, Running, RunningAs, Jobs
<1>10. ShellIsTracked'
  BY <1>4 DEF ShellIsTracked, RunningAs, Live
<1> QED BY <1>1, <1>5, <1>6, <1>7, <1>8, <1>9, <1>10

\* An update that is abandoned, by an exception or a crash, leaves the file alone.
LEMMA AbandonInv ==
  ASSUME IInv, TypeOK', file' = file, issued' = issued, locked' = FALSE,
         entries' = NoEntries, ProcessesPersist,
         \A p \in Pids : proc'[p].st = "live" /\ proc'[p].parent = "shell"
                         => proc[p].parent = "shell"
  PROVE  IInv'
<1>1. LoadedIsCurrent'
  BY DEF LoadedIsCurrent
<1>2. UnissuedAbsent'
  BY DEF IInv, UnissuedAbsent
<1>3. /\ ProcessHasJob'
      /\ \A j \in Running(file) : file[j].pid \in Pids /\ proc'[file[j].pid].job = j
  BY PersistStep DEF IInv
<1>4. PidsMatch(file)' /\ PidsMatch(entries)'
  BY <1>3, NoEntriesRunning DEF PidsMatch, Running
<1>5. ShellIsTracked'
  BY DEF IInv, ShellIsTracked, ProcessesPersist, Live, RunningAs
<1> QED BY <1>1, <1>2, <1>3, <1>4, <1>5 DEF IInv

LEMMA DispatchRaisesInv == IInv /\ DispatchRaises => IInv'
<1> SUFFICES ASSUME IInv, DispatchRaises PROVE IInv'
  OBVIOUS
<1>1. TypeOK'
  BY TypeStep DEF IInv, Next, DaemonStep
<1> QED BY <1>1, AbandonInv DEF DispatchRaises, ProcessesPersist

\* A crash kills or orphans the daemon's children; none becomes a shell's.
LEMMA CrashInv == IInv /\ Crash => IInv'
<1> SUFFICES ASSUME IInv, Crash PROVE IInv'
  OBVIOUS
<1>1. TypeOK'
  BY TypeStep DEF IInv, Next
<1>2. \A p \in Pids : proc'[p] = Orphaned(p) /\ proc[p] \in Process
  BY DEF Crash, IInv, TypeOK, RegistryTypeOK
<1>3. ASSUME NEW p \in Pids
      PROVE  /\ proc'[p].job = proc[p].job
             /\ proc'[p].st = "free" => proc[p].st = "free"
             /\ proc'[p].st = "live" => proc[p].st = "live"
             /\ proc'[p].st = "live" /\ proc'[p].parent = "shell"
                  => proc[p].parent = "shell"
  <2>1. proc'[p] = Orphaned(p) /\ proc[p] \in Process
    BY <1>2
  <2> QED BY <2>1 DEF Orphaned, Process
<1> QED BY <1>1, <1>3, AbandonInv DEF Crash, ProcessesPersist

\* The end of dispatch_queue: the save adds the runs that were started.
LEMMA DispatchDoneInv == IInv /\ DispatchDone => IInv'
<1> SUFFICES ASSUME IInv, DispatchDone PROVE IInv'
  OBVIOUS
<1>1. TypeOK'
  BY TypeStep DEF IInv, Next, DaemonStep
<1>2. /\ entries \in Registry
      /\ SaveAndUnlock(entries)
      /\ issued' = issued /\ proc' = proc /\ ProcessesPersist
  BY DEF DispatchDone, IInv, TypeOK, ProcessesPersist
<1>3. \A j \in Jobs : file[j].st # "queued" => entries[j] = file[j]
  BY DEF DispatchDone, IInv, LoadedIsCurrent
<1>4. \A j \in Jobs : file[j] = Absent => entries[j] = Absent
  BY <1>3 DEF Absent, EntryOf
<1>5. ASSUME NEW p \in Pids, Live(p), file[proc[p].job] = RunningAs(p)
      PROVE  entries[proc[p].job] = RunningAs(p)
  BY <1>3, <1>5 DEF IInv, ProcessHasJob, RunningAs
<1> QED BY <1>1, <1>2, <1>4, <1>5, SaveStep DEF IInv

\* cleanup_old_entries: only finished entries go.
LEMMA CleanupInv == IInv /\ CleanupOldEntries => IInv'
<1> SUFFICES ASSUME IInv, CleanupOldEntries PROVE IInv'
  OBVIOUS
<1>1. TypeOK'
  BY TypeStep DEF IInv, Next, DaemonStep
<1>2. PICK old \in SUBSET {j \in Jobs : entries[j].st \in Terminal} :
        SaveAndUnlock([j \in Jobs |-> IF j \in old THEN Absent ELSE entries[j]])
  BY DEF CleanupOldEntries
<1> DEFINE new == [j \in Jobs |-> IF j \in old THEN Absent ELSE entries[j]]
<1>3. new \in Registry
  BY EntryTypes DEF IInv, TypeOK, Registry
<1>4. issued' = issued /\ proc' = proc /\ ProcessesPersist
  BY DEF CleanupOldEntries, ProcessesPersist
<1>5. \A j \in Jobs : entries[j] = file[j]
  BY DEF CleanupOldEntries, IInv, LoadedIsCurrent
<1>6. \A j \in Jobs : file[j] = Absent => new[j] = Absent
  BY <1>5
<1>7. \A j \in Running(new) : new[j] = entries[j]
  BY DEF Running, Absent, EntryOf
<1>8. ASSUME NEW p \in Pids, Live(p), file[proc[p].job] = RunningAs(p)
      PROVE  new[proc[p].job] = RunningAs(p)
  BY <1>5, <1>8 DEF IInv, ProcessHasJob, RunningAs, Terminal
<1> HIDE DEF new
<1> QED BY <1>1, <1>2, <1>3, <1>4, <1>6, <1>7, <1>8, SaveStep DEF IInv, new

\* A run that ends, by itself or killed, changes no entry.
LEMMA ExitInv ==
  ASSUME IInv, TypeOK', NEW p \in Pids, Live(p), NEW o \in Outcome,
         proc' = Exited(p, o), UNCHANGED <<file, locked, issued, dpc, entries>>
  PROVE  IInv'
<1>1. /\ ProcessesPersist
      /\ \A q \in Pids : proc'[q].st = "live" => proc'[q] = proc[q]
  BY ExitPersists DEF IInv
<1>2. LoadedIsCurrent' /\ UnissuedAbsent'
  BY DEF IInv, LoadedIsCurrent, UnissuedAbsent
<1>3. /\ ProcessHasJob'
      /\ \A j \in Running(file) : file[j].pid \in Pids /\ proc'[file[j].pid].job = j
      /\ \A j \in Running(entries) : entries[j].pid \in Pids /\ proc'[entries[j].pid].job = j
  BY <1>1, PersistStep DEF IInv
<1>4. PidsMatch(file)' /\ PidsMatch(entries)'
  BY <1>3 DEF PidsMatch, Running
<1>5. ShellIsTracked'
  BY <1>1 DEF IInv, ShellIsTracked, Live, RunningAs
<1> QED BY <1>2, <1>3, <1>4, <1>5 DEF IInv

\* job_register.py start: a new id, whose entry the file does not have.
LEMMA CmdStartInv ==
  ASSUME IInv, NEW p \in Pids, CmdStart(p), UNCHANGED daemonVars
  PROVE  IInv'
<1> DEFINE j == issued + 1
<1>1. TypeOK'
  BY TypeStep DEF IInv, Next, ShellStep
<1>2. j \in Jobs /\ j > issued
  BY RegistryAssumption DEF CmdStart, IInv, TypeOK, RegistryTypeOK, Jobs
<1>3. /\ ~locked /\ issued' = j
      /\ proc[p].st = "free" /\ proc[p].job = 0
      /\ proc' = [proc EXCEPT ![p] =
                   [st |-> "live", job |-> j, parent |-> "shell", exit |-> "none"]]
      /\ file' = [file EXCEPT ![j] = RunningAs(p)]
      /\ UNCHANGED <<locked, dpc, entries>>
  BY DEF CmdStart, Started, Free, IInv, ProcessHasJob, daemonVars
<1> USE DEF IInv, TypeOK, RegistryTypeOK, Registry
<1>4. LoadedIsCurrent'
  BY <1>3 DEF LoadedIsCurrent
<1>5. UnissuedAbsent'
  BY <1>2, <1>3 DEF UnissuedAbsent, Jobs
<1> HIDE DEF j
<1>6. ProcessHasJob'
  <2> SUFFICES ASSUME NEW q \in Pids
               PROVE  /\ proc'[q].st = "free" => proc'[q].job = 0
                      /\ proc'[q].st = "live" => proc'[q].job \in Jobs /\ proc'[q].job <= issued'
    BY DEF ProcessHasJob, Free, Live
  <2>1. CASE q = p
    BY <1>2, <1>3, <2>1 DEF Jobs
  <2>2. CASE q # p
    BY <1>2, <1>3, <2>2 DEF ProcessHasJob, Free, Live, Jobs
  <2> QED BY <2>1, <2>2
<1>7. PidsMatch(file)'
  BY <1>2, <1>3 DEF PidsMatch, Running, RunningAs, Jobs
<1>8. PidsMatch(entries)'
  BY <1>3 DEF PidsMatch, Running, Jobs
<1>9. ShellIsTracked'
  <2> SUFFICES ASSUME NEW q \in Pids, proc'[q].st = "live", proc'[q].parent = "shell"
               PROVE  file'[proc'[q].job] = RunningAs(q)
    BY DEF ShellIsTracked, Live, RunningAs
  <2>1. CASE q = p
    BY <1>2, <1>3, <2>1
  <2>2. CASE q # p
    BY <1>2, <1>3, <2>2 DEF ShellIsTracked, ProcessHasJob, Live, Jobs
  <2> QED BY <2>1, <2>2
<1> QED BY <1>1, <1>4, <1>5, <1>6, <1>7, <1>8, <1>9

\* job_register.py finish: the entry is still there, and still this run's.
LEMMA CmdFinishInv ==
  ASSUME IInv, NEW p \in Pids, CmdFinish(p), UNCHANGED daemonVars
  PROVE  IInv'
<1> DEFINE j == proc[p].job
<1>1. TypeOK'
  BY TypeStep DEF IInv, Next, ShellStep
<1>2. j \in Jobs /\ j <= issued /\ file[j] = RunningAs(p) /\ Live(p)
  BY DEF CmdFinish, IInv, ProcessHasJob, ShellIsTracked
<1>3. PICK o \in Outcome, st \in {"success", "failed"} :
        proc' = Exited(p, o) /\ file' = [file EXCEPT ![j] = EntryOf(st)]
  <2>1. file[j].st # "absent"
    BY <1>2 DEF RunningAs
  <2>2. PICK o \in Outcome :
          /\ proc' = Exited(p, o)
          /\ file' = [file EXCEPT ![j] = EntryOf(IF ExitCode(o) = "zero"
                                                 THEN "success" ELSE "failed")]
    BY <2>1 DEF CmdFinish
  <2> QED BY <2>2
<1>4. ~locked /\ UNCHANGED <<locked, issued, dpc, entries>>
  BY DEF CmdFinish, daemonVars
<1> HIDE DEF j
<1>5. /\ ProcessesPersist
      /\ \A q \in Pids : proc'[q].st = "live" => proc'[q] = proc[q] /\ q # p
  BY <1>2, <1>3, ExitPersists DEF IInv
<1>6. /\ ProcessHasJob'
      /\ \A i \in Running(file) : file[i].pid \in Pids /\ proc'[file[i].pid].job = i
      /\ \A i \in Running(entries) : entries[i].pid \in Pids /\ proc'[entries[i].pid].job = i
  BY <1>4, <1>5, PersistStep DEF IInv
<1> USE DEF IInv, TypeOK, RegistryTypeOK, Registry
<1>7. LoadedIsCurrent'
  BY <1>4 DEF LoadedIsCurrent
<1>8. UnissuedAbsent'
  BY <1>2, <1>3, <1>4 DEF UnissuedAbsent, Jobs
<1>9. PidsMatch(file)'
  BY <1>3, <1>6 DEF PidsMatch, Running, EntryOf
<1>10. PidsMatch(entries)'
  BY <1>4, <1>6 DEF PidsMatch, Running
<1>11. ShellIsTracked'
  <2> SUFFICES ASSUME NEW q \in Pids, proc'[q].st = "live", proc'[q].parent = "shell"
               PROVE  file'[proc'[q].job] = RunningAs(q)
    BY DEF ShellIsTracked, Live, RunningAs
  <2>1. file[proc[q].job] = RunningAs(q) /\ q # p /\ proc'[q] = proc[q]
    BY <1>5 DEF ShellIsTracked, ProcessesPersist, Live
  <2>2. proc[q].job # j
    BY <1>2, <2>1 DEF RunningAs
  <2> QED BY <1>3, <2>1, <2>2
<1> QED BY <1>1, <1>6, <1>7, <1>8, <1>9, <1>10, <1>11

LEMMA InvStep == IInv /\ [Next]_vars => IInv'
<1> SUFFICES ASSUME IInv, [Next]_vars PROVE IInv'
  OBVIOUS
<1>1. TypeOK'
  BY TypeStep DEF IInv
<1>2. CASE DaemonStep
  <2>1. CASE Restart
    BY <1>1, <2>1
    DEF Restart, registryVars, IInv, LoadedIsCurrent, UnissuedAbsent, ProcessHasJob,
        PidsMatch, Running, ShellIsTracked, RunningAs, Free, Live
  <2> QED
    BY <1>2, <2>1, LockAndLoadInv, CheckJobsInv, DispatchOneInv, DispatchRaisesInv,
       DispatchDoneInv, CleanupInv
    DEF DaemonStep
<1>3. CASE Crash
  BY <1>3, CrashInv
<1>4. ASSUME NEW p \in Pids, ProcessStep(p), UNCHANGED daemonVars PROVE IInv'
  <2>1. UNCHANGED <<file, locked, issued, dpc, entries>>
    BY <1>4 DEF ProcessStep, ProcExit, ProcKilled, daemonVars
  <2>2. Live(p) /\ \E o \in Outcome : proc' = Exited(p, o)
    BY <1>4 DEF ProcessStep, ProcExit, ProcKilled, Outcome
  <2> QED BY <1>1, <2>1, <2>2, ExitInv
<1>5. ASSUME NEW p \in Pids, ShellStep(p), UNCHANGED daemonVars PROVE IInv'
  BY <1>5, CmdStartInv, CmdFinishInv DEF ShellStep
<1>6. CASE UNCHANGED vars
  BY <1>1, <1>6
  DEF vars, registryVars, daemonVars, IInv, LoadedIsCurrent, UnissuedAbsent,
      ProcessHasJob, PidsMatch, Running, ShellIsTracked, RunningAs, Free, Live
<1> QED BY <1>2, <1>3, <1>4, <1>5, <1>6 DEF Next

THEOREM Invariance == Spec => []IInv
BY InvInit, InvStep, PTL DEF Spec

\* _locked_update never saves over another writer's update, whatever fails.
THEOREM LoadedIsCurrentThm == Spec => []LoadedIsCurrent
<1>1. IInv => LoadedIsCurrent
  BY DEF IInv
<1> QED BY <1>1, Invariance, PTL

\* The pid the file records for a running job is that of a process started for
\* this job, so check_jobs settles, and a kill hits, no other job.
THEOREM PidIsOfTheJobThm == Spec => []PidIsOfTheJob
<1>1. IInv => PidIsOfTheJob
  BY DEF IInv, PidsMatch, PidIsOfTheJob
<1> QED BY <1>1, Invariance, PTL

LEMMA FinishedStep ==
  ASSUME IInv, [Next]_vars, NEW j \in Jobs, file[j].st \in Terminal
  PROVE  file'[j] \in {file[j], Absent}
<1> USE DEF IInv, TypeOK, RegistryTypeOK, Registry
<1>1. locked => entries[j] = file[j]
  BY DEF LoadedIsCurrent, Terminal
<1>2. CASE CheckJobs
  BY <1>1, <1>2 DEF CheckJobs, SaveAndUnlock, DeadJobs, Running, Terminal
<1>3. CASE DispatchDone
  BY <1>1, <1>3 DEF DispatchDone, SaveAndUnlock
<1>4. CASE CleanupOldEntries
  <2>1. PICK old \in SUBSET {i \in Jobs : entries[i].st \in Terminal} :
          SaveAndUnlock([i \in Jobs |-> IF i \in old THEN Absent ELSE entries[i]])
    BY <1>4 DEF CleanupOldEntries
  <2> QED BY <1>1, <1>4, <2>1 DEF CleanupOldEntries, SaveAndUnlock
<1>5. ASSUME NEW p \in Pids, CmdStart(p) PROVE file'[j] = file[j]
  <2>1. j # issued + 1
    BY RegistryAssumption DEF UnissuedAbsent, Absent, EntryOf, Terminal, Jobs
  <2> QED BY <1>5, <2>1 DEF CmdStart
<1>6. ASSUME NEW p \in Pids, CmdFinish(p) PROVE file'[j] = file[j]
  <2>1. file[proc[p].job] = RunningAs(p)
    BY <1>6 DEF CmdFinish, ShellIsTracked
  <2>2. j # proc[p].job
    BY <2>1 DEF RunningAs, Terminal
  <2> QED BY <1>6, <2>2 DEF CmdFinish
<1>7. CASE \/ LockAndLoad \/ DispatchRaises \/ Crash \/ Restart
           \/ \E p \in Pids : DispatchOne(p) \/ ProcessStep(p)
           \/ UNCHANGED vars
  BY <1>7
  DEF LockAndLoad, DispatchRaises, Crash, Restart, DispatchOne, ProcessStep, ProcExit,
      ProcKilled, vars, registryVars
<1> QED
  BY <1>2, <1>3, <1>4, <1>5, <1>6, <1>7 DEF Next, DaemonStep, ShellStep

\* A finished entry is never reopened: no step of the daemon, of a run or of a
\* shell's backup changes it but the cleanup, which removes it.
THEOREM FinishedStaysThm == Spec => FinishedStays
<1>1. IInv /\ [Next]_vars
        => [\A j \in Jobs : file[j].st \in Terminal => file'[j] \in {file[j], Absent}]_vars
  BY FinishedStep
<1> QED BY <1>1, Invariance, PTL DEF Spec, FinishedStays

--------------------------------------------------------------------------------
(* Where no run is lost: every live run is recorded, so none is started twice  *)
(* and the limit on concurrent runs holds.                                     *)

\* Different live runs are recorded for different jobs.
LEMMA TrackedOnce ==
  ASSUME LiveIsTracked, NEW p \in Pids, NEW q \in Pids, Live(p), Live(q),
         proc[p].job = proc[q].job
  PROVE  p = q
<1>1. RunningAs(p) = RunningAs(q)
  BY DEF LiveIsTracked
<1>2. RunningAs(p).pid = p /\ RunningAs(q).pid = q
  BY DEF RunningAs
<1> QED BY <1>1, <1>2

\* The runs that count are at most as many as the running entries dispatch_queue
\* counts.
LEMMA RunsAreCounted ==
  ASSUME IInv, LiveIsTracked, locked, dpc = "dispatch"
  PROVE  /\ IsFiniteSet(LiveDaemonRuns)
         /\ Cardinality(LiveDaemonRuns) \in Nat
         /\ Cardinality(Running(entries)) \in Nat
         /\ Cardinality(LiveDaemonRuns) <= Cardinality(Running(entries))
<1> DEFINE f == [p \in LiveDaemonRuns |-> proc[p].job]
<1>1. IsFiniteSet(Running(entries))
  <2>1. IsFiniteSet(Jobs)
    BY FS_Interval, RegistryAssumption DEF Jobs
  <2> QED BY <2>1, FS_Subset DEF Running
<1>2. ASSUME NEW p \in LiveDaemonRuns PROVE proc[p].job \in Running(entries)
  <2>1. p \in Pids /\ Live(p)
    BY DEF LiveDaemonRuns
  <2>2. proc[p].job \in Jobs /\ entries[proc[p].job] = RunningAs(p)
    BY <2>1 DEF IInv, ProcessHasJob, LiveIsTracked, View
  <2> QED BY <2>2 DEF Running, RunningAs
<1>3. \A p, q \in LiveDaemonRuns : f[p] = f[q] => p = q
  BY TrackedOnce DEF LiveDaemonRuns
<1>4. f \in Injection(LiveDaemonRuns, Running(entries))
  BY <1>2, <1>3 DEF Injection, IsInjective, Running
<1> HIDE DEF f
<1>5. /\ IsFiniteSet(LiveDaemonRuns)
      /\ Cardinality(LiveDaemonRuns) <= Cardinality(Running(entries))
  BY <1>1, <1>4, FS_Injection
<1> QED BY <1>1, <1>5, FS_CardinalityType

\* Steps that start no run keep TrackInv if they keep the entries of the live ones.
LEMMA TrackKept ==
  ASSUME IInv, TrackInv,
         \A q \in Pids : proc'[q].st = "live" =>
            /\ proc[q].st = "live" /\ proc'[q] = proc[q]
            /\ View'[proc[q].job] = View[proc[q].job]
  PROVE  TrackInv'
<1>1. LiveIsTracked'
  BY DEF TrackInv, LiveIsTracked, Live, RunningAs
<1>2. LiveHasParent'
  BY DEF TrackInv, LiveHasParent, Live
<1>3. WithinLimit'
  <2>1. LiveDaemonRuns' \subseteq LiveDaemonRuns /\ LiveDaemonRuns \subseteq Pids
    BY DEF LiveDaemonRuns, Live
  <2>2. IsFiniteSet(LiveDaemonRuns)
    BY <2>1, FS_Subset, RegistryAssumption
  <2>3. /\ Cardinality(LiveDaemonRuns') <= Cardinality(LiveDaemonRuns)
        /\ Cardinality(LiveDaemonRuns') \in Nat /\ Cardinality(LiveDaemonRuns) \in Nat
    BY <2>1, <2>2, FS_Subset, FS_CardinalityType
  <2> QED BY <2>3, RegistryAssumption DEF TrackInv, WithinLimit
<1> QED BY <1>1, <1>2, <1>3 DEF TrackInv

LEMMA TrackInit == Init => TrackInv
<1> SUFFICES ASSUME Init PROVE TrackInv
  OBVIOUS
<1>1. \A p \in Pids : ~Live(p)
  BY DEF Init, NoProcess, Live
<1>2. LiveDaemonRuns = {}
  BY <1>1 DEF LiveDaemonRuns
<1>3. WithinLimit
  BY <1>2, FS_EmptySet, RegistryAssumption DEF WithinLimit
<1> QED BY <1>1, <1>3 DEF TrackInv, LiveIsTracked, LiveHasParent

\* The dispatcher counts the running entries and starts one more run.
LEMMA DispatchOneTrack ==
  ASSUME IInv, TrackInv, NEW p \in Pids, DispatchOne(p)
  PROVE  TrackInv'
<1> DEFINE j == FirstQueued(entries)
<1>1. j \in Jobs /\ entries[j].st = "queued"
  BY FirstQueuedIsOldest DEF DispatchOne, CanDispatch, Queued
<1>2. /\ locked /\ dpc = "dispatch" /\ proc[p].st = "free"
      /\ proc' = [proc EXCEPT ![p] =
                   [st |-> "live", job |-> j, parent |-> "daemon", exit |-> "none"]]
      /\ entries' = [entries EXCEPT ![j] = RunningAs(p)]
      /\ UNCHANGED <<file, locked, dpc>>
  BY DEF DispatchOne, Started, Free
<1> USE DEF IInv, TypeOK, RegistryTypeOK, Registry
<1> HIDE DEF j
<1>3. LiveIsTracked'
  <2> SUFFICES ASSUME NEW q \in Pids, proc'[q].st = "live"
               PROVE  entries'[proc'[q].job] = RunningAs(q)
    BY <1>2 DEF LiveIsTracked, Live, View, RunningAs
  <2>1. CASE q = p
    BY <1>1, <1>2, <2>1
  <2>2. CASE q # p
    <3>1. proc'[q] = proc[q] /\ Live(q)
      BY <1>2, <2>2 DEF Live
    <3>2. entries[proc[q].job] = RunningAs(q)
      BY <1>2, <3>1 DEF TrackInv, LiveIsTracked, View
    <3>3. proc[q].job # j
      BY <1>1, <3>2 DEF RunningAs
    <3> QED BY <1>2, <3>1, <3>2, <3>3
  <2> QED BY <2>1, <2>2
<1>4. LiveHasParent'
  BY <1>2 DEF TrackInv, LiveHasParent, Live
<1>5. WithinLimit'
  <2>1. LiveDaemonRuns' = LiveDaemonRuns \union {p} /\ p \notin LiveDaemonRuns
    BY <1>2 DEF LiveDaemonRuns, Live
  <2>2. /\ IsFiniteSet(LiveDaemonRuns)
        /\ Cardinality(LiveDaemonRuns) \in Nat
        /\ Cardinality(Running(entries)) \in Nat
        /\ Cardinality(LiveDaemonRuns) <= Cardinality(Running(entries))
    BY <1>2, RunsAreCounted DEF TrackInv
  <2>3. Cardinality(LiveDaemonRuns') = Cardinality(LiveDaemonRuns) + 1
    BY <2>1, <2>2, FS_AddElement
  <2>4. MaxConcurrent > 0 => Cardinality(Running(entries)) < MaxConcurrent
    BY DEF DispatchOne, CanDispatch, UnderLimit
  <2> QED BY <2>2, <2>3, <2>4, RegistryAssumption DEF WithinLimit
<1> QED BY <1>3, <1>4, <1>5 DEF TrackInv

LEMMA SaveTrack ==
  ASSUME NoRunIsLost, NEW new, SaveAndUnlock(new)
  PROVE  file' = new /\ View' = new
BY DEF NoRunIsLost, SaveAndUnlock, View

LEMMA CheckJobsTrack ==
  ASSUME NoRunIsLost, IInv, TrackInv, CheckJobs
  PROVE  TrackInv'
<1>1. \A j \in Jobs : View'[j] = IF j \in DeadJobs THEN EntryOf(Verdict(j)) ELSE entries[j]
  BY SaveTrack DEF CheckJobs
<1>2. \A q \in Pids : proc'[q].st = "live" => proc[q].st = "live" /\ proc'[q] = proc[q]
  BY DEF CheckJobs, IInv, TypeOK, RegistryTypeOK, Process
<1>3. \A j \in Jobs : View[j] = entries[j]
  BY DEF CheckJobs, View, IInv, LoadedIsCurrent
<1>4. ASSUME NEW q \in Pids, Live(q)
      PROVE  View'[proc[q].job] = View[proc[q].job]
  <2>1. proc[q].job \in Jobs /\ entries[proc[q].job] = RunningAs(q)
    BY <1>3, <1>4 DEF IInv, ProcessHasJob, TrackInv, LiveIsTracked
  <2>2. proc[q].job \notin DeadJobs
    BY <1>4, <2>1 DEF DeadJobs, RunningAs, SeenDead, Reapable, Live
  <2> QED BY <1>1, <1>3, <2>1, <2>2
<1> QED BY <1>2, <1>4, TrackKept DEF Live

LEMMA CleanupTrack ==
  ASSUME NoRunIsLost, IInv, TrackInv, CleanupOldEntries
  PROVE  TrackInv'
<1>1. PICK old \in SUBSET {j \in Jobs : entries[j].st \in Terminal} :
        SaveAndUnlock([j \in Jobs |-> IF j \in old THEN Absent ELSE entries[j]])
  BY DEF CleanupOldEntries
<1>2. \A j \in Jobs : View'[j] = IF j \in old THEN Absent ELSE entries[j]
  BY <1>1, SaveTrack
<1>3. \A j \in Jobs : View[j] = entries[j]
  BY DEF CleanupOldEntries, View, IInv, LoadedIsCurrent
<1>4. ASSUME NEW q \in Pids, Live(q)
      PROVE  View'[proc[q].job] = View[proc[q].job]
  <2>1. proc[q].job \in Jobs /\ entries[proc[q].job] = RunningAs(q)
    BY <1>3, <1>4 DEF IInv, ProcessHasJob, TrackInv, LiveIsTracked
  <2> QED BY <1>2, <1>3, <2>1 DEF RunningAs, Terminal
<1>5. proc' = proc
  BY DEF CleanupOldEntries
<1> QED BY <1>4, <1>5, TrackKept DEF Live

\* systemd kills the runs with the daemon; those of the shells are in the file.
LEMMA CrashTrack ==
  ASSUME NoRunIsLost, IInv, TrackInv, Crash
  PROVE  TrackInv'
<1>1. CgroupKill /\ View' = file /\ \A q \in Pids : proc'[q] = Orphaned(q)
  BY DEF Crash, NoRunIsLost, View
<1>2. ASSUME NEW q \in Pids, proc'[q].st = "live"
      PROVE  /\ proc[q].st = "live" /\ proc'[q] = proc[q]
             /\ View'[proc[q].job] = View[proc[q].job]
  <2>1. proc'[q] = Orphaned(q) /\ proc[q] \in Process
    BY <1>1 DEF IInv, TypeOK, RegistryTypeOK
  <2>2. proc[q].st = "live" /\ proc'[q] = proc[q] /\ proc[q].parent # "daemon"
    BY <1>1, <1>2, <2>1 DEF Orphaned, Process
  <2>3. proc[q].parent = "shell"
    BY <2>2 DEF TrackInv, LiveHasParent, Live
  <2>4. file[proc[q].job] = RunningAs(q) /\ View[proc[q].job] = RunningAs(q)
    BY <2>2, <2>3 DEF IInv, ShellIsTracked, TrackInv, LiveIsTracked, Live
  <2> QED BY <1>1, <2>2, <2>4
<1> QED BY <1>2, TrackKept

LEMMA CmdStartTrack ==
  ASSUME IInv, TrackInv, NEW p \in Pids, CmdStart(p), UNCHANGED daemonVars
  PROVE  TrackInv'
<1> DEFINE j == issued + 1
<1>1. /\ j \in Jobs /\ proc[p].st = "free"
      /\ proc' = [proc EXCEPT ![p] =
                   [st |-> "live", job |-> j, parent |-> "shell", exit |-> "none"]]
      /\ View = file /\ View' = file' /\ file' = [file EXCEPT ![j] = RunningAs(p)]
  BY RegistryAssumption
  DEF CmdStart, Started, Free, View, IInv, TypeOK, RegistryTypeOK, Jobs, daemonVars
<1> USE DEF IInv, TypeOK, RegistryTypeOK, Registry
<1>2. ASSUME NEW q \in Pids, q # p, proc'[q].st = "live"
      PROVE  /\ proc[q].st = "live" /\ proc'[q] = proc[q]
             /\ file'[proc[q].job] = file[proc[q].job]
  <2>1. proc'[q] = proc[q] /\ proc[q].st = "live"
    BY <1>1, <1>2
  <2>2. proc[q].job # j
    BY <2>1 DEF ProcessHasJob, Live, Jobs
  <2> QED BY <1>1, <2>1, <2>2
<1> HIDE DEF j
<1>3. LiveIsTracked'
  <2> SUFFICES ASSUME NEW q \in Pids, proc'[q].st = "live"
               PROVE  file'[proc'[q].job] = RunningAs(q)
    BY <1>1 DEF LiveIsTracked, Live, RunningAs
  <2>1. CASE q = p
    BY <1>1, <2>1
  <2>2. CASE q # p
    BY <1>1, <1>2, <2>2 DEF TrackInv, LiveIsTracked, Live
  <2> QED BY <2>1, <2>2
<1>4. LiveHasParent'
  BY <1>1 DEF TrackInv, LiveHasParent, Live
<1>5. WithinLimit'
  <2>1. LiveDaemonRuns' = LiveDaemonRuns
    BY <1>1 DEF LiveDaemonRuns, Live
  <2> QED BY <2>1 DEF TrackInv, WithinLimit
<1> QED BY <1>3, <1>4, <1>5 DEF TrackInv

LEMMA CmdFinishTrack ==
  ASSUME IInv, TrackInv, NEW p \in Pids, CmdFinish(p), UNCHANGED daemonVars
  PROVE  TrackInv'
<1>1. Live(p) /\ View = file /\ View' = file'
  BY DEF CmdFinish, View, daemonVars
<1>2. PICK o \in Outcome : proc' = Exited(p, o)
  BY DEF CmdFinish
<1>3. \A q \in Pids : proc'[q].st = "live" => proc'[q] = proc[q] /\ q # p /\ Live(q)
  BY <1>1, <1>2, ExitPersists DEF IInv, ProcessesPersist, Live
<1>4. \A i \in Jobs : i # proc[p].job => file'[i] = file[i]
  BY DEF CmdFinish, IInv, TypeOK, RegistryTypeOK, Registry
<1>5. ASSUME NEW q \in Pids, proc'[q].st = "live"
      PROVE  View'[proc[q].job] = View[proc[q].job]
  <2>1. proc[q].job # proc[p].job /\ proc[q].job \in Jobs
    BY <1>1, <1>3, <1>5, TrackedOnce DEF IInv, ProcessHasJob, TrackInv
  <2> QED BY <1>1, <1>4, <2>1
<1> QED BY <1>3, <1>5, TrackKept DEF Live

LEMMA TrackStep == NoRunIsLost /\ IInv /\ TrackInv /\ [Next]_vars => TrackInv'
<1> SUFFICES ASSUME NoRunIsLost, IInv, TrackInv, [Next]_vars PROVE TrackInv'
  OBVIOUS
<1>1. CASE DaemonStep
  <2>1. ASSUME LockAndLoad \/ Restart PROVE proc' = proc /\ \A j \in Jobs : View'[j] = View[j]
    BY <2>1 DEF LockAndLoad, Restart, registryVars, View, IInv, LoadedIsCurrent
  <2>2. ASSUME DispatchDone PROVE proc' = proc /\ \A j \in Jobs : View'[j] = View[j]
    BY <2>2, SaveTrack DEF DispatchDone, View
  <2>3. ASSUME proc' = proc, \A j \in Jobs : View'[j] = View[j] PROVE TrackInv'
    BY <2>3, TrackKept DEF IInv, ProcessHasJob, Live
  <2>4. ~DispatchRaises
    BY DEF NoRunIsLost, DispatchRaises
  <2> QED
    BY <1>1, <2>1, <2>2, <2>3, <2>4, CheckJobsTrack, DispatchOneTrack, CleanupTrack
    DEF DaemonStep
<1>2. CASE Crash
  BY <1>2, CrashTrack
<1>3. ASSUME NEW p \in Pids, ProcessStep(p), UNCHANGED daemonVars PROVE TrackInv'
  <2>1. View' = View /\ Live(p) /\ \E o \in Outcome : proc' = Exited(p, o)
    BY <1>3 DEF ProcessStep, ProcExit, ProcKilled, Outcome, View, daemonVars
  <2>2. \A q \in Pids : proc'[q].st = "live" => proc'[q] = proc[q] /\ Live(q)
    BY <2>1, ExitPersists DEF IInv, ProcessesPersist, Live
  <2> QED BY <2>1, <2>2, TrackKept DEF Live
<1>4. ASSUME NEW p \in Pids, ShellStep(p), UNCHANGED daemonVars PROVE TrackInv'
  BY <1>4, CmdStartTrack, CmdFinishTrack DEF ShellStep
<1>5. CASE UNCHANGED vars
  <2>1. proc' = proc /\ View' = View
    BY <1>5 DEF vars, registryVars, daemonVars, View
  <2> QED BY <2>1, TrackKept
<1> QED BY <1>1, <1>2, <1>3, <1>4, <1>5 DEF Next

THEOREM Tracking == ASSUME NoRunIsLost PROVE Spec => [](IInv /\ TrackInv)
<1>1. Init => IInv /\ TrackInv
  BY InvInit, TrackInit
<1>2. IInv /\ TrackInv /\ [Next]_vars => (IInv /\ TrackInv)'
  BY InvStep, TrackStep
<1> QED BY <1>1, <1>2, PTL DEF Spec

\* Every process that runs is recorded with its pid under its job.
THEOREM LiveIsTrackedThm == ASSUME NoRunIsLost PROVE Spec => []LiveIsTracked
<1>1. TrackInv => LiveIsTracked
  BY DEF TrackInv
<1> QED BY <1>1, Tracking, PTL

\* No job is run by two processes at the same time: a crash of the daemon, its
\* restart and the dispatch of the jobs left queued notwithstanding.
THEOREM OneRunAtATimeThm == ASSUME NoRunIsLost PROVE Spec => []OneRunAtATime
<1>1. TrackInv => OneRunAtATime
  BY TrackedOnce DEF TrackInv, OneRunAtATime
<1> QED BY <1>1, Tracking, PTL

\* dispatch_queue keeps MAX_CONCURRENT_JOBS, across crashes and restarts too.
THEOREM WithinLimitThm == ASSUME NoRunIsLost PROVE Spec => []WithinLimit
<1>1. TrackInv => WithinLimit
  BY DEF TrackInv
<1> QED BY <1>1, Tracking, PTL
--------------------------------------------------------------------------------
(* The queue: in which order jobs start, under every fault. *)

\* The updates of dispatch_queue apart, the daemon sees what the file says.
LEMMA ViewIsFile ==
  ASSUME IInv, ~locked \/ dpc # "dispatch"
  PROVE  /\ View = file
         /\ locked => \A j \in Jobs : entries[j] = file[j]
BY DEF View, IInv, LoadedIsCurrent

\* A queued job stays queued unless dispatch_queue takes it, which takes the oldest.
LEMMA QueuedStep ==
  ASSUME IInv, [Next]_vars, NEW j \in Jobs, View[j].st = "queued",
         ~ \E p \in Pids : DispatchOne(p) /\ j = FirstQueued(entries)
  PROVE  View'[j].st = "queued"
<1> USE DEF IInv, TypeOK, RegistryTypeOK, Registry
<1>1. file[j].st = "queued"
  BY DEF View, LoadedIsCurrent
<1>2. CASE LockAndLoad
  BY <1>1, <1>2 DEF LockAndLoad, View
<1>3. CASE CheckJobs
  BY <1>1, <1>3, ViewIsFile DEF CheckJobs, SaveAndUnlock, DeadJobs, Running, View
<1>4. ASSUME NEW p \in Pids, DispatchOne(p) PROVE View'[j].st = "queued"
  BY <1>4 DEF DispatchOne, View
<1>5. CASE DispatchDone
  BY <1>1, <1>5 DEF DispatchDone, SaveAndUnlock, View
<1>6. CASE CleanupOldEntries
  <2>1. PICK old \in SUBSET {i \in Jobs : entries[i].st \in Terminal} :
          SaveAndUnlock([i \in Jobs |-> IF i \in old THEN Absent ELSE entries[i]])
    BY <1>6 DEF CleanupOldEntries
  <2> QED BY <1>1, <1>6, <2>1, ViewIsFile DEF CleanupOldEntries, SaveAndUnlock, View, Terminal
<1>7. CASE DispatchRaises \/ Crash \/ Restart
  BY <1>1, <1>7 DEF DispatchRaises, Crash, Restart, registryVars, View
<1>8. ASSUME NEW p \in Pids, CmdStart(p), UNCHANGED daemonVars PROVE View'[j].st = "queued"
  <2>1. j # issued + 1
    BY <1>1, RegistryAssumption DEF UnissuedAbsent, Absent, EntryOf, Jobs
  <2> QED BY <1>1, <1>8, <2>1 DEF CmdStart, View, daemonVars
<1>9. ASSUME NEW p \in Pids, CmdFinish(p), UNCHANGED daemonVars PROVE View'[j].st = "queued"
  <2>1. file[proc[p].job] = RunningAs(p)
    BY <1>9 DEF CmdFinish, ShellIsTracked
  <2>2. j # proc[p].job
    BY <1>1, <2>1 DEF RunningAs
  <2> QED BY <1>1, <1>9, <2>2 DEF CmdFinish, View, daemonVars
<1>10. CASE \/ \E p \in Pids : ProcessStep(p) /\ UNCHANGED daemonVars
            \/ UNCHANGED vars
  BY <1>10 DEF ProcessStep, ProcExit, ProcKilled, daemonVars, vars, registryVars, View
<1> QED
  BY <1>2, <1>3, <1>4, <1>5, <1>6, <1>7, <1>8, <1>9, <1>10 DEF Next, DaemonStep, ShellStep

\* A queued job is never overtaken by a job queued after it, whatever fails.
THEOREM QueueOrderThm == Spec => QueueOrder
<1>1. ASSUME IInv, [Next]_vars, NEW i \in Jobs, NEW j \in Jobs, i < j,
             View[i].st = "queued", View[j].st = "queued", View'[j].st = "running"
      PROVE  View'[i].st = "running"
  <2>1. PICK p \in Pids : DispatchOne(p) /\ j = FirstQueued(entries)
    BY <1>1, QueuedStep
  <2>2. i \in Queued(entries)
    BY <1>1, <2>1 DEF DispatchOne, View, Queued
  <2>3. j <= i
    BY <2>1, <2>2, FirstQueuedIsOldest
  <2> QED BY <1>1, <2>3 DEF Jobs
<1>2. IInv /\ [Next]_vars
        => [\A i, j \in Jobs : i < j /\ View[i].st = "queued" /\ View[j].st = "queued"
              => (View'[j].st = "running" => View'[i].st = "running")]_vars
  BY <1>1
<1> QED BY <1>2, Invariance, PTL DEF Spec, QueueOrder

--------------------------------------------------------------------------------
(* Where nothing fails: no job starts twice, and the verdicts are the runs'. *)

NoFaults == Faults = {}

\* What has a process is no longer queued, and was handed out.
StartedLeaves ==
  \A p \in Pids : proc[p].job # 0 =>
    proc[p].job \in Jobs /\ proc[p].job <= issued /\ View[proc[p].job].st # "queued"

OnceInv == StartedOnce /\ StartedLeaves

\* Nothing fails, so nothing is queued again.
LEMMA NothingRequeued ==
  ASSUME NoFaults, IInv, [Next]_vars, NEW j \in Jobs, View'[j].st = "queued"
  PROVE  View[j].st = "queued"
<1> USE DEF IInv, TypeOK, RegistryTypeOK, Registry
<1>1. CASE LockAndLoad
  BY <1>1 DEF LockAndLoad, View
<1>2. CASE CheckJobs
  <2>1. View'[j] = IF j \in DeadJobs THEN EntryOf(Verdict(j)) ELSE entries[j]
    BY <1>2 DEF CheckJobs, SaveAndUnlock, View, NoFaults
  <2>2. Verdict(j) # "queued"
    BY VerdictIsTerminal DEF Terminal
  <2>3. View[j] = entries[j]
    BY <1>2, ViewIsFile DEF CheckJobs
  <2> QED BY <2>1, <2>2, <2>3 DEF EntryOf
<1>3. ASSUME NEW p \in Pids, DispatchOne(p) PROVE View[j].st = "queued"
  BY <1>3 DEF DispatchOne, View, RunningAs
<1>4. CASE DispatchDone
  BY <1>4 DEF DispatchDone, SaveAndUnlock, View, NoFaults
<1>5. CASE CleanupOldEntries
  <2>1. PICK old \in SUBSET {i \in Jobs : entries[i].st \in Terminal} :
          SaveAndUnlock([i \in Jobs |-> IF i \in old THEN Absent ELSE entries[i]])
    BY <1>5 DEF CleanupOldEntries
  <2> QED
    BY <1>5, <2>1, ViewIsFile
    DEF CleanupOldEntries, SaveAndUnlock, View, Absent, EntryOf, NoFaults
<1>6. ~DispatchRaises /\ ~Crash
  BY DEF DispatchRaises, Crash, NoFaults
<1>7. CASE Restart
  BY <1>7 DEF Restart, registryVars, View
<1>8. ASSUME NEW p \in Pids, ShellStep(p), UNCHANGED daemonVars PROVE View[j].st = "queued"
  <2>1. View = file /\ View' = file'
    BY <1>8 DEF ShellStep, CmdStart, CmdFinish, View, daemonVars
  <2>2. CASE CmdStart(p)
    BY <2>1, <2>2 DEF CmdStart, RunningAs
  <2>3. CASE CmdFinish(p)
    <3>1. file' = file \/ \E st \in {"success", "failed"} :
                            file' = [file EXCEPT ![proc[p].job] = EntryOf(st)]
      BY <2>3 DEF CmdFinish
    <3> QED BY <2>1, <3>1 DEF EntryOf
  <2> QED BY <1>8, <2>2, <2>3 DEF ShellStep
<1>9. CASE \/ \E p \in Pids : ProcessStep(p) /\ UNCHANGED daemonVars
           \/ UNCHANGED vars
  BY <1>9 DEF ProcessStep, ProcExit, ProcKilled, daemonVars, vars, registryVars, View
<1> QED BY <1>1, <1>2, <1>3, <1>4, <1>5, <1>6, <1>7, <1>8, <1>9 DEF Next, DaemonStep

\* Processes keep their jobs and parents, but for the one that is started.
LEMMA ProcessesStay ==
  ASSUME NoFaults, IInv, [Next]_vars,
         NEW p \in Pids, ~DispatchOne(p), ~(CmdStart(p) /\ UNCHANGED daemonVars)
  PROVE  proc'[p].job = proc[p].job /\ proc'[p].parent = proc[p].parent
<1> USE DEF IInv, TypeOK, RegistryTypeOK, Process
<1>1. CASE CheckJobs
  BY <1>1 DEF CheckJobs
<1>2. ASSUME NEW q \in Pids, DispatchOne(q) \/ (CmdStart(q) /\ UNCHANGED daemonVars)
      PROVE  proc'[p] = proc[p]
  BY <1>2 DEF DispatchOne, CmdStart, Started
<1>3. ASSUME NEW q \in Pids, ProcessStep(q) \/ CmdFinish(q)
      PROVE  proc'[p].job = proc[p].job /\ proc'[p].parent = proc[p].parent
  <2>1. PICK o \in Outcome : proc' = Exited(q, o)
    BY <1>3 DEF ProcessStep, ProcExit, ProcKilled, CmdFinish, Outcome
  <2> QED BY <2>1 DEF Exited
<1>4. ~DispatchRaises /\ ~Crash
  BY DEF DispatchRaises, Crash, NoFaults
<1>5. CASE LockAndLoad \/ DispatchDone \/ CleanupOldEntries \/ Restart \/ UNCHANGED vars
  BY <1>5 DEF LockAndLoad, DispatchDone, CleanupOldEntries, Restart, vars, registryVars
<1> QED BY <1>1, <1>2, <1>3, <1>4, <1>5 DEF Next, DaemonStep, ShellStep

LEMMA OnceStep ==
  ASSUME NoFaults, IInv, OnceInv, [Next]_vars
  PROVE  OnceInv'
<1> USE DEF IInv, TypeOK, RegistryTypeOK, Process, Registry
<1>1. ASSUME NEW p \in Pids, ~DispatchOne(p), ~(CmdStart(p) /\ UNCHANGED daemonVars),
             proc'[p].job # 0
      PROVE  /\ proc'[p].job = proc[p].job /\ proc[p].job \in Jobs
             /\ proc'[p].job <= issued'
             /\ View'[proc'[p].job].st # "queued"
  <2>1. proc'[p].job = proc[p].job /\ proc[p].job \in Jobs /\ proc[p].job <= issued
    BY <1>1, ProcessesStay DEF OnceInv, StartedLeaves
  <2>2. issued' \in Nat /\ issued <= issued'
    BY RegistryAssumption
    DEF Next, DaemonStep, LockAndLoad, CheckJobs, DispatchOne, DispatchRaises, DispatchDone,
        CleanupOldEntries, Crash, Restart, ProcessStep, ProcExit, ProcKilled, ShellStep,
        CmdStart, CmdFinish, vars, registryVars
  <2>3. View'[proc[p].job].st # "queued"
    BY <2>1, NothingRequeued, <1>1 DEF OnceInv, StartedLeaves
  <2> QED BY <2>1, <2>2, <2>3 DEF Jobs
<1>2. ASSUME NEW p \in Pids, DispatchOne(p) PROVE OnceInv'
  <2> DEFINE j == FirstQueued(entries)
  <2>1. j \in Jobs /\ entries[j].st = "queued" /\ View[j].st = "queued"
    BY <1>2, FirstQueuedIsOldest DEF DispatchOne, CanDispatch, Queued, View
  <2>2. j <= issued
    BY <2>1, <1>2 DEF DispatchOne, LoadedIsCurrent, UnissuedAbsent, Absent, EntryOf, Jobs
  <2>3. /\ proc' = [proc EXCEPT ![p] =
                   [st |-> "live", job |-> j, parent |-> "daemon", exit |-> "none"]]
        /\ View' = [entries EXCEPT ![j] = RunningAs(p)]
        /\ issued' = issued
    BY <1>2 DEF DispatchOne, Started, View
  <2> HIDE DEF j
  <2>4. ASSUME NEW q \in Pids, q # p
        PROVE  proc'[q] = proc[q] /\ proc[q].job # j
    BY <2>1, <2>3, <2>4 DEF OnceInv, StartedLeaves, Jobs
  <2>5. StartedOnce'
    BY <2>1, <2>3, <2>4 DEF OnceInv, StartedOnce
  <2>6. StartedLeaves'
    <3> SUFFICES ASSUME NEW q \in Pids, proc'[q].job # 0
                 PROVE  /\ proc'[q].job \in Jobs /\ proc'[q].job <= issued'
                        /\ View'[proc'[q].job].st # "queued"
      BY DEF StartedLeaves
    <3>1. CASE q = p
      BY <2>1, <2>2, <2>3, <3>1 DEF RunningAs
    <3>2. CASE q # p
      <4>1. proc'[q] = proc[q] /\ proc[q].job # j
        BY <2>4, <3>2
      <4>2. proc[q].job \in Jobs /\ proc[q].job <= issued /\ View[proc[q].job].st # "queued"
        BY <4>1 DEF OnceInv, StartedLeaves
      <4>3. View = entries
        BY <1>2 DEF DispatchOne, View
      <4> QED BY <2>3, <4>1, <4>2, <4>3
    <3> QED BY <3>1, <3>2
  <2> QED BY <2>5, <2>6 DEF OnceInv
<1>3. ASSUME NEW p \in Pids, CmdStart(p), UNCHANGED daemonVars PROVE OnceInv'
  <2> DEFINE j == issued + 1
  <2>1. /\ proc' = [proc EXCEPT ![p] =
                   [st |-> "live", job |-> j, parent |-> "shell", exit |-> "none"]]
        /\ View' = [file EXCEPT ![j] = RunningAs(p)]
        /\ j \in Jobs /\ issued' = j /\ View = file
    BY <1>3, RegistryAssumption DEF CmdStart, Started, View, daemonVars, Jobs
  <2>2. ASSUME NEW q \in Pids, q # p
        PROVE  proc'[q] = proc[q] /\ proc[q].job # j
               /\ (proc[q].job # 0 => proc[q].job \in Jobs /\ proc[q].job <= issued
                                       /\ View[proc[q].job].st # "queued")
    BY <2>1, <2>2 DEF OnceInv, StartedLeaves, Jobs
  <2>3. StartedOnce'
    BY <2>1, <2>2 DEF OnceInv, StartedOnce
  <2>4. StartedLeaves'
    <3> SUFFICES ASSUME NEW q \in Pids, proc'[q].job # 0
                 PROVE  /\ proc'[q].job \in Jobs /\ proc'[q].job <= issued'
                        /\ View'[proc'[q].job].st # "queued"
      BY DEF StartedLeaves
    <3>1. CASE q = p
      BY <2>1, <3>1 DEF RunningAs, Jobs
    <3>2. CASE q # p
      BY <2>1, <2>2, <3>2 DEF Jobs
    <3> QED BY <3>1, <3>2
  <2> QED BY <2>3, <2>4 DEF OnceInv
<1>4. ASSUME \A p \in Pids : ~DispatchOne(p) /\ ~(CmdStart(p) /\ UNCHANGED daemonVars)
      PROVE  OnceInv'
  <2>1. StartedLeaves'
    BY <1>1, <1>4 DEF StartedLeaves
  <2>2. \A p \in Pids : proc'[p].job = proc[p].job
    BY <1>4, ProcessesStay
  <2> QED BY <2>1, <2>2 DEF OnceInv, StartedOnce
<1> QED BY <1>2, <1>3, <1>4

LEMMA OnceInit == Init => OnceInv
BY DEF Init, NoProcess, OnceInv, StartedOnce, StartedLeaves

THEOREM Starting == ASSUME NoFaults PROVE Spec => [](IInv /\ OnceInv)
<1>1. Init => IInv /\ OnceInv
  BY InvInit, OnceInit
<1>2. IInv /\ OnceInv /\ [Next]_vars => (IInv /\ OnceInv)'
  BY InvStep, OnceStep
<1> QED BY <1>1, <1>2, PTL DEF Spec

\* Where nothing fails, a job is started once, never again.
THEOREM StartedOnceThm == ASSUME NoFaults PROVE Spec => []StartedOnce
<1>1. OnceInv => StartedOnce
  BY DEF OnceInv
<1> QED BY <1>1, Starting, PTL

\* A child of the daemon: its entry is running with its pid until check_jobs has
\* waited for it, and then tells what it returned, unless it was cleaned up.
Child(p) ==
  LET v == View[proc[p].job] IN
  /\ proc[p].job \in Jobs
  /\ proc[p].st \in {"live", "zombie"} => v = RunningAs(p)
  /\ proc[p].st = "gone" =>
       /\ v.st \in Terminal \union {"absent"}
       /\ v.st \in Terminal =>
            (v.st \in {"success", "skipped"} <=> ExitCode(proc[p].exit) = "zero")

ChildrenInv == \A p \in Pids : proc[p].parent = "daemon" => proc[p].st # "free" /\ Child(p)

LEMMA ChildKept ==
  ASSUME NEW p \in Pids, proc'[p] = proc[p], View'[proc[p].job] = View[proc[p].job],
         proc[p].parent = "daemon" => proc[p].st # "free" /\ Child(p)
  PROVE  proc'[p].parent = "daemon" => proc'[p].st # "free" /\ Child(p)'
BY DEF Child, RunningAs

\* The return code decides between the two good verdicts and the bad one.
LEMMA VerdictOfChild ==
  ASSUME NEW j, Reapable(entries[j].pid)
  PROVE  Verdict(j) \in {"success", "skipped"}
           <=> ExitCode(proc[entries[j].pid].exit) = "zero"
BY DEF Verdict, ReturnCode

LEMMA CheckJobsChildren ==
  ASSUME NoFaults, IInv, OnceInv, ChildrenInv, CheckJobs
  PROVE  ChildrenInv'
<1> USE DEF IInv, TypeOK, RegistryTypeOK, Process, Registry
<1>1. \A j \in Jobs : View[j] = entries[j]
  BY ViewIsFile DEF CheckJobs
<1>2. \A j \in Jobs : View'[j] = IF j \in DeadJobs THEN EntryOf(Verdict(j)) ELSE entries[j]
  BY DEF CheckJobs, SaveAndUnlock, View, NoFaults
<1>3. \A p \in Pids : proc'[p] = IF Reapable(p) /\ \E j \in DeadJobs : entries[j].pid = p
                                THEN [proc[p] EXCEPT !.st = "gone"] ELSE proc[p]
  BY DEF CheckJobs
<1>8. ASSUME NEW p \in Pids PROVE proc'[p].parent = proc[p].parent
  <2>1. proc[p] \in Process
    OBVIOUS
  <2>2. proc'[p] = proc[p] \/ proc'[p] = [proc[p] EXCEPT !.st = "gone"]
    BY <1>3
  <2> QED BY <2>1, <2>2 DEF Process
<1> SUFFICES ASSUME NEW p \in Pids, proc[p].parent = "daemon"
             PROVE  proc'[p].st # "free" /\ Child(p)'
  BY <1>8 DEF ChildrenInv
<1> DEFINE j == proc[p].job
<1>4. j \in Jobs /\ Child(p) /\ proc[p].st # "free"
  BY DEF ChildrenInv, Child
<1>5. CASE proc[p].st = "live"
  <2>1. entries[j] = RunningAs(p)
    BY <1>1, <1>4, <1>5 DEF Child
  <2>2. j \notin DeadJobs /\ ~Reapable(p)
    BY <1>5, <2>1 DEF DeadJobs, SeenDead, Reapable, RunningAs
  <2>3. proc'[p] = proc[p] /\ View'[j] = View[j]
    BY <1>1, <1>2, <1>3, <1>4, <2>2
  <2> QED BY <1>4, <2>3, ChildKept
<1>6. CASE proc[p].st = "zombie"
  <2>1. entries[j] = RunningAs(p)
    BY <1>1, <1>4, <1>6 DEF Child
  <2>2. j \in DeadJobs /\ Reapable(p) /\ entries[j].pid = p
    BY <1>4, <1>6, <2>1 DEF DeadJobs, SeenDead, Reapable, RunningAs, Running
  <2>3. proc'[p] = [proc[p] EXCEPT !.st = "gone"] /\ View'[j].st = Verdict(j)
    <3>1. proc'[p] = [proc[p] EXCEPT !.st = "gone"]
      BY <1>3, <2>2
    <3>2. View'[j] = EntryOf(Verdict(j))
      BY <1>2, <1>4, <2>2
    <3> QED BY <3>1, <3>2 DEF EntryOf
  <2>4. Verdict(j) \in {"success", "skipped"} <=> ExitCode(proc[p].exit) = "zero"
    BY <2>2, VerdictOfChild
  <2>5. /\ proc'[p].st = "gone" /\ proc'[p].job = j /\ proc'[p].exit = proc[p].exit
    BY <2>3
  <2> HIDE DEF j
  <2> QED BY <1>4, <2>3, <2>4, <2>5, VerdictIsTerminal DEF Child
<1>7. CASE proc[p].st = "gone"
  <2>1. entries[j].st # "running"
    BY <1>1, <1>4, <1>7 DEF Child, Terminal
  <2>2. j \notin DeadJobs /\ ~Reapable(p)
    BY <1>7, <2>1 DEF DeadJobs, Running, Reapable
  <2>3. proc'[p] = proc[p] /\ View'[j] = View[j]
    BY <1>1, <1>2, <1>3, <1>4, <2>2
  <2> QED BY <1>4, <2>3, ChildKept
<1> QED BY <1>4, <1>5, <1>6, <1>7

LEMMA CleanupChildren ==
  ASSUME NoFaults, IInv, ChildrenInv, CleanupOldEntries
  PROVE  ChildrenInv'
<1>1. PICK old \in SUBSET {i \in Jobs : entries[i].st \in Terminal} :
        SaveAndUnlock([i \in Jobs |-> IF i \in old THEN Absent ELSE entries[i]])
  BY DEF CleanupOldEntries
<1>2. /\ proc' = proc
      /\ \A j \in Jobs : View[j] = entries[j]
      /\ \A j \in Jobs : View'[j] = IF j \in old THEN Absent ELSE View[j]
  BY <1>1, ViewIsFile DEF CleanupOldEntries, SaveAndUnlock, View, NoFaults
<1> SUFFICES ASSUME NEW p \in Pids, proc[p].parent = "daemon"
             PROVE  proc'[p].st # "free" /\ Child(p)'
  BY <1>2 DEF ChildrenInv
<1>3. CASE proc[p].job \in old
  <2>1. /\ proc[p].job \in Jobs /\ Child(p) /\ proc[p].st # "free"
        /\ View[proc[p].job].st \in Terminal /\ View'[proc[p].job] = Absent
    BY <1>2, <1>3 DEF ChildrenInv, Child
  <2>2. proc[p].st \notin {"live", "zombie"}
    BY <2>1 DEF Child, RunningAs, Terminal
  <2> QED BY <1>2, <2>1, <2>2 DEF Child, Absent, EntryOf, Terminal
<1>4. CASE proc[p].job \notin old
  BY <1>2, <1>4, ChildKept DEF ChildrenInv, Child
<1> QED BY <1>3, <1>4

LEMMA ChildrenStep ==
  ASSUME NoFaults, IInv, OnceInv, ChildrenInv, [Next]_vars
  PROVE  ChildrenInv'
<1> USE DEF IInv, TypeOK, RegistryTypeOK, Process, Registry
<1>1. CASE LockAndLoad \/ DispatchDone \/ Restart \/ UNCHANGED vars
  <2>1. proc' = proc /\ \A j \in Jobs : View'[j] = View[j]
    BY <1>1
    DEF LockAndLoad, DispatchDone, Restart, SaveAndUnlock, View, vars, registryVars,
        daemonVars, NoFaults, LoadedIsCurrent
  <2> QED BY <2>1, ChildKept DEF ChildrenInv, Child
<1>2. ASSUME NEW q \in Pids, DispatchOne(q) PROVE ChildrenInv'
  <2> DEFINE j == FirstQueued(entries)
  <2>1. j \in Jobs /\ View[j].st = "queued"
    BY <1>2, FirstQueuedIsOldest DEF DispatchOne, CanDispatch, Queued, View
  <2>2. /\ proc' = [proc EXCEPT ![q] =
                   [st |-> "live", job |-> j, parent |-> "daemon", exit |-> "none"]]
        /\ View' = [entries EXCEPT ![j] = RunningAs(q)] /\ View = entries
    BY <1>2 DEF DispatchOne, Started, View
  <2> HIDE DEF j
  <2> SUFFICES ASSUME NEW p \in Pids, proc'[p].parent = "daemon"
               PROVE  proc'[p].st # "free" /\ Child(p)'
    BY DEF ChildrenInv
  <2>3. CASE p = q
    <3>1. /\ proc'[p].st = "live" /\ proc'[p].job = j
          /\ View'[j] = RunningAs(p)
      BY <2>1, <2>2, <2>3
    <3> QED BY <2>1, <3>1 DEF Child, RunningAs
  <2>4. CASE p # q
    <3>1. proc'[p] = proc[p] /\ proc[p].parent = "daemon"
      BY <2>2, <2>4
    <3>2. proc[p].job \in Jobs /\ proc[p].job # j
      BY <2>1, <3>1 DEF ChildrenInv, Child, OnceInv, StartedLeaves, Jobs
    <3> QED BY <2>2, <3>1, <3>2, ChildKept DEF ChildrenInv
  <2> QED BY <2>3, <2>4
<1>3. ASSUME NEW q \in Pids, ProcessStep(q), UNCHANGED daemonVars PROVE ChildrenInv'
  <2>1. Live(q) /\ View' = View /\ \E o \in Outcome : proc' = Exited(q, o)
    BY <1>3 DEF ProcessStep, ProcExit, ProcKilled, Outcome, View, daemonVars
  <2>2. PICK o \in Outcome :
          proc' = [proc EXCEPT ![q] = [@ EXCEPT !.st = ExitState(q), !.exit = o]]
    BY <2>1 DEF Exited
  <2> SUFFICES ASSUME NEW p \in Pids, proc'[p].parent = "daemon"
               PROVE  proc'[p].st # "free" /\ Child(p)'
    BY DEF ChildrenInv
  <2>3. CASE p = q
    <3>1. proc[p].parent = "daemon" /\ proc[p].st = "live"
      BY <2>1, <2>2, <2>3 DEF Live
    <3>2. proc'[p].st = "zombie" /\ proc'[p].job = proc[p].job
      BY <2>2, <2>3, <3>1 DEF ExitState
    <3>3. proc[p].job \in Jobs /\ View'[proc[p].job] = RunningAs(p)
      BY <2>1, <3>1 DEF ChildrenInv, Child
    <3> QED BY <3>2, <3>3 DEF Child, RunningAs
  <2>4. CASE p # q
    BY <2>1, <2>2, <2>4, ChildKept DEF ChildrenInv
  <2> QED BY <2>3, <2>4
<1>4. ASSUME NEW q \in Pids, CmdStart(q), UNCHANGED daemonVars PROVE ChildrenInv'
  <2> DEFINE j == issued + 1
  <2>1. /\ proc' = [proc EXCEPT ![q] =
                   [st |-> "live", job |-> j, parent |-> "shell", exit |-> "none"]]
        /\ View' = [file EXCEPT ![j] = RunningAs(q)] /\ View = file
    BY <1>4 DEF CmdStart, Started, View, daemonVars
  <2>2. ASSUME NEW p \in Pids, proc'[p].parent = "daemon"
        PROVE  /\ proc'[p] = proc[p] /\ proc[p].parent = "daemon"
               /\ View'[proc[p].job] = View[proc[p].job]
    <3>1. proc'[p] = proc[p] /\ proc[p].parent = "daemon"
      BY <2>1, <2>2
    <3>2. proc[p].job \in Jobs /\ proc[p].job # j
      BY <3>1 DEF ChildrenInv, Child, OnceInv, StartedLeaves, Jobs
    <3> QED BY <2>1, <3>1, <3>2
  <2> QED BY <2>2, ChildKept DEF ChildrenInv
<1>5. ASSUME NEW q \in Pids, CmdFinish(q), UNCHANGED daemonVars PROVE ChildrenInv'
  <2>1. /\ Live(q) /\ proc[q].parent = "shell" /\ View = file /\ View' = file'
        /\ \E o \in Outcome : proc' = Exited(q, o)
        /\ \A i \in Jobs : i # proc[q].job => file'[i] = file[i]
    BY <1>5 DEF CmdFinish, View, daemonVars
  <2>2. ASSUME NEW p \in Pids, proc'[p].parent = "daemon"
        PROVE  /\ proc'[p] = proc[p] /\ proc[p].parent = "daemon"
               /\ View'[proc[p].job] = View[proc[p].job]
    <3>1. p # q /\ proc'[p] = proc[p] /\ proc[p].parent = "daemon"
      BY <2>1, <2>2 DEF Exited
    <3>2. proc[p].job \in Jobs /\ proc[p].job # proc[q].job
      BY <3>1 DEF ChildrenInv, Child, OnceInv, StartedOnce, Jobs
    <3> QED BY <2>1, <3>1, <3>2
  <2> QED BY <2>2, ChildKept DEF ChildrenInv
<1>6. ~DispatchRaises /\ ~Crash
  BY DEF DispatchRaises, Crash, NoFaults
<1> QED
  BY <1>1, <1>2, <1>3, <1>4, <1>5, <1>6, CheckJobsChildren, CleanupChildren
  DEF Next, DaemonStep, ShellStep

\* Where nothing fails, what check_jobs records of a child is what it returned.
THEOREM VerdictIsTrueThm == ASSUME NoFaults PROVE Spec => []VerdictIsTrue
<1>1. Init => IInv /\ OnceInv /\ ChildrenInv
  BY InvInit, OnceInit DEF Init, NoProcess, ChildrenInv
<1>2. IInv /\ OnceInv /\ ChildrenInv /\ [Next]_vars => (IInv /\ OnceInv /\ ChildrenInv)'
  BY InvStep, OnceStep, ChildrenStep
<1>3. IInv /\ ChildrenInv => VerdictIsTrue
  <2> SUFFICES ASSUME IInv, ChildrenInv, NEW p \in Pids, proc[p].parent = "daemon",
                      proc[p].st = "gone", file[proc[p].job].st \in Terminal
               PROVE  file[proc[p].job].st \in {"success", "skipped"}
                        <=> ExitCode(proc[p].exit) = "zero"
    BY DEF VerdictIsTrue
  <2>1. proc[p].job \in Jobs /\ Child(p)
    BY DEF ChildrenInv, Child
  <2>2. View[proc[p].job] = file[proc[p].job]
    BY <2>1 DEF View, IInv, LoadedIsCurrent, Terminal
  <2> QED BY <2>1, <2>2 DEF Child
<1> QED BY <1>1, <1>2, <1>3, PTL DEF Spec

--------------------------------------------------------------------------------
(* Where nothing fails, the daemon implements the job queue. *)

Stages == [j \in Jobs |-> StageOf(j)]

\* The two modules count alike.
LEMMA QueueCounts == \A S : Queue!Cardinality(S) = Cardinality(S)
BY DEF Queue!Cardinality, Cardinality

\* The stages by what the daemon sees of the registry.
LEMMA StageOfView ==
  ASSUME IInv, NEW j \in Jobs
  PROVE  /\ View[j] \in Entry
         /\ View[j].st = "queued" <=> Stages[j] = "queued"
         /\ View[j].st = "running" <=> Stages[j] = "running"
         /\ View[j].st \in Terminal <=> Stages[j] = "finished"
         /\ View[j].st = "absent" /\ j <= issued <=> Stages[j] = "removed"
         /\ View[j].st = "absent" /\ j > issued <=> Stages[j] = "unborn"
         /\ j > issued => Stages[j] = "unborn"
<1>1. View[j] \in Entry /\ issued \in Nat /\ j \in Nat
  BY DEF View, IInv, TypeOK, RegistryTypeOK, Registry, Jobs
<1>2. j > issued => View[j].st = "absent"
  BY <1>1 DEF View, IInv, UnissuedAbsent, LoadedIsCurrent, Absent, EntryOf
<1>3. Stages[j] = StageOf(j)
  BY DEF Stages
<1> QED BY <1>1, <1>2, <1>3 DEF StageOf, Entry, Status, Terminal

\* A step that changes no entry changes no stage.
LEMMA QuietQueue ==
  ASSUME \A j \in Jobs : View'[j] = View[j], issued' = issued
  PROVE  Stages' = Stages
BY DEF Stages, StageOf, Jobs

\* check_jobs, and the end of a shell run, finish running jobs.
LEMMA QueueFinish ==
  ASSUME IInv, IInv', issued' = issued,
         NEW ended \in SUBSET Jobs,
         \A j \in ended : View[j].st = "running" /\ View'[j].st \in Terminal,
         \A j \in Jobs \ ended : View'[j] = View[j]
  PROVE  Queue!Next
<1>1. \A j \in ended : Stages[j] = "running" /\ Stages'[j] = "finished"
  BY StageOfView DEF Stages, StageOf, Terminal
<1>2. \A j \in Jobs \ ended : Stages'[j] = Stages[j]
  BY DEF Stages, StageOf
<1>3. Stages' = [j \in Jobs |-> IF j \in ended THEN "finished" ELSE Stages[j]]
  BY <1>1, <1>2 DEF Stages
<1>4. Queue!Finish(ended)
  BY <1>1, <1>3 DEF Queue!Finish, Queue!At, Stages, Jobs
<1> QED BY <1>4 DEF Queue!Next, Jobs

LEMMA QueueRemove ==
  ASSUME IInv, NoFaults, CleanupOldEntries
  PROVE  Queue!Next
<1>1. PICK old \in SUBSET {j \in Jobs : entries[j].st \in Terminal} :
        SaveAndUnlock([j \in Jobs |-> IF j \in old THEN Absent ELSE entries[j]])
  BY DEF CleanupOldEntries
<1>2. /\ \A j \in Jobs : View[j] = entries[j]
      /\ \A j \in Jobs : View'[j] = IF j \in old THEN Absent ELSE View[j]
      /\ issued' = issued
  BY <1>1, ViewIsFile DEF CleanupOldEntries, SaveAndUnlock, View, NoFaults
<1>3. \A j \in old : Stages[j] = "finished" /\ j <= issued
  <2> SUFFICES ASSUME NEW j \in old PROVE Stages[j] = "finished" /\ j <= issued
    OBVIOUS
  <2>1. j \in Jobs /\ View[j].st \in Terminal
    BY <1>2
  <2>2. issued \in Nat /\ j \in Nat
    BY <2>1 DEF IInv, TypeOK, RegistryTypeOK, Jobs
  <2> QED BY <2>1, <2>2, StageOfView
<1>4. \A j \in Jobs : Stages'[j] = IF j \in old THEN "removed" ELSE Stages[j]
  <2> SUFFICES ASSUME NEW j \in Jobs
               PROVE  Stages'[j] = IF j \in old THEN "removed" ELSE Stages[j]
    OBVIOUS
  <2>1. CASE j \in old
    <3>1. View'[j].st = "absent" /\ j <= issued'
      BY <1>2, <1>3, <2>1 DEF Absent, EntryOf
    <3> QED BY <2>1, <3>1 DEF Stages, StageOf, Terminal
  <2>2. CASE j \notin old
    BY <1>2, <2>2 DEF Stages, StageOf
  <2> QED BY <2>1, <2>2
<1>5. Stages' = [j \in Jobs |-> IF j \in old THEN "removed" ELSE Stages[j]]
  BY <1>4 DEF Stages
<1>6. Queue!Remove(old)
  BY <1>3, <1>5 DEF Queue!Remove, Queue!At, Stages, Jobs
<1> QED BY <1>6 DEF Queue!Next, Jobs

LEMMA QueueDispatch ==
  ASSUME IInv, NEW p \in Pids, DispatchOne(p)
  PROVE  Queue!Next
<1> DEFINE j == FirstQueued(entries)
<1>1. /\ j \in Jobs /\ entries[j].st = "queued"
      /\ \A i \in Queued(entries) : j <= i
  BY FirstQueuedIsOldest DEF DispatchOne, CanDispatch, Queued
<1>2. /\ View = entries /\ View' = [entries EXCEPT ![j] = RunningAs(p)]
      /\ issued' = issued /\ entries \in Registry
      /\ MaxConcurrent > 0 => Cardinality(Running(entries)) < MaxConcurrent
  BY DEF DispatchOne, View, CanDispatch, UnderLimit, IInv, TypeOK
<1> HIDE DEF j
<1>3. Stages[j] = "queued"
  BY <1>1, <1>2, StageOfView
<1>4. Queue!At("queued") = Queued(entries)
  BY <1>2, StageOfView DEF Queue!At, Queued, Stages, Jobs
<1>5. Queue!At("running") = Running(entries)
  BY <1>2, StageOfView DEF Queue!At, Running, Stages, Jobs
<1>6. \A i \in Jobs : Stages'[i] = IF i = j THEN "running" ELSE Stages[i]
  BY <1>1, <1>2 DEF Stages, StageOf, RunningAs, Registry, Terminal
<1>7. Stages' = [Stages EXCEPT ![j] = "running"]
  BY <1>6 DEF Stages
<1>8. Queue!Dispatch(j)
  BY <1>1, <1>2, <1>3, <1>4, <1>5, <1>7, QueueCounts DEF Queue!Dispatch, Stages
<1> QED BY <1>1, <1>8 DEF Queue!Next, Jobs

LEMMA QueueJoin ==
  ASSUME IInv, NEW p \in Pids, CmdStart(p), UNCHANGED daemonVars
  PROVE  Queue!Next
<1> DEFINE j == issued + 1
<1>1. /\ j \in Jobs /\ issued \in Nat /\ issued' = j
      /\ View = file /\ View' = [file EXCEPT ![j] = RunningAs(p)] /\ file \in Registry
  BY RegistryAssumption
  DEF CmdStart, View, daemonVars, Jobs, IInv, TypeOK, RegistryTypeOK
<1>2. Stages[j] = "unborn" /\ \A i \in 1..(j - 1) : i \in Jobs /\ Stages[i] # "unborn"
  <2>1. j > issued /\ \A i \in 1..(j - 1) : i \in Jobs /\ i <= issued /\ ~(i > issued)
    BY <1>1, RegistryAssumption DEF Jobs
  <2>2. Stages[j] = "unborn"
    BY <1>1, <2>1, StageOfView
  <2>3. ASSUME NEW i \in 1..(j - 1) PROVE i \in Jobs /\ Stages[i] # "unborn"
    BY <2>1, StageOfView
  <2> HIDE DEF j
  <2> QED BY <2>2, <2>3
<1>3. \A i \in Jobs : i <= issued \/ i > j \/ i = j
  BY <1>1 DEF Jobs
<1>4. \A i \in Jobs : Stages'[i] = IF i = j THEN "running" ELSE Stages[i]
  <2> SUFFICES ASSUME NEW i \in Jobs
               PROVE  Stages'[i] = IF i = j THEN "running" ELSE Stages[i]
    OBVIOUS
  <2>1. CASE i = j
    BY <1>1, <2>1 DEF Stages, StageOf, RunningAs, Registry, Terminal
  <2>2. CASE i # j
    <3>1. View'[i] = View[i] /\ (i <= issued' <=> i <= issued)
      BY <1>1, <2>2 DEF Registry, Jobs
    <3> QED BY <2>2, <3>1 DEF Stages, StageOf
  <2> QED BY <2>1, <2>2
<1>5. Stages' = [Stages EXCEPT ![j] = "running"]
  BY <1>4 DEF Stages
<1>6. Queue!Join(j)
  BY <1>2, <1>5 DEF Queue!Join, Stages
<1> QED BY <1>1, <1>6 DEF Queue!Next, Jobs

LEMMA QueueStep ==
  ASSUME NoFaults, IInv, [Next]_vars
  PROVE  Queue!Next \/ Stages' = Stages
<1> USE DEF IInv, TypeOK, RegistryTypeOK, Registry
<1>1. IInv'
  BY InvStep
<1>2. CASE LockAndLoad \/ DispatchDone \/ Restart \/ UNCHANGED vars
  <2>1. issued' = issued /\ \A j \in Jobs : View'[j] = View[j]
    BY <1>2
    DEF LockAndLoad, DispatchDone, Restart, SaveAndUnlock, View, vars, registryVars,
        daemonVars, NoFaults, LoadedIsCurrent
  <2> QED BY <2>1, QuietQueue
<1>3. CASE CheckJobs
  <2>1. /\ \A j \in Jobs : View[j] = entries[j]
        /\ \A j \in Jobs : View'[j] = IF j \in DeadJobs THEN EntryOf(Verdict(j)) ELSE entries[j]
        /\ issued' = issued /\ DeadJobs \subseteq Running(entries)
    BY <1>3, ViewIsFile DEF CheckJobs, SaveAndUnlock, View, NoFaults, DeadJobs
  <2>2. \A j \in DeadJobs : View[j].st = "running" /\ View'[j].st \in Terminal
    <3> SUFFICES ASSUME NEW j \in DeadJobs
                 PROVE  View[j].st = "running" /\ View'[j].st \in Terminal
      OBVIOUS
    <3>1. j \in Jobs /\ entries[j].st = "running"
      BY <2>1 DEF Running
    <3>2. View[j] = entries[j] /\ View'[j] = EntryOf(Verdict(j))
      BY <2>1, <3>1
    <3> QED BY <3>1, <3>2, VerdictIsTerminal DEF EntryOf
  <2>3. DeadJobs \in SUBSET Jobs /\ \A j \in Jobs \ DeadJobs : View'[j] = View[j]
    BY <2>1 DEF DeadJobs, Running
  <2> QED BY <1>1, <2>1, <2>2, <2>3, QueueFinish
<1>4. ASSUME NEW p \in Pids, ProcessStep(p), UNCHANGED daemonVars PROVE Stages' = Stages
  <2>1. issued' = issued /\ View' = View
    BY <1>4 DEF ProcessStep, ProcExit, ProcKilled, View, daemonVars
  <2> QED BY <2>1, QuietQueue
<1>5. ASSUME NEW p \in Pids, CmdFinish(p), UNCHANGED daemonVars PROVE Queue!Next
  <2> DEFINE j == proc[p].job
  <2>1. /\ j \in Jobs /\ View = file /\ View' = file' /\ file[j].st = "running"
        /\ issued' = issued
    <3>1. /\ Live(p) /\ proc[p].parent = "shell" /\ issued' = issued
          /\ View = file /\ View' = file'
      BY <1>5 DEF CmdFinish, View, daemonVars
    <3>2. j \in Jobs /\ file[j] = RunningAs(p)
      BY <3>1 DEF ProcessHasJob, ShellIsTracked
    <3> QED BY <3>1, <3>2 DEF RunningAs
  <2>2. \E st \in {"success", "failed"} : file' = [file EXCEPT ![j] = EntryOf(st)]
    BY <1>5, <2>1 DEF CmdFinish
  <2> HIDE DEF j
  <2>3. file'[j].st \in Terminal /\ \A i \in Jobs \ {j} : file'[i] = file[i]
    BY <2>1, <2>2 DEF EntryOf, Terminal
  <2>4. {j} \in SUBSET Jobs
    BY <2>1
  <2>5. /\ \A i \in {j} : View[i].st = "running" /\ View'[i].st \in Terminal
        /\ \A i \in Jobs \ {j} : View'[i] = View[i]
    BY <2>1, <2>3
  <2>6. IInv
    OBVIOUS
  <2> QED BY ONLY <1>1, <2>1, <2>4, <2>5, <2>6, QueueFinish
<1>6. ~DispatchRaises /\ ~Crash
  BY DEF DispatchRaises, Crash, NoFaults
<1> QED
  BY <1>2, <1>3, <1>4, <1>5, <1>6, QueueRemove, QueueDispatch, QueueJoin
  DEF Next, DaemonStep, ShellStep

LEMMA QueueInit == Init => Queue!Init
<1> SUFFICES ASSUME Init PROVE Queue!Init
  OBVIOUS
<1>1. \A j \in Jobs : Stages[j] = IF j <= issued THEN "queued" ELSE "unborn"
  BY DEF Init, Stages, StageOf, View, EntryOf, Terminal
<1>2. Stages \in [1..NumJobs -> {"unborn", "queued"}]
  BY <1>1 DEF Stages, Jobs
<1>3. \A i, j \in 1..NumJobs : i < j /\ Stages[j] = "queued" => Stages[i] = "queued"
  BY <1>1, RegistryAssumption DEF Jobs, Init
<1> QED BY <1>2, <1>3 DEF Queue!Init, Stages

\* Where nothing fails, the file, the lock and the processes amount to a queue that
\* starts jobs in order, once, within the limit, and keeps what has finished.
THEOREM ImplementsQueueThm == ASSUME NoFaults PROVE Spec => ImplementsQueue
<1>1. IInv /\ [Next]_vars => [Queue!Next]_Stages
  BY QueueStep
<1> QED BY <1>1, QueueInit, Invariance, PTL DEF Spec, ImplementsQueue, Queue!Spec, Stages
================================================================================
