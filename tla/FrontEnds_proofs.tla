---------------------------- MODULE FrontEnds_proofs ----------------------------
(***************************************************************************)
(* What holds of the front ends for every number of jobs, every set of     *)
(* process ids and every MAX_CONCURRENT_JOBS.                              *)
(*                                                                         *)
(* The first part is about all the writers of gniza-jobs.json at once: the *)
(* daemon, any number of request threads of the dashboard, the text UI and *)
(* backups run from a shell, under every fault.  They lose each other's    *)
(* updates, so a job may run twice and a finished entry may be reopened;   *)
(* what no order of their steps breaks is here.  The second part is about  *)
(* a dashboard of any number of threads whose requests happen not to       *)
(* overlap and in which no start and no save fails: beside the daemon it   *)
(* keeps track of what it runs, and without the daemon its registry is     *)
(* exact.                                                                  *)
(***************************************************************************)
EXTENDS TuiJobs, DaemonJobs_proofs

\* Every writer of the registry.
WritersNext ==
  \/ WebNext /\ UNCHANGED tuiVars
  \/ TuiNext
  \/ \E p \in Pids : ShellStep(p) /\ UNCHANGED <<daemonVars, webVars, tuiVars>>

WritersSpec == TuiInit /\ [][WritersNext]_writersVars

--------------------------------------------------------------------------------
(* The inductive invariant of all writers. *)

\* An entry of job j that belongs to the processes ps and the n ids handed out: the job
\* exists, and a process the entry names was started for it.
Fits(e, j, ps, n) ==
  /\ e.st # "absent" => j <= n
  /\ e.st = "running" /\ e.pid # NoPid =>
       e.pid \in Pids /\ ps[e.pid].st # "free" /\ ps[e.pid].job = j

\* The copies of the registry that the daemon and the dashboard hold.
CopiesFit ==
  \A j \in Jobs :
    /\ Fits(file[j], j, proc, issued)
    /\ Fits(entries[j], j, proc, issued)
    /\ Fits(jobs[j], j, proc, issued)
    /\ \A t \in Threads : Fits(wjobs[t][j], j, proc, issued)

WebInv == WebTypeOK /\ CopiesFit

LiveTui(ps, p) == ps[p].st = "live" /\ ps[p].parent = "tui"

\* A job whose task starts or watches a process of the session.
Slots(dict) == {j \in Jobs : dict[j].task \in {"new", "tail"}}

\* The text UI knows its running processes by the task that watches them ...
Watched(dict, ps) ==
  \A p \in Pids : LiveTui(ps, p) =>
    /\ ps[p].job \in Jobs
    /\ dict[ps[p].job].st = "running"
    /\ dict[ps[p].job].pid = p
    /\ dict[ps[p].job].task = "tail"

\* ... and its tasks are for running jobs, within the limit.
Tasked(dict) ==
  /\ \A j \in Jobs : dict[j].task \in {"new", "tail", "follow"} => dict[j].st = "running"
  /\ \A j \in Jobs : dict[j].task = "tail" => dict[j].pid \in Pids
  /\ MaxConcurrent > 0 => Cardinality(Slots(dict)) <= MaxConcurrent

DictInv(dict, ps, n) ==
  /\ dict \in [Jobs -> TuiJob]
  /\ \A j \in Jobs : Fits(dict[j], j, ps, n)
  /\ Watched(dict, ps)
  /\ Tasked(dict)

\* A closed text UI has no jobs.
ClosedIsEmpty == ~open => \A j \in Jobs : tui[j] = Unknown

WritersInv == WebInv /\ open \in BOOLEAN /\ DictInv(tui, proc, issued) /\ ClosedIsEmpty

\* What every step keeps: a process that was started keeps its job, a job id stays
\* handed out.
ProcessesKeep ==
  /\ issued \in Nat /\ issued' \in Nat /\ issued <= issued'
  /\ \A p \in Pids : proc[p].st # "free" =>
       proc'[p].st # "free" /\ proc'[p].job = proc[p].job

\* What every step beside the text UI keeps.
Beside ==
  /\ ProcessesKeep
  /\ \A p \in Pids : LiveTui(proc', p) => LiveTui(proc, p) /\ proc'[p].job = proc[p].job

--------------------------------------------------------------------------------
(* Facts about the operators. *)

LEMMA JobsFinite == IsFiniteSet(Jobs) /\ \A S \in SUBSET Jobs : IsFiniteSet(S) /\ Cardinality(S) \in Nat
<1>1. IsFiniteSet(Jobs)
  BY FS_Interval, RegistryAssumption DEF Jobs
<1> QED BY <1>1, FS_Subset, FS_CardinalityType

\* An entry goes on fitting.
LEMMA FitsKept ==
  ASSUME ProcessesKeep, NEW e, NEW j \in Jobs, Fits(e, j, proc, issued)
  PROVE  Fits(e, j, proc', issued')
<1>1. e.st # "absent" => j <= issued'
  BY DEF Fits, ProcessesKeep, Jobs
<1> QED BY <1>1 DEF Fits, ProcessesKeep

\* The entries the operations write fit.
LEMMA FitsNew ==
  ASSUME NEW j \in Jobs, NEW ps, NEW n
  PROVE  /\ Fits(Absent, j, ps, n)
         /\ Fits(Unknown, j, ps, n)
         /\ \A st \in Status, task \in TuiTask : j <= n /\ st # "running" =>
              Fits(EntryOf(st), j, ps, n) /\ Fits(TuiJobOf(EntryOf(st), task), j, ps, n)
         /\ \A p \in Pids, task \in TuiTask : j <= n /\ ps[p].st # "free" /\ ps[p].job = j =>
              Fits(RunningAs(p), j, ps, n) /\ Fits(TuiJobOf(RunningAs(p), task), j, ps, n)
         /\ \A task \in TuiTask : j <= n => Fits(TuiJobOf(RunningAs(NoPid), task), j, ps, n)
BY DEF Fits, Absent, Unknown, EntryOf, RunningAs, TuiJobOf

\* A non-empty set of jobs has a last one.
LEMMA LastJob ==
  ASSUME NEW S \in SUBSET Jobs, S # {}
  PROVE  \E m \in S : \A n \in S : n <= m
<1> DEFINE Bounds == {b \in Nat : \A n \in S : n <= b}
<1>1. S \in SUBSET Nat /\ NumJobs \in Bounds
  BY RegistryAssumption DEF Jobs
<1>2. PICK m \in Bounds : \A b \in Bounds : m <= b
  BY <1>1, LeastNatural
<1>3. m \in S
  <2>1. SUFFICES ASSUME m \notin S PROVE FALSE
    OBVIOUS
  <2>2. PICK x \in S : TRUE
    OBVIOUS
  <2>3. \A n \in S : n \in Nat /\ n >= 1 /\ n <= m /\ n # m
    BY <2>1 DEF Jobs
  <2>4. m - 1 \in Nat /\ \A n \in S : n <= m - 1
    BY <2>2, <2>3
  <2> QED BY <1>2, <2>4
<1> QED BY <1>2, <1>3

\* Jobs of a queue with fewer than k of the queue before them are at most k.
LEMMA FirstOfQueue ==
  ASSUME NEW Q \in SUBSET Jobs, NEW S \in SUBSET Q, NEW k \in Nat,
         \A j \in S : Cardinality({i \in Q : i < j}) < k
  PROVE  Cardinality(S) <= k
<1>1. CASE S = {}
  BY <1>1, FS_EmptySet
<1>2. CASE S # {}
  <2>1. PICK m \in S : \A n \in S : n <= m
    BY <1>2, LastJob
  <2> DEFINE B == {i \in Q : i < m}
  <2>2. IsFiniteSet(B) /\ Cardinality(B) \in Nat /\ Cardinality(B) < k
    BY <2>1, JobsFinite
  <2>3. S \subseteq B \union {m}
    BY <2>1 DEF Jobs
  <2>4. m \notin B
    BY DEF Jobs
  <2> HIDE DEF B
  <2>5. IsFiniteSet(B \union {m}) /\ Cardinality(B \union {m}) = Cardinality(B) + 1
    BY <2>2, <2>4, FS_AddElement
  <2>6. Cardinality(S) <= Cardinality(B \union {m}) /\ Cardinality(S) \in Nat
    BY <2>3, <2>5, FS_Subset, FS_CardinalityType
  <2> QED BY <2>2, <2>5, <2>6
<1> QED BY <1>1, <1>2

\* _save_registry of the text UI writes entries, which fit if the dictionary does.
LEMMA ImageFits ==
  ASSUME NEW dict \in [Jobs -> TuiJob], NEW ps, NEW n,
         \A j \in Jobs : Fits(dict[j], j, ps, n)
  PROVE  /\ Image(dict) \in Registry
         /\ \A j \in Jobs : Fits(Image(dict)[j], j, ps, n)
<1>1. \A j \in Jobs : Image(dict)[j] \in Entry
  BY DEF Image, TuiJob, Entry, EntryOf, RunningAs
<1>2. \A j \in Jobs : Fits(Image(dict)[j], j, ps, n)
  BY DEF Image, Fits, EntryOf, RunningAs
<1> QED BY <1>1, <1>2 DEF Image, Registry

\* _dispatch_queue gives queued jobs a task, and changes nothing else.
LEMMA DispatchedShape ==
  ASSUME NEW dict \in [Jobs -> TuiJob]
  PROVE  /\ Dispatched(dict) \in [Jobs -> TuiJob]
         /\ \A j \in Jobs :
              \/ Dispatched(dict)[j] = dict[j]
              \/ /\ dict[j].st = "queued"
                 /\ Dispatched(dict)[j] = TuiJobOf(RunningAs(NoPid), "new")
<1>1. TuiJobOf(RunningAs(NoPid), "new") \in TuiJob
  BY DEF TuiJobOf, RunningAs, TuiJob, Status, TuiTask
<1>2. \A j \in Jobs :
        \/ Dispatched(dict)[j] = dict[j]
        \/ /\ dict[j].st = "queued"
           /\ Dispatched(dict)[j] = TuiJobOf(RunningAs(NoPid), "new")
  BY DEF Dispatched
<1>3. Dispatched(dict) = [j \in Jobs |-> Dispatched(dict)[j]]
  BY DEF Dispatched
<1> QED BY <1>1, <1>2, <1>3

\* It fills free slots only.
LEMMA DispatchedCounts ==
  ASSUME NEW dict \in [Jobs -> TuiJob], Tasked(dict), MaxConcurrent > 0
  PROVE  Cardinality(Slots(Dispatched(dict))) <= MaxConcurrent
<1> DEFINE R == {j \in Jobs : dict[j].st = "running"}
           Q == {j \in Jobs : dict[j].st = "queued"}
           k == MaxConcurrent - Cardinality(R)
           N == {j \in Q : Cardinality(R) + Cardinality({i \in Q : i < j}) < MaxConcurrent}
           T == Slots(dict)
<1>1. /\ IsFiniteSet(R) /\ Cardinality(R) \in Nat
      /\ IsFiniteSet(T) /\ Cardinality(T) \in Nat
      /\ IsFiniteSet(N) /\ Cardinality(N) \in Nat
  BY JobsFinite DEF Slots
<1>2. T \subseteq R /\ T \cap N = {}
  BY DEF Tasked, Slots
<1>3. Slots(Dispatched(dict)) \subseteq T \union N
  <2> SUFFICES ASSUME NEW j \in Slots(Dispatched(dict)), j \notin T PROVE j \in N
    OBVIOUS
  <2>1. j \in Jobs /\ Dispatched(dict)[j].task \in {"new", "tail"}
    BY DEF Slots
  <2>2. Dispatched(dict)[j] # dict[j]
    BY <2>1 DEF Slots
  <2>3. {i \in Jobs : i < j /\ dict[i].st = "queued"} = {i \in Q : i < j}
    OBVIOUS
  <2> QED BY <2>1, <2>2, <2>3 DEF Dispatched
<1>4. CASE N = {}
  <2>1. Slots(Dispatched(dict)) \subseteq T
    BY <1>3, <1>4
  <2>2. Cardinality(Slots(Dispatched(dict))) <= Cardinality(T)
    BY <1>1, <2>1, FS_Subset
  <2>3. Cardinality(Slots(Dispatched(dict))) \in Nat
    BY JobsFinite DEF Slots
  <2> QED BY <1>1, <2>2, <2>3, RegistryAssumption DEF Tasked
<1>5. CASE N # {}
  <2>1. \A j \in Jobs : Cardinality({i \in Q : i < j}) \in Nat
    BY JobsFinite
  <2>2. k \in Nat /\ \A j \in N : Cardinality({i \in Q : i < j}) < k
    <3>1. ASSUME NEW j \in N
          PROVE  k \in Nat /\ Cardinality({i \in Q : i < j}) < k
      <4>1. Cardinality({i \in Q : i < j}) \in Nat
        BY <2>1
      <4>2. Cardinality(R) + Cardinality({i \in Q : i < j}) < MaxConcurrent
        OBVIOUS
      <4> DEFINE c == Cardinality({i \in Q : i < j})
      <4> HIDE DEF R, Q, N, c
      <4> QED BY <1>1, <4>1, <4>2, RegistryAssumption DEF c
    <3> HIDE DEF R, Q, N, k
    <3> QED BY <1>5, <3>1
  <2>3. Q \in SUBSET Jobs /\ N \in SUBSET Q
    OBVIOUS
  <2>4. Cardinality(N) <= k
    <3> HIDE DEF Q, N, k
    <3> QED BY <2>2, <2>3, FirstOfQueue
  <2>5. Cardinality(T) <= Cardinality(R)
    BY <1>1, <1>2, FS_Subset
  <2>6. /\ IsFiniteSet(T \union N)
        /\ Cardinality(T \union N) = Cardinality(T) + Cardinality(N) - Cardinality(T \cap N)
    <3> HIDE DEF T, N
    <3> QED BY <1>1, FS_Union
  <2>7. Cardinality(T \cap N) = 0
    BY <1>2, FS_EmptySet
  <2>8. Cardinality(Slots(Dispatched(dict))) <= Cardinality(T \union N)
    BY <1>3, <2>6, FS_Subset
  <2>9. Cardinality(Slots(Dispatched(dict))) \in Nat
    BY JobsFinite DEF Slots
  <2> HIDE DEF R, T, N
  <2> QED BY <1>1, <2>2, <2>4, <2>5, <2>6, <2>7, <2>8, <2>9, RegistryAssumption
<1> QED BY <1>4, <1>5

LEMMA DispatchedInv ==
  ASSUME NEW dict, NEW ps, NEW n, DictInv(dict, ps, n)
  PROVE  DictInv(Dispatched(dict), ps, n)
<1> DEFINE d == Dispatched(dict)
           new == TuiJobOf(RunningAs(NoPid), "new")
<1> dict \in [Jobs -> TuiJob]
  BY DEF DictInv
<1>1. /\ d \in [Jobs -> TuiJob]
      /\ \A j \in Jobs : d[j] = dict[j] \/ (dict[j].st = "queued" /\ d[j] = new)
  BY DispatchedShape
<1>2. new.st = "running" /\ new.pid = NoPid /\ new.task = "new"
  BY DEF TuiJobOf, RunningAs
<1> HIDE DEF d, new
<1>3. \A j \in Jobs : Fits(d[j], j, ps, n)
  BY <1>1, <1>2 DEF DictInv, Fits
<1>4. Watched(d, ps)
  BY <1>1 DEF DictInv, Watched
<1>5. Tasked(d)
  <2>1. MaxConcurrent > 0 => Cardinality(Slots(d)) <= MaxConcurrent
    BY DispatchedCounts DEF DictInv, d
  <2> QED BY <1>1, <1>2, <2>1 DEF DictInv, Tasked
<1> QED BY <1>1, <1>3, <1>4, <1>5 DEF DictInv, d

\* A change of the dictionary that keeps the jobs of running processes as they are, and
\* gives no other job a task that starts or watches one.
LEMMA DictKept ==
  ASSUME NEW dict, NEW ps, NEW n, DictInv(dict, ps, n),
         NEW ps2, NEW n2, NEW dict2 \in [Jobs -> TuiJob],
         \A j \in Jobs : Fits(dict2[j], j, ps2, n2),
         \A p \in Pids : LiveTui(ps2, p) =>
            /\ LiveTui(ps, p)
            /\ ps2[p].job = ps[p].job
            /\ dict2[ps[p].job] = dict[ps[p].job],
         \A j \in Jobs :
            \/ dict2[j] = dict[j]
            \/ /\ dict2[j].task \notin {"new", "tail"}
               /\ dict2[j].task = "follow" => dict2[j].st = "running"
  PROVE  DictInv(dict2, ps2, n2)
<1>1. Watched(dict2, ps2)
  BY DEF DictInv, Watched
<1>2. Slots(dict2) \subseteq Slots(dict)
  BY DEF Slots
<1>3. Cardinality(Slots(dict2)) <= Cardinality(Slots(dict))
  <2>1. IsFiniteSet(Slots(dict))
    BY JobsFinite DEF Slots
  <2> QED BY <1>2, <2>1, FS_Subset
<1>4. Cardinality(Slots(dict2)) \in Nat /\ Cardinality(Slots(dict)) \in Nat
  BY JobsFinite DEF Slots
<1>5. Tasked(dict2)
  BY <1>3, <1>4, RegistryAssumption DEF DictInv, Tasked
<1> QED BY <1>1, <1>5 DEF DictInv

\* A step beside the text UI keeps its dictionary in order.
LEMMA BesideInv ==
  ASSUME WritersInv, Beside, WebInv', UNCHANGED tuiVars
  PROVE  WritersInv'
<1>1. \A j \in Jobs : Fits(tui[j], j, proc', issued')
  BY FitsKept DEF WritersInv, DictInv, Beside
<1>2. DictInv(tui, proc', issued')
  BY <1>1, DictKept DEF WritersInv, DictInv, Beside
<1> QED BY <1>2 DEF WritersInv, ClosedIsEmpty, tuiVars, DictInv, Watched, Tasked, Slots

--------------------------------------------------------------------------------
(* The steps of the others, which the text UI is not part of. *)

\* A process that ends, or that somebody waits for.
LEMMA EndKeeps ==
  ASSUME TypeOK, issued' = issued,
         \A p \in Pids :
            /\ proc'[p].job = proc[p].job
            /\ proc[p].st # "free" => proc'[p].st # "free"
            /\ proc'[p].st = "live" => proc[p].st = "live"
            /\ proc'[p].parent = "tui" => proc[p].parent = "tui"
  PROVE  Beside
BY DEF Beside, ProcessesKeep, LiveTui, TypeOK, RegistryTypeOK

\* A process that starts for a job, with or without a new job id.
LEMMA StartKeeps ==
  ASSUME TypeOK, issued' \in {issued, issued + 1},
         NEW p \in Pids, Free(p), NEW j \in Jobs, NEW owner \in Owner \ {"tui"},
         proc' = Started(p, j, owner)
  PROVE  Beside /\ proc'[p].st # "free" /\ proc'[p].job = j
<1>1. /\ \A q \in Pids : q # p => proc'[q] = proc[q]
      /\ proc'[p] = [st |-> "live", job |-> j, parent |-> owner, exit |-> "none"]
  BY DEF Started, TypeOK, RegistryTypeOK
<1>2. issued \in Nat /\ issued' \in Nat /\ issued <= issued'
  BY DEF TypeOK, RegistryTypeOK
<1> QED BY <1>1, <1>2 DEF Beside, ProcessesKeep, LiveTui, Free

\* A step of the others that leaves the dashboard alone.
LEMMA OthersInv ==
  ASSUME WebInv, Beside, TypeOK', UNCHANGED webVars,
         \A j \in Jobs : Fits(file'[j], j, proc', issued') /\ Fits(entries'[j], j, proc', issued')
  PROVE  WebInv' /\ Beside
<1>1. \A j \in Jobs : Fits(jobs[j], j, proc', issued')
  BY FitsKept DEF WebInv, CopiesFit, Beside
<1>2. \A t \in Threads : \A j \in Jobs : Fits(wjobs[t][j], j, proc', issued')
  BY FitsKept DEF WebInv, CopiesFit, Beside
<1>3. CopiesFit'
  BY <1>1, <1>2 DEF CopiesFit, webVars
<1>4. WebTypeOK'
  BY DEF WebInv, WebTypeOK, webVars
<1> QED BY <1>3, <1>4 DEF WebInv

LEMMA DaemonInv ==
  ASSUME WebInv, DaemonStep \/ Crash, UNCHANGED webVars
  PROVE  WebInv' /\ Beside
<1>1. TypeOK /\ TypeOK'
  BY TypeStep DEF WebInv, WebTypeOK, Next
<1>2. \A j \in Jobs : Fits(file[j], j, proc, issued) /\ Fits(entries[j], j, proc, issued)
  BY DEF WebInv, CopiesFit
<1>3. \A j \in Jobs : Fits(NoEntries[j], j, proc', issued')
  BY FitsNew DEF NoEntries
<1>4. ASSUME Beside,
             \A j \in Jobs : Fits(file'[j], j, proc', issued') /\ Fits(entries'[j], j, proc', issued')
      PROVE  WebInv' /\ Beside
  BY <1>1, <1>4, OthersInv
<1>5. ASSUME NEW new, SaveAndUnlock(new), Beside,
             \A j \in Jobs : Fits(new[j], j, proc', issued')
      PROVE  WebInv' /\ Beside
  <2>1. \A j \in Jobs : Fits(file[j], j, proc', issued')
    BY <1>2, <1>5, FitsKept DEF Beside
  <2> QED BY <1>3, <1>4, <1>5, <2>1 DEF SaveAndUnlock
<1>6. ASSUME issued' = issued, proc' = proc PROVE Beside
  BY <1>1, <1>6, EndKeeps
<1>7. CASE LockAndLoad \/ DispatchRaises \/ Restart
  <2>1. /\ proc' = proc /\ issued' = issued /\ file' = file
        /\ entries' \in {file, entries, NoEntries}
    BY <1>7 DEF LockAndLoad, DispatchRaises, Restart, registryVars
  <2> QED BY <1>2, <1>3, <1>4, <1>6, <2>1
<1>8. CASE CheckJobs
  <2> DEFINE new == [j \in Jobs |-> IF j \in DeadJobs THEN EntryOf(Verdict(j)) ELSE entries[j]]
  <2>1. SaveAndUnlock(new) /\ issued' = issued
    BY <1>8 DEF CheckJobs
  <2>2. \A p \in Pids : proc'[p] = proc[p] \/ (Reapable(p) /\ proc'[p] = [proc[p] EXCEPT !.st = "gone"])
    BY <1>8 DEF CheckJobs
  <2>3. Beside
    <3>1. ASSUME NEW p \in Pids
          PROVE  /\ proc'[p].job = proc[p].job /\ proc'[p].parent = proc[p].parent
                 /\ proc[p].st # "free" => proc'[p].st # "free"
                 /\ proc'[p].st = "live" => proc[p].st = "live"
      BY <1>1, <2>2 DEF TypeOK, RegistryTypeOK, Process, Reapable
    <3> QED BY <1>1, <2>1, <3>1, EndKeeps
  <2>4. ASSUME NEW j \in Jobs PROVE Fits(new[j], j, proc', issued')
    <3>1. CASE j \in DeadJobs
      <4>1. j <= issued'
        BY <1>2, <2>1, <3>1 DEF DeadJobs, Running, Fits
      <4>2. Verdict(j) \in Status /\ Verdict(j) # "running"
        BY VerdictIsTerminal DEF Status, Terminal
      <4>3. Fits(EntryOf(Verdict(j)), j, proc', issued')
        BY <4>1, <4>2, FitsNew DEF TuiTask
      <4> QED BY <3>1, <4>3
    <3>2. CASE j \notin DeadJobs
      BY <1>2, <2>3, <3>2, FitsKept DEF Beside
    <3> QED BY <3>1, <3>2
  <2> HIDE DEF new
  <2> QED BY <1>5, <2>1, <2>3, <2>4
<1>9. ASSUME NEW p \in Pids, DispatchOne(p) PROVE WebInv' /\ Beside
  <2> DEFINE j == FirstQueued(entries)
  <2>1. j \in Jobs /\ entries[j].st = "queued"
    BY <1>9, FirstQueuedIsOldest DEF DispatchOne, CanDispatch, Queued
  <2>2. /\ Free(p) /\ proc' = Started(p, j, "daemon") /\ issued' = issued /\ file' = file
        /\ entries' = [entries EXCEPT ![j] = RunningAs(p)]
    BY <1>9 DEF DispatchOne
  <2> HIDE DEF j
  <2>3. Beside /\ proc'[p].st # "free" /\ proc'[p].job = j
    BY <1>1, <2>1, <2>2, StartKeeps DEF Owner
  <2>4. \A i \in Jobs : Fits(entries[i], i, proc', issued') /\ Fits(file[i], i, proc', issued')
    BY <1>2, <2>3, FitsKept DEF Beside
  <2>5. j <= issued'
    BY <1>2, <2>1, <2>2 DEF Fits
  <2>6. Fits(RunningAs(p), j, proc', issued')
    BY <2>1, <2>3, <2>5, FitsNew DEF TuiTask
  <2>7. \A i \in Jobs : Fits(entries'[i], i, proc', issued')
    BY <1>1, <2>1, <2>2, <2>4, <2>6 DEF TypeOK, Registry
  <2> QED BY <1>4, <2>2, <2>3, <2>4, <2>7
<1>10. CASE DispatchDone
  <2>1. SaveAndUnlock(entries) /\ issued' = issued /\ proc' = proc
    BY <1>10 DEF DispatchDone
  <2> QED BY <1>2, <1>5, <1>6, <2>1
<1>11. CASE CleanupOldEntries
  <2>1. PICK old \in SUBSET Jobs :
          SaveAndUnlock([j \in Jobs |-> IF j \in old THEN Absent ELSE entries[j]])
    BY <1>11 DEF CleanupOldEntries
  <2> DEFINE new == [j \in Jobs |-> IF j \in old THEN Absent ELSE entries[j]]
  <2>2. issued' = issued /\ proc' = proc
    BY <1>11 DEF CleanupOldEntries
  <2>3. \A j \in Jobs : Fits(new[j], j, proc', issued')
    BY <1>2, <2>2, FitsNew
  <2> HIDE DEF new
  <2> QED BY <1>5, <1>6, <2>1, <2>2, <2>3 DEF new
<1>12. CASE Crash
  <2>1. /\ issued' = issued /\ file' = file /\ entries' = NoEntries
        /\ proc' = [p \in Pids |-> Orphaned(p)]
    BY <1>12 DEF Crash
  <2>2. Beside
    <3>1. ASSUME NEW p \in Pids
          PROVE  /\ proc'[p].job = proc[p].job
                 /\ proc[p].st # "free" => proc'[p].st # "free"
                 /\ proc'[p].st = "live" => proc[p].st = "live"
                 /\ proc'[p].parent = "tui" => proc[p].parent = "tui"
      <4>1. proc'[p] = Orphaned(p) /\ proc[p] \in Process
        BY <1>1, <2>1 DEF TypeOK, RegistryTypeOK
      <4>2. /\ Orphaned(p).job = proc[p].job
            /\ Orphaned(p).st \in {proc[p].st, "gone"}
            /\ Orphaned(p).parent \in {proc[p].parent, "init"}
        BY <4>1 DEF Orphaned, Process
      <4> QED BY <4>1, <4>2
    <3> QED BY <1>1, <2>1, <3>1, EndKeeps
  <2>3. \A j \in Jobs : Fits(file[j], j, proc', issued')
    BY <1>2, <2>2, FitsKept DEF Beside
  <2> QED BY <1>3, <1>4, <2>1, <2>2, <2>3
<1> QED BY <1>7, <1>8, <1>9, <1>10, <1>11, <1>12 DEF DaemonStep

LEMMA ExitBeside ==
  ASSUME TypeOK, NEW p \in Pids, NEW o \in Outcome, Live(p), proc' = Exited(p, o), issued' = issued
  PROVE  Beside
<1>1. \A q \in Pids :
        /\ proc'[q].job = proc[q].job /\ proc'[q].parent = proc[q].parent
        /\ proc[q].st # "free" => proc'[q].st # "free"
        /\ proc'[q].st = "live" => proc[q].st = "live"
  BY DEF Exited, ExitState, Live, TypeOK, RegistryTypeOK, Process
<1> QED BY <1>1, EndKeeps

LEMMA ProcessInv ==
  ASSUME WebInv, NEW p \in Pids, ProcessStep(p), UNCHANGED <<daemonVars, webVars>>
  PROVE  WebInv' /\ Beside
<1>1. TypeOK /\ TypeOK'
  BY TypeStep DEF WebInv, WebTypeOK, Next
<1>2. /\ issued' = issued /\ file' = file /\ entries' = entries /\ Live(p)
      /\ \E o \in Outcome : proc' = Exited(p, o)
  BY DEF ProcessStep, ProcExit, ProcKilled, daemonVars, Outcome
<1>3. Beside
  BY <1>1, <1>2, ExitBeside
<1>4. \A j \in Jobs : Fits(file[j], j, proc', issued') /\ Fits(entries[j], j, proc', issued')
  BY <1>3, FitsKept DEF Beside, WebInv, CopiesFit
<1> QED BY <1>1, <1>2, <1>3, <1>4, OthersInv

LEMMA ShellInv ==
  ASSUME WebInv, NEW p \in Pids, ShellStep(p), UNCHANGED <<daemonVars, webVars>>
  PROVE  WebInv' /\ Beside
<1>1. TypeOK /\ TypeOK'
  BY TypeStep DEF WebInv, WebTypeOK, Next
<1>2. \A j \in Jobs : Fits(file[j], j, proc, issued) /\ Fits(entries[j], j, proc, issued)
  BY DEF WebInv, CopiesFit
<1>3. CASE CmdStart(p)
  <2> DEFINE j == issued + 1
  <2>1. /\ Free(p) /\ proc' = Started(p, j, "shell") /\ issued' = j /\ entries' = entries
        /\ file' = [file EXCEPT ![j] = RunningAs(p)]
    BY <1>3 DEF CmdStart, daemonVars
  <2>2. j \in Jobs
    BY <1>1, <1>3, RegistryAssumption DEF CmdStart, TypeOK, RegistryTypeOK, Jobs
  <2>3. issued' \in {issued, issued + 1}
    BY <2>1
  <2> HIDE DEF j
  <2>4. Beside /\ proc'[p].st # "free" /\ proc'[p].job = j
    BY <1>1, <2>1, <2>2, <2>3, StartKeeps DEF Owner
  <2>5. \A i \in Jobs : Fits(file[i], i, proc', issued') /\ Fits(entries[i], i, proc', issued')
    BY <1>2, <2>4, FitsKept DEF Beside
  <2>6. Fits(RunningAs(p), j, proc', issued')
    <3>1. j <= issued'
      BY <2>1, <2>2 DEF Jobs
    <3> QED BY <2>2, <2>4, <3>1, FitsNew DEF TuiTask
  <2>7. \A i \in Jobs : Fits(file'[i], i, proc', issued')
    BY <1>1, <2>1, <2>2, <2>5, <2>6 DEF TypeOK, RegistryTypeOK, Registry
  <2> QED BY <1>1, <2>1, <2>4, <2>5, <2>7, OthersInv
<1>4. CASE CmdFinish(p)
  <2> DEFINE j == proc[p].job
  <2>1. PICK o \in Outcome :
          /\ proc' = Exited(p, o)
          /\ file' = IF file[j].st = "absent" THEN file
                     ELSE [file EXCEPT ![j] = EntryOf(IF ExitCode(o) = "zero"
                                                      THEN "success" ELSE "failed")]
    BY <1>4 DEF CmdFinish
  <2>2. issued' = issued /\ Live(p) /\ entries' = entries
    BY <1>4 DEF CmdFinish, daemonVars
  <2>3. Beside
    BY <1>1, <2>1, <2>2, ExitBeside
  <2>4. \A i \in Jobs : Fits(file[i], i, proc', issued') /\ Fits(entries[i], i, proc', issued')
    BY <1>2, <2>3, FitsKept DEF Beside
  <2>5. ASSUME NEW i \in Jobs PROVE Fits(file'[i], i, proc', issued')
    <3>1. CASE i = j /\ file[i].st # "absent"
      <4>1. i <= issued'
        BY <2>4, <3>1 DEF Fits
      <4>2. PICK st \in {"success", "failed"} : file'[i] = EntryOf(st)
        BY <1>1, <2>1, <3>1 DEF TypeOK, RegistryTypeOK, Registry
      <4>3. st \in Status /\ st # "running"
        BY DEF Status, Terminal
      <4> QED BY <4>1, <4>2, <4>3, FitsNew DEF TuiTask
    <3>2. CASE i # j \/ file[i].st = "absent"
      <4>1. file'[i] = file[i]
        BY <1>1, <2>1, <3>2 DEF TypeOK, RegistryTypeOK, Registry
      <4> QED BY <2>4, <4>1
    <3> QED BY <3>1, <3>2
  <2> QED BY <1>1, <2>2, <2>3, <2>4, <2>5, OthersInv
<1> QED BY <1>3, <1>4 DEF ShellStep

--------------------------------------------------------------------------------
(* The steps of the dashboard. *)

\* What a step of a request thread leaves alone.
LEMMA WebFrame ==
  ASSUME WebInv, UNCHANGED daemonVars, UNCHANGED locked, joblog' \in [Jobs -> SUBSET Marker],
         proc' \in [Pids -> Process], issued' \in 0..NumJobs,
         file' \in Registry, jobs' \in Registry, wjobs' \in [Threads -> Registry],
         tlock' \in Threads \union {NoThread}, wpc' \in [Threads -> WebPc],
         Beside,
         \A j \in Jobs :
            /\ Fits(file'[j], j, proc', issued')
            /\ Fits(jobs'[j], j, proc', issued')
            /\ \A t \in Threads : Fits(wjobs'[t][j], j, proc', issued')
  PROVE  WebInv'
<1>1. WebTypeOK'
  BY DEF WebInv, WebTypeOK, TypeOK, RegistryTypeOK, daemonVars
<1>2. \A j \in Jobs : Fits(entries'[j], j, proc', issued')
  BY FitsKept DEF WebInv, CopiesFit, Beside, daemonVars
<1> QED BY <1>1, <1>2 DEF WebInv, CopiesFit

\* The copies of before the step still fit after it.
LEMMA WebKept ==
  ASSUME WebInv, Beside, NEW j \in Jobs
  PROVE  /\ Fits(file[j], j, proc', issued')
         /\ Fits(jobs[j], j, proc', issued')
         /\ \A t \in Threads : Fits(wjobs[t][j], j, proc', issued')
         /\ Fits(Absent, j, proc', issued')
         /\ Fits(NoEntries[j], j, proc', issued')
BY FitsKept, FitsNew DEF WebInv, CopiesFit, Beside, NoEntries

\* A step that starts nothing and ends nothing.
LEMMA WebQuiet ==
  ASSUME WebInv, UNCHANGED <<daemonVars, locked, joblog, proc, issued>>,
         file' \in {file} \union {wjobs[t] : t \in Threads},
         jobs' \in Registry, wjobs' \in [Threads -> Registry],
         tlock' \in Threads \union {NoThread}, wpc' \in [Threads -> WebPc],
         \A j \in Jobs :
            /\ \/ jobs'[j] = jobs[j]
               \/ jobs'[j] = Absent
               \/ jobs[j].st # "absent" /\ \E st \in Terminal : jobs'[j] = EntryOf(st)
            /\ \A t \in Threads :
                 wjobs'[t][j] \in {wjobs[t][j], file[j], jobs[j], jobs'[j], Absent}
  PROVE  WebInv' /\ Beside
<1>1. Beside
  BY EndKeeps DEF WebInv, WebTypeOK
<1>2. ASSUME NEW j \in Jobs
      PROVE  /\ Fits(file'[j], j, proc', issued')
             /\ Fits(jobs'[j], j, proc', issued')
             /\ \A t \in Threads : Fits(wjobs'[t][j], j, proc', issued')
  <2>1. CASE jobs[j].st # "absent" /\ \E st \in Terminal : jobs'[j] = EntryOf(st)
    <3>1. j <= issued'
      BY <2>1 DEF WebInv, CopiesFit, Fits
    <3>2. PICK st \in Terminal : jobs'[j] = EntryOf(st)
      BY <2>1
    <3>3. st \in Status /\ st # "running"
      BY DEF Status, Terminal
    <3>4. Fits(jobs'[j], j, proc', issued')
      BY <3>1, <3>2, <3>3, FitsNew DEF TuiTask
    <3> QED BY <1>1, <3>4, WebKept
  <2>2. CASE jobs'[j] = jobs[j] \/ jobs'[j] = Absent
    BY <1>1, <2>2, WebKept
  <2> QED BY <2>1, <2>2
<1> QED BY <1>1, <1>2, WebFrame DEF WebInv, WebTypeOK, TypeOK, RegistryTypeOK

LEMMA GotoType ==
  ASSUME WebInv, NEW t \in Threads, NEW pc \in WebPc, Goto(t, pc)
  PROVE  wpc' \in [Threads -> WebPc]
BY DEF Goto, WebInv, WebTypeOK

LEMMA BuildType ==
  ASSUME WebInv, NEW t \in Threads, NEW pc \in WebPc, BuildEntries(t, pc), jobs' \in Registry
  PROVE  /\ wpc' \in [Threads -> WebPc] /\ wjobs' \in [Threads -> Registry]
         /\ wjobs' = [wjobs EXCEPT ![t] = jobs']
         /\ \A u \in Threads, j \in Jobs : wjobs'[u][j] \in {wjobs[u][j], jobs'[j]}
BY DEF BuildEntries, Goto, WebInv, WebTypeOK

\* load_registry: what it makes of an ended run is a final entry.
LEMMA WebVerdictIsTerminal == \A j, p : WebVerdict(j, p) \in Terminal
BY DEF WebVerdict, Terminal

LEMMA RefreshInv ==
  ASSUME WebInv, NEW t \in Threads, Refresh(t), UNCHANGED daemonVars
  PROVE  WebInv' /\ Beside
<1> DEFINE dead == WebDead(wjobs[t])
<1>1. /\ jobs' = [j \in Jobs |-> IF j \in dead THEN EntryOf(WebVerdict(j, wjobs[t][j].pid))
                                              ELSE wjobs[t][j]]
      /\ wjobs' = [wjobs EXCEPT ![t] = IF dead = {} THEN NoEntries ELSE jobs']
      /\ UNCHANGED <<file, locked, joblog, issued, tlock>>
  BY DEF Refresh
<1>2. dead \in SUBSET Running(wjobs[t])
  BY DEF WebDead
<1>3. \A p \in Pids : proc'[p] = proc[p] \/ (WebReapable(p) /\ proc'[p] = [proc[p] EXCEPT !.st = "gone"])
  BY DEF Refresh
<1>4. /\ proc \in [Pids -> Process] /\ wjobs[t] \in Registry /\ wpc \in [Threads -> WebPc]
      /\ TypeOK
  BY DEF WebInv, WebTypeOK, TypeOK, RegistryTypeOK
<1>5. wpc' \in [Threads -> WebPc]
  <2>1. \A u \in Threads : wpc'[u] \in {"idle", "save_dispatch", "detached", "cancel_old", wpc[u]}
    BY DEF Refresh
  <2>2. wpc' = [u \in Threads |-> wpc'[u]]
    BY DEF Refresh
  <2> QED BY <1>4, <2>1, <2>2 DEF WebPc
<1>6. proc' \in [Pids -> Process]
  <2>1. proc' = [p \in Pids |-> proc'[p]]
    BY DEF Refresh
  <2>2. ASSUME NEW p \in Pids PROVE proc'[p] \in Process
    <3>1. proc[p] \in Process
      BY <1>4
    <3>2. [proc[p] EXCEPT !.st = "gone"] \in Process
      BY <3>1 DEF Process
    <3> QED BY <1>3, <3>1, <3>2
  <2> QED BY <2>1, <2>2
<1>7. jobs' \in Registry
  <2>1. \A j : EntryOf(WebVerdict(j, wjobs[t][j].pid)) \in Entry
    BY EntryTypes, WebVerdictIsTerminal DEF Status
  <2> QED BY <1>1, <1>4, <2>1 DEF Registry
<1>8. Beside
  <2>1. ASSUME NEW p \in Pids
        PROVE  /\ proc'[p].job = proc[p].job /\ proc'[p].parent = proc[p].parent
               /\ proc[p].st # "free" => proc'[p].st # "free"
               /\ proc'[p].st = "live" => proc[p].st = "live"
    BY <1>3, <1>4 DEF Process
  <2> QED BY <1>1, <1>4, <2>1, EndKeeps
<1>9. ASSUME NEW j \in Jobs PROVE Fits(jobs'[j], j, proc', issued')
  <2>1. CASE j \in dead
    <3>1. j <= issued'
      BY <1>1, <1>2, <2>1 DEF Running, WebInv, CopiesFit, Fits
    <3>2. WebVerdict(j, wjobs[t][j].pid) \in Status \ {"running"}
      BY WebVerdictIsTerminal DEF Status, Terminal
    <3> QED BY <1>1, <2>1, <3>1, <3>2, FitsNew DEF TuiTask
  <2>2. CASE j \notin dead
    BY <1>1, <1>8, <2>2, WebKept
  <2> QED BY <2>1, <2>2
<1>10. \A u \in Threads, j \in Jobs : wjobs'[u][j] \in {wjobs[u][j], NoEntries[j], jobs'[j]}
  BY <1>1 DEF WebInv, WebTypeOK
<1>11. wjobs' \in [Threads -> Registry]
  BY <1>1, <1>7, EntryTypes DEF WebInv, WebTypeOK
<1> HIDE DEF dead
<1>12. \A j \in Jobs :
          /\ Fits(file'[j], j, proc', issued')
          /\ \A u \in Threads : Fits(wjobs'[u][j], j, proc', issued')
  BY <1>1, <1>8, <1>9, <1>10, WebKept
<1> QED
  BY <1>1, <1>5, <1>6, <1>7, <1>8, <1>9, <1>11, <1>12, WebFrame
  DEF WebInv, WebTypeOK, TypeOK, RegistryTypeOK

\* A process the dashboard starts, for a new job or a queued one.
LEMMA WebStartInv ==
  ASSUME WebInv, NEW p \in Pids, NEW j \in Jobs, WebStart(p, j), j <= issued',
         issued' \in {issued, issued + 1}, issued' \in 0..NumJobs,
         UNCHANGED <<daemonVars, file, locked>>,
         tlock' \in Threads \union {NoThread}, wpc' \in [Threads -> WebPc],
         jobs' \in {jobs, [jobs EXCEPT ![j] = RunningAs(p)]},
         NEW t \in Threads,
         wjobs' \in {[wjobs EXCEPT ![t] = jobs'], [wjobs EXCEPT ![t][j] = RunningAs(p)]}
  PROVE  WebInv' /\ Beside
<1>1. /\ TypeOK /\ file \in Registry /\ jobs \in Registry /\ wjobs \in [Threads -> Registry]
      /\ proc \in [Pids -> Process] /\ joblog \in [Jobs -> SUBSET Marker]
  BY DEF WebInv, WebTypeOK, TypeOK, RegistryTypeOK
<1>2. Free(p) /\ proc' = Started(p, j, "web") /\ joblog' = [joblog EXCEPT ![j] = {}]
  BY DEF WebStart
<1>3. Beside /\ proc'[p].st # "free" /\ proc'[p].job = j
  BY <1>1, <1>2, StartKeeps DEF Owner
<1>4. Fits(RunningAs(p), j, proc', issued')
  BY <1>3, FitsNew DEF TuiTask
<1>5. /\ proc' \in [Pids -> Process] /\ joblog' \in [Jobs -> SUBSET Marker]
      /\ RunningAs(p) \in Entry
  BY <1>1, <1>2, StartedType, EntryTypes DEF Owner
<1>6. jobs' \in Registry /\ wjobs' \in [Threads -> Registry]
  <2>1. jobs' \in Registry
    BY <1>1, <1>5 DEF Registry
  <2>2. [wjobs[t] EXCEPT ![j] = RunningAs(p)] \in Registry
    BY <1>1, <1>5 DEF Registry
  <2>3. [wjobs EXCEPT ![t][j] = RunningAs(p)] = [wjobs EXCEPT ![t] = [wjobs[t] EXCEPT ![j] = RunningAs(p)]]
    BY <1>1
  <2> QED BY <1>1, <2>1, <2>2, <2>3
<1>7. \A i \in Jobs :
        /\ jobs'[i] = jobs[i] \/ (i = j /\ jobs'[i] = RunningAs(p))
        /\ \A u \in Threads : \/ wjobs'[u][i] = wjobs[u][i] \/ wjobs'[u][i] = jobs'[i]
                              \/ i = j /\ wjobs'[u][i] = RunningAs(p)
  <2>1. \A i \in Jobs : jobs'[i] = jobs[i] \/ (i = j /\ jobs'[i] = RunningAs(p))
    BY <1>1 DEF Registry
  <2>2. CASE wjobs' = [wjobs EXCEPT ![t] = jobs']
    <3>1. \A u \in Threads : wjobs'[u] = wjobs[u] \/ wjobs'[u] = jobs'
      BY <1>1, <2>2
    <3> QED BY <2>1, <3>1
  <2>3. CASE wjobs' = [wjobs EXCEPT ![t][j] = RunningAs(p)]
    <3>1. wjobs[t] \in Registry
      BY <1>1
    <3>2. \A u \in Threads \ {t} : wjobs'[u] = wjobs[u]
      BY <1>1, <2>3
    <3>3. wjobs'[t] = [wjobs[t] EXCEPT ![j] = RunningAs(p)]
      BY <1>1, <2>3
    <3>4. \A i \in Jobs : wjobs'[t][i] = wjobs[t][i] \/ (i = j /\ wjobs'[t][i] = RunningAs(p))
      BY <3>1, <3>3 DEF Registry
    <3> QED BY <2>1, <3>2, <3>4
  <2> QED BY <2>2, <2>3
<1>8. \A i \in Jobs :
        /\ Fits(file'[i], i, proc', issued')
        /\ Fits(jobs'[i], i, proc', issued')
        /\ \A u \in Threads : Fits(wjobs'[u][i], i, proc', issued')
  BY <1>3, <1>4, <1>7, WebKept
<1> QED BY <1>1, <1>3, <1>5, <1>6, <1>8, WebFrame

LEMMA CreateInv ==
  ASSUME WebInv, NEW t \in Threads, CreateAndStart(t), UNCHANGED daemonVars
  PROVE  WebInv' /\ Beside
<1> DEFINE j == issued + 1
<1>1. /\ TypeOK /\ jobs \in Registry /\ wjobs \in [Threads -> Registry] /\ issued \in 0..NumJobs
      /\ file \in Registry /\ proc \in [Pids -> Process] /\ joblog \in [Jobs -> SUBSET Marker]
  BY DEF WebInv, WebTypeOK, TypeOK, RegistryTypeOK
<1>2. /\ issued' = j /\ tlock' = t /\ UNCHANGED <<file, locked>> /\ issued < NumJobs
      /\ wjobs' = [wjobs EXCEPT ![t] = jobs']
  BY DEF CreateAndStart, BuildEntries
<1>3. wpc' \in [Threads -> WebPc]
  <2>1. Goto(t, "save_unlock") /\ "save_unlock" \in WebPc
    BY DEF CreateAndStart, BuildEntries, WebPc
  <2> QED BY <2>1, GotoType
<1>4. j \in Jobs /\ j \in 0..NumJobs /\ j <= j
  BY <1>1, <1>2, RegistryAssumption DEF Jobs
<1>5. CASE jobs' = [jobs EXCEPT ![j] = EntryOf("queued")] /\ UNCHANGED <<proc, joblog>>
  <2>1. EntryOf("queued") \in Entry
    BY EntryTypes DEF Status
  <2>2. Fits(EntryOf("queued"), j, proc', issued')
    BY <1>2, <1>4, FitsNew DEF Status, TuiTask
  <2>3. Beside
    <3>1. issued' \in Nat /\ issued \in Nat /\ issued <= issued'
      BY <1>1, <1>2
    <3> QED BY <1>5, <3>1 DEF Beside, ProcessesKeep
  <2> HIDE DEF j
  <2>4. jobs' \in Registry /\ \A i \in Jobs : jobs'[i] = jobs[i] \/ (i = j /\ jobs'[i] = EntryOf("queued"))
    BY <1>1, <1>4, <1>5, <2>1 DEF Registry
  <2>5. /\ wjobs' \in [Threads -> Registry]
        /\ \A u \in Threads, i \in Jobs : wjobs'[u][i] = wjobs[u][i] \/ wjobs'[u][i] = jobs'[i]
    BY <1>1, <1>2, <2>4
  <2>6. \A i \in Jobs :
          /\ Fits(file'[i], i, proc', issued')
          /\ Fits(jobs'[i], i, proc', issued')
          /\ \A u \in Threads : Fits(wjobs'[u][i], i, proc', issued')
    BY <1>2, <2>2, <2>3, <2>4, <2>5, WebKept
  <2> QED BY <1>1, <1>2, <1>3, <1>4, <1>5, <2>3, <2>4, <2>5, <2>6, WebFrame
<1>6. ASSUME NEW p \in Pids, WebStart(p, j), jobs' = [jobs EXCEPT ![j] = RunningAs(p)]
      PROVE  WebInv' /\ Beside
  <2>1. issued' \in {issued, issued + 1}
    BY <1>2
  <2> HIDE DEF j
  <2> QED BY <1>2, <1>3, <1>4, <1>6, <2>1, WebStartInv
<1> QED BY <1>5, <1>6 DEF CreateAndStart

\* Every step of a request thread keeps every copy in order, and starts nothing as a
\* child of the text UI.
LEMMA WebStepInv ==
  ASSUME WebInv, NEW t \in Threads, WebStep(t), UNCHANGED daemonVars
  PROVE  WebInv' /\ Beside
<1>1. /\ TypeOK /\ jobs \in Registry /\ wjobs \in [Threads -> Registry] /\ file \in Registry
      /\ tlock \in Threads \union {NoThread} /\ wpc \in [Threads -> WebPc]
  BY DEF WebInv, WebTypeOK, TypeOK, RegistryTypeOK
<1>2. CASE FlockRead(t)
  <2>1. wpc' \in [Threads -> WebPc]
    BY <1>2, GotoType DEF FlockRead, WebPc
  <2>2. UNCHANGED <<registryVars, jobs, tlock>> /\ wjobs' = [wjobs EXCEPT ![t] = file]
    BY <1>2 DEF FlockRead
  <2>3. \A u \in Threads, j \in Jobs : wjobs'[u][j] \in {wjobs[u][j], file[j]}
    BY <1>1, <2>2
  <2>4. wjobs' \in [Threads -> Registry]
    BY <1>1, <2>2
  <2> QED BY <1>1, <2>1, <2>2, <2>3, <2>4, WebQuiet DEF registryVars
<1>3. CASE SaveRegistry(t)
  <2>1. AfterSave(wpc[t]) \in WebPc
    BY DEF AfterSave, WebPc
  <2>2. wpc' \in [Threads -> WebPc]
    BY <1>3, <2>1, GotoType DEF SaveRegistry
  <2>3. /\ UNCHANGED <<locked, proc, joblog, issued, jobs>> /\ file' \in {file, wjobs[t]}
        /\ tlock' \in {tlock, NoThread} /\ wjobs' = [wjobs EXCEPT ![t] = NoEntries]
    BY <1>3 DEF SaveRegistry
  <2>4. /\ wjobs' \in [Threads -> Registry]
        /\ \A u \in Threads, j \in Jobs : wjobs'[u][j] \in {wjobs[u][j], Absent}
    BY <1>1, <2>3, EntryTypes DEF NoEntries
  <2> QED BY <1>1, <2>2, <2>3, <2>4, WebQuiet
<1>4. CASE DispatchQueue(t)
  <2>1. wpc' \in [Threads -> WebPc]
    BY <1>4, GotoType DEF DispatchQueue, WebPc
  <2> DEFINE listed == [j \in Jobs |-> IF j \in Queued(jobs) THEN jobs[j] ELSE Absent]
  <2>2. listed \in Registry /\ \A j \in Jobs : listed[j] \in {jobs[j], Absent}
    BY <1>1, EntryTypes DEF Registry
  <2>3. UNCHANGED <<registryVars, jobs>> /\ tlock' = t /\ wjobs' = [wjobs EXCEPT ![t] = listed]
    BY <1>4 DEF DispatchQueue
  <2> HIDE DEF listed
  <2>4. wjobs' \in [Threads -> Registry]
    BY <1>1, <2>2, <2>3
  <2>5. \A u \in Threads, j \in Jobs : wjobs'[u][j] \in {wjobs[u][j], jobs[j], Absent}
    BY <1>1, <2>2, <2>3
  <2> QED BY <1>1, <2>1, <2>3, <2>4, <2>5, WebQuiet DEF registryVars
<1>5. ASSUME NEW p \in Pids, WebDispatchOne(t, p) PROVE WebInv' /\ Beside
  <2> DEFINE j == FirstQueued(wjobs[t])
  <2>1. j \in Jobs /\ wjobs[t][j].st = "queued"
    BY <1>5, FirstQueuedIsOldest DEF WebDispatchOne, WebMayStart, Queued
  <2>2. /\ WebStart(p, j) /\ UNCHANGED <<file, locked, issued, tlock, wpc>>
        /\ wjobs' = [wjobs EXCEPT ![t][j] = RunningAs(p)]
        /\ jobs' \in {jobs, [jobs EXCEPT ![j] = RunningAs(p)]}
    BY <1>5 DEF WebDispatchOne
  <2> HIDE DEF j
  <2>3. j <= issued
    BY <2>1 DEF WebInv, CopiesFit, Fits
  <2>4. issued \in 0..NumJobs
    BY <1>1 DEF TypeOK, RegistryTypeOK
  <2> QED BY <1>1, <2>1, <2>2, <2>3, <2>4, WebStartInv
<1>6. CASE DispatchQueueDone(t) \/ WebDispatchRaises(t)
  <2>1. /\ UNCHANGED <<registryVars, jobs>> /\ tlock' \in {tlock, NoThread}
        /\ \/ Goto(t, "idle") /\ wjobs' = [wjobs EXCEPT ![t] = NoEntries]
           \/ BuildEntries(t, "save_unlock")
    BY <1>6 DEF DispatchQueueDone, WebDispatchRaises
  <2>2. CASE Goto(t, "idle") /\ wjobs' = [wjobs EXCEPT ![t] = NoEntries]
    <3>1. wpc' \in [Threads -> WebPc]
      BY <2>2, GotoType DEF WebPc
    <3>2. wjobs' \in [Threads -> Registry]
      BY <1>1, <2>2, EntryTypes
    <3>3. \A u \in Threads, j \in Jobs : wjobs'[u][j] \in {wjobs[u][j], Absent}
      BY <1>1, <2>2 DEF NoEntries
    <3> QED BY <1>1, <2>1, <3>1, <3>2, <3>3, WebQuiet DEF registryVars
  <2>3. CASE BuildEntries(t, "save_unlock")
    <3>1. jobs' \in Registry /\ "save_unlock" \in WebPc
      BY <1>1, <2>1 DEF WebPc
    <3>2. /\ wpc' \in [Threads -> WebPc] /\ wjobs' \in [Threads -> Registry]
          /\ \A u \in Threads, j \in Jobs : wjobs'[u][j] \in {wjobs[u][j], jobs'[j]}
      BY <2>3, <3>1, BuildType
    <3> QED BY <1>1, <2>1, <3>1, <3>2, WebQuiet DEF registryVars
  <2> QED BY <2>1, <2>2, <2>3
<1>7. ASSUME NEW j \in Jobs, CancelQueued(t, j) PROVE WebInv' /\ Beside
  <2> DEFINE picked == [NoEntries EXCEPT ![j] = jobs[j]]
  <2>1. /\ UNCHANGED <<registryVars, jobs, tlock>> /\ Goto(t, "cancel")
        /\ wjobs' = [wjobs EXCEPT ![t] = picked]
    BY <1>7 DEF CancelQueued
  <2>2. wpc' \in [Threads -> WebPc]
    BY <2>1, GotoType DEF WebPc
  <2>3. picked \in Registry /\ \A i \in Jobs : picked[i] \in {jobs[i], Absent}
    BY <1>1, EntryTypes DEF Registry, NoEntries
  <2> HIDE DEF picked
  <2>4. wjobs' \in [Threads -> Registry]
    BY <1>1, <2>1, <2>3
  <2>5. \A u \in Threads, i \in Jobs : wjobs'[u][i] \in {wjobs[u][i], jobs[i], Absent}
    BY <1>1, <2>1, <2>3
  <2> QED BY <1>1, <2>1, <2>2, <2>4, <2>5, WebQuiet DEF registryVars
<1>10. ASSUME NEW j \in Jobs, CancelJob(t, j) PROVE WebInv' /\ Beside
  <2>1. /\ \/ jobs' = jobs
           \/ jobs[j].st # "absent" /\ jobs' = [jobs EXCEPT ![j] = EntryOf("failed")]
        /\ UNCHANGED <<registryVars, tlock>> /\ Goto(t, "save_dispatch")
        /\ wjobs' = [u \in Threads |-> wjobs'[u]]
        /\ \A u \in Threads : wjobs'[u] \in {jobs', [wjobs[u] EXCEPT ![j] = Absent], wjobs[u]}
    BY <1>10 DEF CancelJob
  <2>2. wpc' \in [Threads -> WebPc]
    BY <2>1, GotoType DEF WebPc
  <2>3. EntryOf("failed") \in Entry /\ "failed" \in Terminal /\ Absent \in Entry
    BY EntryTypes DEF Status, Terminal
  <2>4. jobs' \in Registry
    BY <1>1, <2>1, <2>3 DEF Registry
  <2>5. \A u \in Threads : [wjobs[u] EXCEPT ![j] = Absent] \in Registry
    BY <1>1, <2>3 DEF Registry
  <2>6. wjobs' \in [Threads -> Registry]
    BY <1>1, <2>1, <2>4, <2>5
  <2>7. \A i \in Jobs : jobs'[i] = jobs[i] \/ (jobs[i].st # "absent" /\ jobs'[i] = EntryOf("failed"))
    BY <1>1, <2>1 DEF Registry
  <2>8. \A u \in Threads, i \in Jobs : wjobs'[u][i] \in {wjobs[u][i], jobs'[i], Absent}
    BY <1>1, <2>1 DEF Registry
  <2> QED BY <1>1, <2>1, <2>2, <2>3, <2>4, <2>6, <2>7, <2>8, WebQuiet DEF registryVars
<1>8. ASSUME NEW j \in Jobs, KillRunning(t, j) PROVE WebInv' /\ Beside
  <2>1. jobs[j].pid \in Pids /\ ProcessStep(jobs[j].pid) /\ UNCHANGED <<daemonVars, webVars>>
    BY <1>8 DEF KillRunning, ProcessStep
  <2> QED BY <2>1, ProcessInv
<1>9. CASE RemoveFinished(t)
  <2>1. /\ jobs' = [j \in Jobs |-> IF jobs[j].st \in {"running", "queued"} THEN jobs[j] ELSE Absent]
        /\ UNCHANGED <<registryVars, tlock>> /\ BuildEntries(t, "save")
    BY <1>9 DEF RemoveFinished
  <2>2. jobs' \in Registry /\ \A i \in Jobs : jobs'[i] \in {jobs[i], Absent}
    BY <1>1, <2>1, EntryTypes DEF Registry
  <2>3. /\ wpc' \in [Threads -> WebPc] /\ wjobs' \in [Threads -> Registry]
        /\ \A u \in Threads, i \in Jobs : wjobs'[u][i] \in {wjobs[u][i], jobs'[i]}
    BY <2>1, <2>2, BuildType DEF WebPc
  <2> QED BY <1>1, <2>1, <2>2, <2>3, WebQuiet DEF registryVars
<1> QED
  BY <1>2, <1>3, <1>4, <1>5, <1>6, <1>7, <1>8, <1>9, <1>10, RefreshInv, CreateInv DEF WebStep

--------------------------------------------------------------------------------
(* The steps of the text UI. *)

\* The frame of a step of the text UI, which leaves it open or closes it.
LEMMA TuiFrame ==
  ASSUME WritersInv, UNCHANGED <<daemonVars, webVars, locked>>, ProcessesKeep,
         proc' \in [Pids -> Process], joblog' \in [Jobs -> SUBSET Marker],
         issued' \in 0..NumJobs, file' \in Registry,
         \A j \in Jobs : Fits(file'[j], j, proc', issued'),
         DictInv(tui', proc', issued'),
         open' \in BOOLEAN, ~open' => \A j \in Jobs : tui'[j] = Unknown
  PROVE  WritersInv'
<1>1. WebTypeOK'
  BY DEF WritersInv, WebInv, WebTypeOK, TypeOK, RegistryTypeOK, daemonVars, webVars
<1>2. \A j \in Jobs : Fits(entries'[j], j, proc', issued') /\ Fits(jobs'[j], j, proc', issued')
  BY FitsKept DEF WritersInv, WebInv, CopiesFit, daemonVars, webVars
<1>3. \A t \in Threads : \A j \in Jobs : Fits(wjobs'[t][j], j, proc', issued')
  BY FitsKept DEF WritersInv, WebInv, CopiesFit, webVars
<1>4. CopiesFit'
  BY <1>2, <1>3 DEF CopiesFit
<1>5. DictInv(tui, proc, issued)'
  BY DEF DictInv, Watched, Tasked, Slots
<1> QED BY <1>1, <1>4, <1>5 DEF WritersInv, WebInv, ClosedIsEmpty

\* What _save_registry leaves in the file.
LEMMA SavedFits ==
  ASSUME WritersInv, ProcessesKeep, NEW dict \in [Jobs -> TuiJob],
         \A j \in Jobs : Fits(dict[j], j, proc', issued'),
         NEW reg \in Saved(dict)
  PROVE  reg \in Registry /\ \A j \in Jobs : Fits(reg[j], j, proc', issued')
<1>1. reg \in {Image(dict), file}
  BY DEF Saved
<1>2. file \in Registry /\ \A j \in Jobs : Fits(file[j], j, proc', issued')
  BY FitsKept DEF WritersInv, WebInv, WebTypeOK, TypeOK, RegistryTypeOK, CopiesFit
<1> QED BY <1>1, <1>2, ImageFits

LEMMA QuietKeeps ==
  ASSUME WritersInv, UNCHANGED <<proc, issued>>
  PROVE  ProcessesKeep
BY DEF ProcessesKeep, WritersInv, WebInv, WebTypeOK, TypeOK, RegistryTypeOK

LEMMA TuiVerdictIsTerminal == \A j : TuiVerdict(j) \in Terminal
BY DEF TuiVerdict, Terminal

\* The job records the text UI makes.
LEMMA TuiJobTypes ==
  /\ Unknown \in TuiJob
  /\ \A e \in Entry, task \in TuiTask : TuiJobOf(e, task) \in TuiJob
  /\ TuiJobOf(RunningAs(NoPid), "new") \in TuiJob
BY DEF Unknown, TuiJobOf, TuiJob, Entry, Absent, EntryOf, RunningAs, Status, TuiTask

LEMMA TuiJobFields ==
  /\ \A e, task : /\ TuiJobOf(e, task).st = e.st
                  /\ TuiJobOf(e, task).pid = e.pid
                  /\ TuiJobOf(e, task).task = task
  /\ Unknown.st = "absent" /\ Unknown.pid = NoPid /\ Unknown.task = "none"
  /\ \A st : EntryOf(st).st = st /\ EntryOf(st).pid = NoPid
  /\ \A p : RunningAs(p).st = "running" /\ RunningAs(p).pid = p
BY DEF Unknown, TuiJobOf, Absent, EntryOf, RunningAs

\* A job that gets a final status, or none, and no task, leaves the dictionary in order,
\* if it has no running process.
LEMMA SettledInv ==
  ASSUME WritersInv, ProcessesKeep, NEW j \in Jobs, tui[j].st # "absent",
         NEW st \in Terminal, NEW task \in {"none", "over"},
         \A p \in Pids : LiveTui(proc', p) => LiveTui(proc, p) /\ proc[p].job # j,
         NEW after, after = [tui EXCEPT ![j] = TuiJobOf(EntryOf(st), task)]
  PROVE  DictInv(after, proc', issued')
<1>1. tui \in [Jobs -> TuiJob] /\ \A i \in Jobs : Fits(tui[i], i, proc', issued')
  BY FitsKept DEF WritersInv, DictInv
<1>2. /\ TuiJobOf(EntryOf(st), task) \in TuiJob
      /\ TuiJobOf(EntryOf(st), task).task = task
  <2>1. EntryOf(st) \in Entry /\ task \in TuiTask
    BY EntryTypes DEF Status, TuiTask
  <2> QED BY <2>1, TuiJobTypes, TuiJobFields
<1>3. Fits(TuiJobOf(EntryOf(st), task), j, proc', issued')
  <2>1. j <= issued'
    BY <1>1 DEF Fits
  <2>2. st \in Status /\ st # "running" /\ task \in TuiTask
    BY DEF Status, Terminal, TuiTask
  <2> QED BY <2>1, <2>2, FitsNew
<1>4. after \in [Jobs -> TuiJob] /\ \A i \in Jobs : Fits(after[i], i, proc', issued')
  BY <1>1, <1>2, <1>3
<1>5. \A i \in Jobs :
        \/ after[i] = tui[i]
        \/ /\ after[i].task \notin {"new", "tail"}
           /\ after[i].task = "follow" => after[i].st = "running"
  BY <1>1, <1>2
<1>6. \A p \in Pids : LiveTui(proc', p) =>
        LiveTui(proc, p) /\ proc'[p].job = proc[p].job /\ after[proc[p].job] = tui[proc[p].job]
  <2> SUFFICES ASSUME NEW p \in Pids, LiveTui(proc', p)
               PROVE  LiveTui(proc, p) /\ proc'[p].job = proc[p].job /\ after[proc[p].job] = tui[proc[p].job]
    OBVIOUS
  <2>1. LiveTui(proc, p) /\ proc[p].job # j
    OBVIOUS
  <2>2. proc[p].job \in Jobs
    BY <2>1 DEF WritersInv, DictInv, Watched
  <2>3. proc'[p].job = proc[p].job
    BY <2>1 DEF ProcessesKeep, LiveTui
  <2> QED BY <1>1, <2>1, <2>2, <2>3
<1>7. DictInv(tui, proc, issued)
  BY DEF WritersInv
<1> QED BY ONLY <1>4, <1>5, <1>6, <1>7, DictKept

\* ... and so does the save and the dispatch that follow.
LEMMA SettledStep ==
  ASSUME WritersInv, UNCHANGED <<daemonVars, webVars, locked, issued, open>>,
         open, ProcessesKeep, proc' \in [Pids -> Process], joblog' \in [Jobs -> SUBSET Marker],
         NEW after, DictInv(after, proc', issued'),
         tui' = Dispatched(after), file' \in Saved(after) \union {Image(tui')}
  PROVE  WritersInv'
<1>1. DictInv(tui', proc', issued')
  BY DispatchedInv
<1>2. file' \in Registry /\ \A j \in Jobs : Fits(file'[j], j, proc', issued')
  <2>1. CASE file' \in Saved(after)
    BY <2>1, SavedFits DEF DictInv
  <2>2. CASE file' = Image(tui')
    BY <1>1, <2>2, ImageFits DEF DictInv
  <2> QED BY <2>1, <2>2
<1> QED
  BY <1>1, <1>2, TuiFrame DEF WritersInv, WebInv, WebTypeOK, TypeOK, RegistryTypeOK

\* While it is closed it has no job, so nothing is done to one.
LEMMA JobIsOpen ==
  ASSUME WritersInv, NEW j \in Jobs, tui[j] # Unknown
  PROVE  open
BY DEF WritersInv, ClosedIsEmpty

LEMMA TuiFinishInv ==
  ASSUME WritersInv, NEW j \in Jobs, TuiFinish(j), UNCHANGED <<daemonVars, webVars>>
  PROVE  WritersInv'
<1> DEFINE p == tui[j].pid
           st == CASE ExitCode(proc[p].exit) = "zero" /\ IsSkipped(joblog[j]) -> "skipped"
                   [] ExitCode(proc[p].exit) = "zero" /\ ~IsSkipped(joblog[j]) -> "success"
                   [] OTHER -> "failed"
           after == [tui EXCEPT ![j] = TuiJobOf(EntryOf(st), "over")]
<1>1. /\ tui[j].task = "tail" /\ proc[p].st = "zombie" /\ proc' = [proc EXCEPT ![p].st = "gone"]
      /\ file' \in Saved(after) /\ tui' = Dispatched(after)
      /\ UNCHANGED <<locked, joblog, issued, open>>
  BY DEF TuiFinish
<1>2. /\ proc \in [Pids -> Process] /\ joblog \in [Jobs -> SUBSET Marker] /\ TypeOK
      /\ issued \in Nat
  BY DEF WritersInv, WebInv, WebTypeOK, TypeOK, RegistryTypeOK
<1>3. p \in Pids /\ tui[j].st = "running"
  BY <1>1 DEF WritersInv, DictInv, Tasked
<1>4. open
  BY <1>1, JobIsOpen, TuiJobFields
<1>5. st \in Terminal
  BY DEF Terminal
<1> HIDE DEF st, p
<1>6. /\ proc' \in [Pids -> Process]
      /\ \A q \in Pids : IF q = p THEN proc'[q].st = "gone" /\ proc'[q].job = proc[q].job
                                  ELSE proc'[q] = proc[q]
  BY <1>1, <1>2, <1>3 DEF Process
<1>7. ProcessesKeep
  BY <1>1, <1>2, <1>6 DEF ProcessesKeep
<1>8. \A q \in Pids : LiveTui(proc', q) => LiveTui(proc, q) /\ proc[q].job # j
  <2> SUFFICES ASSUME NEW q \in Pids, LiveTui(proc', q) PROVE LiveTui(proc, q) /\ proc[q].job # j
    OBVIOUS
  <2>1. q # p /\ LiveTui(proc, q)
    BY <1>6 DEF LiveTui
  <2> QED BY <2>1 DEF WritersInv, DictInv, Watched, p
<1>9. DictInv(after, proc', issued')
  BY <1>3, <1>5, <1>7, <1>8, SettledInv
<1> HIDE DEF after
<1> QED BY <1>1, <1>2, <1>4, <1>6, <1>7, <1>9, SettledStep

LEMMA TuiFollowEndsInv ==
  ASSUME WritersInv, NEW j \in Jobs, TuiFollowEnds(j) \/ TuiCancel(j),
         UNCHANGED <<daemonVars, webVars>>
  PROVE  WritersInv'
<1>1. PICK st \in Terminal :
        /\ file' \in Saved([tui EXCEPT ![j] = TuiJobOf(EntryOf(st), "none")])
        /\ tui' = Dispatched([tui EXCEPT ![j] = TuiJobOf(EntryOf(st), "none")])
  BY TuiVerdictIsTerminal DEF TuiFollowEnds, TuiCancel, Terminal
<1>2. /\ UNCHANGED <<locked, proc, joblog, issued, open>>
      /\ tui[j].task = "follow" \/ tui[j].st = "queued"
  BY DEF TuiFollowEnds, TuiCancel
<1> DEFINE after == [tui EXCEPT ![j] = TuiJobOf(EntryOf(st), "none")]
<1>3. proc \in [Pids -> Process] /\ joblog \in [Jobs -> SUBSET Marker]
  BY DEF WritersInv, WebInv, WebTypeOK, TypeOK, RegistryTypeOK
<1>4. open /\ tui[j].st # "absent"
  BY <1>2, JobIsOpen, TuiJobFields DEF WritersInv, DictInv, Tasked
<1>5. ProcessesKeep
  BY <1>2, QuietKeeps
<1>6. \A q \in Pids : LiveTui(proc', q) => LiveTui(proc, q) /\ proc[q].job # j
  BY <1>2 DEF WritersInv, DictInv, Watched
<1>7. DictInv(after, proc', issued')
  BY <1>4, <1>5, <1>6, SettledInv
<1> HIDE DEF after
<1> QED BY <1>1, <1>2, <1>3, <1>4, <1>5, <1>7, SettledStep DEF after

LEMMA TuiKillInv ==
  ASSUME WritersInv, NEW j \in Jobs, TuiKill(j), UNCHANGED <<daemonVars, webVars>>
  PROVE  WritersInv'
<1> DEFINE p == tui[j].pid
           after == [tui EXCEPT ![j] = TuiJobOf(EntryOf("failed"), "none")]
<1>1. /\ tui[j].st = "running"
      /\ IF p # NoPid /\ Live(p)
         THEN /\ proc' = Exited(p, "killed")
              /\ joblog' \in {joblog, [joblog EXCEPT ![j] = @ \union {"completed"}]}
         ELSE UNCHANGED <<proc, joblog>>
      /\ tui' = Dispatched(after)
      /\ file' \in Saved(after) \union {Image(tui')}
      /\ UNCHANGED <<locked, issued, open>>
  BY DEF TuiKill
<1>2. /\ proc \in [Pids -> Process] /\ joblog \in [Jobs -> SUBSET Marker] /\ TypeOK
      /\ issued \in Nat /\ tui \in [Jobs -> TuiJob]
  BY DEF WritersInv, WebInv, WebTypeOK, TypeOK, RegistryTypeOK, DictInv
<1>3. open
  BY <1>1, JobIsOpen, TuiJobFields
<1>4. /\ joblog' \in [Jobs -> SUBSET Marker] /\ proc' \in [Pids -> Process] /\ ProcessesKeep
      /\ \A q \in Pids : LiveTui(proc', q) => LiveTui(proc, q) /\ proc[q].job # j
  <2>1. CASE p # NoPid /\ Live(p)
    <3>1. p \in Pids
      BY <1>2, <2>1 DEF TuiJob
    <3>2. proc' = Exited(p, "killed") /\ "killed" \in Outcome
      BY <1>1, <2>1 DEF Outcome
    <3>3. proc' \in [Pids -> Process]
      BY <1>2, <3>1, <3>2, ExitedType
    <3>4. Beside
      BY <1>1, <1>2, <2>1, <3>1, <3>2, ExitBeside
    <3>5. proc'[p].st # "live"
      <4>1. ExitState(p) # "live"
        BY DEF ExitState
      <4> QED BY <1>2, <3>1, <3>2, <4>1 DEF Exited, Process
    <3>6. joblog' \in [Jobs -> SUBSET Marker]
      BY <1>1, <1>2, <2>1 DEF Marker
    <3>7. ASSUME NEW q \in Pids, LiveTui(proc', q) PROVE LiveTui(proc, q) /\ proc[q].job # j
      <4>1. q # p /\ LiveTui(proc, q)
        BY <3>4, <3>5, <3>7 DEF Beside, LiveTui
      <4> QED BY <4>1 DEF WritersInv, DictInv, Watched
    <3> QED BY <3>3, <3>4, <3>6, <3>7 DEF Beside
  <2>2. CASE ~(p # NoPid /\ Live(p))
    <3>1. UNCHANGED <<proc, joblog>>
      BY <1>1, <2>2
    <3>2. ASSUME NEW q \in Pids, LiveTui(proc', q) PROVE LiveTui(proc, q) /\ proc[q].job # j
      <4>1. proc[q].job = j => p = q
        BY <3>1, <3>2 DEF WritersInv, DictInv, Watched
      <4>2. p = q => p # NoPid /\ Live(p)
        BY <3>1, <3>2, RegistryAssumption DEF LiveTui, Live
      <4> QED BY <2>2, <3>1, <3>2, <4>1, <4>2
    <3>3. ProcessesKeep
      BY <1>1, <3>1, QuietKeeps
    <3> QED BY <1>2, <3>1, <3>2, <3>3
  <2> QED BY <2>1, <2>2
<1>5. DictInv(after, proc', issued')
  BY <1>1, <1>4, SettledInv DEF Terminal
<1> HIDE DEF after, p
<1> QED BY <1>1, <1>3, <1>4, <1>5, SettledStep

\* A job that is submitted joins the queue or takes a slot the limit allows.
LEMMA TuiSubmitInv ==
  ASSUME WritersInv, TuiSubmit, UNCHANGED open, UNCHANGED <<daemonVars, webVars>>
  PROVE  WritersInv'
<1> DEFINE j == issued + 1
           runs == Cardinality({i \in Jobs : tui[i].st = "running"})
           queued == TuiJobOf(EntryOf("queued"), "none")
           new == TuiJobOf(RunningAs(NoPid), "new")
<1>1. /\ open /\ issued' = j /\ issued < NumJobs /\ UNCHANGED <<locked, proc, joblog>>
      /\ \/ tui' = [tui EXCEPT ![j] = queued] /\ file' \in Saved(tui')
         \/ /\ tui' = [tui EXCEPT ![j] = new] /\ file' = file
            /\ MaxConcurrent > 0 => ~(runs + 1 >= MaxConcurrent)
  BY DEF TuiSubmit
<1>2. /\ proc \in [Pids -> Process] /\ joblog \in [Jobs -> SUBSET Marker] /\ file \in Registry
      /\ issued \in 0..NumJobs /\ tui \in [Jobs -> TuiJob]
  BY DEF WritersInv, WebInv, WebTypeOK, TypeOK, RegistryTypeOK, DictInv
<1>3. j \in Jobs /\ issued' \in 0..NumJobs /\ issued \in Nat /\ issued' \in Nat /\ issued <= issued'
      /\ j <= issued'
  BY <1>1, <1>2, RegistryAssumption DEF Jobs
<1>4. ProcessesKeep
  BY <1>1, <1>3 DEF ProcessesKeep
<1>5. /\ queued \in TuiJob /\ queued.task = "none"
      /\ new \in TuiJob /\ new.task = "new" /\ new.st = "running"
  BY TuiJobTypes, TuiJobFields, EntryTypes DEF Status, TuiTask
<1>6. Fits(queued, j, proc', issued') /\ Fits(new, j, proc', issued')
  BY <1>3, FitsNew DEF Status, TuiTask
<1>7. tui[j].st = "absent"
  <2>1. ~(j <= issued)
    BY <1>2
  <2> QED BY <1>3, <2>1 DEF WritersInv, DictInv, Fits
<1>8. \A q \in Pids : LiveTui(proc, q) => proc[q].job \in Jobs /\ proc[q].job # j
  BY <1>7 DEF WritersInv, DictInv, Watched
<1>9. \A i \in Jobs : Fits(file[i], i, proc', issued') /\ Fits(tui[i], i, proc', issued')
  BY <1>4, FitsKept DEF WritersInv, WebInv, CopiesFit, DictInv
<1> HIDE DEF j, runs, queued, new
<1>10. /\ tui' \in [Jobs -> TuiJob]
       /\ \A i \in Jobs : Fits(tui'[i], i, proc', issued')
       /\ \A i \in Jobs : i # j => tui'[i] = tui[i]
       /\ tui'[j] \in {queued, new}
  BY <1>1, <1>2, <1>3, <1>5, <1>6, <1>9
<1>11. DictInv(tui', proc', issued')
  <2>1. CASE tui'[j] = queued
    <3>1. \A i \in Jobs :
             \/ tui'[i] = tui[i]
             \/ tui'[i].task \notin {"new", "tail", "follow"}
      BY <1>5, <1>10, <2>1
    <3>2. \A q \in Pids : LiveTui(proc', q) =>
            LiveTui(proc, q) /\ proc'[q].job = proc[q].job /\ tui'[proc[q].job] = tui[proc[q].job]
      BY <1>1, <1>8, <1>10
    <3> QED BY <1>10, <3>1, <3>2, DictKept DEF WritersInv
  <2>2. CASE tui' = [tui EXCEPT ![j] = new] /\ (MaxConcurrent > 0 => ~(runs + 1 >= MaxConcurrent))
    <3>1. Watched(tui', proc')
      <4> SUFFICES ASSUME NEW p \in Pids, LiveTui(proc, p)
                   PROVE  /\ proc[p].job \in Jobs
                          /\ tui'[proc[p].job].st = "running"
                          /\ tui'[proc[p].job].pid = p
                          /\ tui'[proc[p].job].task = "tail"
        BY <1>1 DEF Watched
      <4> QED BY <1>8, <1>10 DEF WritersInv, DictInv, Watched
    <3> DEFINE R == {i \in Jobs : tui[i].st = "running"}
    <3>2. Slots(tui') \subseteq R \union {j}
      BY <1>10 DEF Slots, WritersInv, DictInv, Tasked
    <3>3. IsFiniteSet(R) /\ Cardinality(R) \in Nat /\ R \subseteq Jobs
      BY JobsFinite
    <3>4. Cardinality(R) = runs
      BY DEF runs
    <3> HIDE DEF R
    <3>5. /\ IsFiniteSet(R \union {j}) /\ Cardinality(R \union {j}) \in Nat
          /\ Cardinality(R \union {j}) <= runs + 1
      BY <3>3, <3>4, FS_AddElement, FS_CardinalityType
    <3>6. Cardinality(Slots(tui')) <= Cardinality(R \union {j})
      BY <3>2, <3>5, FS_Subset
    <3>7. Cardinality(Slots(tui')) \in Nat
      BY JobsFinite DEF Slots
    <3>8. MaxConcurrent > 0 => Cardinality(Slots(tui')) <= MaxConcurrent
      BY <2>2, <3>3, <3>4, <3>5, <3>6, <3>7, RegistryAssumption
    <3>9. tui'[j] = new
      BY <1>2, <1>3, <2>2
    <3>10. Tasked(tui')
      BY <1>5, <1>10, <3>8, <3>9 DEF WritersInv, DictInv, Tasked
    <3> QED BY <1>10, <3>1, <3>10 DEF DictInv
  <2> QED BY <1>1, <1>2, <1>3, <2>1, <2>2
<1>12. file' \in Registry /\ \A i \in Jobs : Fits(file'[i], i, proc', issued')
  BY <1>1, <1>2, <1>4, <1>9, <1>10, SavedFits
<1> QED BY <1>1, <1>2, <1>3, <1>4, <1>11, <1>12, TuiFrame

\* What the text UI takes from the file, and what it settles, fits.
LEMMA TakenFits ==
  ASSUME NEW e, NEW j \in Jobs, NEW ps, NEW n, Fits(e, j, ps, n)
  PROVE  /\ \A task : Fits(TuiJobOf(e, task), j, ps, n)
         /\ e.st # "absent" =>
              \A st \in Terminal : Fits(TuiJobOf(EntryOf(st), "none"), j, ps, n)
BY DEF Fits, TuiJobOf, EntryOf, Terminal

\* A session begins with the file, and watches the processes of earlier ones.
LEMMA TuiOpenInv ==
  ASSUME WritersInv, TuiOpen, UNCHANGED <<daemonVars, webVars>>
  PROVE  WritersInv'
<1>1. /\ ~open /\ open' = TRUE /\ UNCHANGED <<locked, proc, joblog, issued>>
      /\ file' \in Saved(tui') /\ tui' = [j \in Jobs |-> tui'[j]]
  BY DEF TuiOpen
<1>2. ASSUME NEW j \in Jobs
      PROVE  \/ file[j].st # "running" /\ tui'[j] = TuiJobOf(file[j], "none")
             \/ tui'[j] = Unknown
             \/ /\ file[j].st = "running"
                /\ \E st \in Terminal : tui'[j] = TuiJobOf(EntryOf(st), "none")
             \/ file[j].st = "running" /\ tui'[j] = TuiJobOf(file[j], "follow")
  <2> DEFINE st == IF TuiVerdict(j) = "success" /\ IsSkipped(joblog[j]) THEN "skipped" ELSE TuiVerdict(j)
  <2>1. st \in Terminal
    BY TuiVerdictIsTerminal DEF Terminal
  <2>2. tui'[j] =
          CASE file[j].st # "running" -> TuiJobOf(file[j], "none")
            [] file[j].st = "running" /\ file[j].pid = NoPid -> Unknown
            [] file[j].st = "running" /\ NotFound(file[j].pid) -> TuiJobOf(EntryOf(st), "none")
            [] OTHER -> TuiJobOf(file[j], "follow")
    BY DEF TuiOpen
  <2> HIDE DEF st
  <2>3. CASE file[j].st # "running"
    BY <2>2, <2>3
  <2>4. CASE file[j].st = "running" /\ file[j].pid = NoPid
    <3>1. ~NotFound(file[j].pid)
      BY <2>4, RegistryAssumption DEF NotFound
    <3> QED BY <2>2, <2>4, <3>1
  <2>5. CASE file[j].st = "running" /\ file[j].pid # NoPid /\ NotFound(file[j].pid)
    BY <2>1, <2>2, <2>5
  <2>6. CASE file[j].st = "running" /\ file[j].pid # NoPid /\ ~NotFound(file[j].pid)
    BY <2>2, <2>6
  <2> QED BY <2>3, <2>4, <2>5, <2>6
<1>3. /\ file \in Registry /\ proc \in [Pids -> Process] /\ joblog \in [Jobs -> SUBSET Marker]
      /\ issued \in 0..NumJobs
  BY DEF WritersInv, WebInv, WebTypeOK, TypeOK, RegistryTypeOK
<1>4. ASSUME NEW j \in Jobs
      PROVE  /\ tui'[j] \in TuiJob
             /\ Fits(tui'[j], j, proc', issued')
             /\ tui'[j].task \notin {"new", "tail"}
             /\ tui'[j].task = "follow" => tui'[j].st = "running"
  <2>1. file[j] \in Entry /\ Fits(file[j], j, proc', issued')
    BY <1>1, <1>3 DEF Registry, WritersInv, WebInv, CopiesFit
  <2>2. \A st \in Terminal : EntryOf(st) \in Entry
    BY EntryTypes DEF Status
  <2>3. "none" \in TuiTask /\ "follow" \in TuiTask
    BY DEF TuiTask
  <2>4. Fits(Unknown, j, proc', issued')
    BY FitsNew
  <2>5. \A task : Fits(TuiJobOf(file[j], task), j, proc', issued')
    BY <2>1, TakenFits
  <2>6. file[j].st = "running" =>
          \A st \in Terminal : Fits(TuiJobOf(EntryOf(st), "none"), j, proc', issued')
    BY <2>1, TakenFits
  <2> QED BY <1>2, <2>1, <2>2, <2>3, <2>4, <2>5, <2>6, TuiJobTypes, TuiJobFields
<1>5. ProcessesKeep
  BY <1>1, QuietKeeps
<1>6. \A p \in Pids : ~LiveTui(proc', p)
  BY <1>1, TuiJobFields DEF WritersInv, ClosedIsEmpty, DictInv, Watched
<1>7. tui' \in [Jobs -> TuiJob]
  BY <1>1, <1>4
<1>8. DictInv(tui', proc', issued')
  BY <1>4, <1>6, <1>7, DictKept DEF WritersInv
<1>9. file' \in Registry /\ \A j \in Jobs : Fits(file'[j], j, proc', issued')
  BY <1>1, <1>4, <1>5, <1>7, SavedFits
<1> QED BY <1>1, <1>3, <1>5, <1>8, <1>9, TuiFrame

\* A session ends: nobody is its child any more.
LEMMA TuiCloseInv ==
  ASSUME WritersInv, TuiClose, UNCHANGED <<daemonVars, webVars>>
  PROVE  WritersInv'
<1>1. /\ open' = FALSE /\ UNCHANGED <<locked, joblog, issued>>
      /\ tui' = [j \in Jobs |-> Unknown]
      /\ file' \in {file, Image(tui), Image(Dispatched(tui))}
      /\ proc' = [p \in Pids |->
           CASE proc[p].parent = "tui" /\ proc[p].st = "live" -> [proc[p] EXCEPT !.parent = "init"]
             [] proc[p].parent = "tui" /\ proc[p].st = "zombie" -> [proc[p] EXCEPT !.st = "gone"]
             [] OTHER -> proc[p]]
  BY DEF TuiClose
<1>2. /\ proc \in [Pids -> Process] /\ joblog \in [Jobs -> SUBSET Marker]
      /\ issued \in 0..NumJobs /\ file \in Registry
  BY DEF WritersInv, WebInv, WebTypeOK, TypeOK, RegistryTypeOK
<1>3. ASSUME NEW p \in Pids
      PROVE  /\ proc'[p] \in Process /\ proc'[p].job = proc[p].job
             /\ proc[p].st # "free" => proc'[p].st # "free"
             /\ ~LiveTui(proc', p)
  <2>1. proc[p] \in Process
    BY <1>2
  <2>2. CASE proc[p].parent = "tui" /\ proc[p].st = "live"
    <3>1. proc'[p] = [proc[p] EXCEPT !.parent = "init"]
      BY <1>1, <2>2
    <3> QED BY <2>1, <2>2, <3>1 DEF Process, LiveTui, Owner
  <2>3. CASE proc[p].parent = "tui" /\ proc[p].st = "zombie"
    <3>1. proc'[p] = [proc[p] EXCEPT !.st = "gone"]
      BY <1>1, <2>3
    <3> QED BY <2>1, <3>1 DEF Process, LiveTui
  <2>4. CASE ~(proc[p].parent = "tui" /\ proc[p].st \in {"live", "zombie"})
    <3>1. proc'[p] = proc[p]
      BY <1>1, <2>4
    <3> QED BY <2>1, <2>4, <3>1 DEF LiveTui
  <2> QED BY <2>2, <2>3, <2>4
<1>4. ProcessesKeep
  BY <1>1, <1>2, <1>3 DEF ProcessesKeep
<1>5. proc' \in [Pids -> Process]
  BY <1>1, <1>3
<1>6. DictInv(tui', proc', issued')
  <2>1. tui' \in [Jobs -> TuiJob] /\ \A j \in Jobs : Fits(tui'[j], j, proc', issued')
    BY <1>1, TuiJobTypes, FitsNew
  <2>2. \A j \in Jobs : tui'[j].task = "none"
    BY <1>1, TuiJobFields
  <2> QED BY <1>3, <2>1, <2>2, DictKept DEF WritersInv
<1>7. file' \in Registry /\ \A j \in Jobs : Fits(file'[j], j, proc', issued')
  <2>1. \A j \in Jobs : Fits(file[j], j, proc', issued')
    BY <1>4, FitsKept DEF WritersInv, WebInv, CopiesFit
  <2>2. ASSUME NEW dict, DictInv(dict, proc, issued), file' = Image(dict)
        PROVE  file' \in Registry /\ \A j \in Jobs : Fits(file'[j], j, proc', issued')
    <3>1. dict \in [Jobs -> TuiJob] /\ \A j \in Jobs : Fits(dict[j], j, proc', issued')
      BY <1>4, <2>2, FitsKept DEF DictInv
    <3> QED BY <2>2, <3>1, ImageFits
  <2>3. DictInv(tui, proc, issued) /\ DictInv(Dispatched(tui), proc, issued)
    BY DispatchedInv DEF WritersInv
  <2> QED BY <1>1, <1>2, <2>1, <2>2, <2>3
<1> QED BY <1>1, <1>2, <1>4, <1>5, <1>6, <1>7, TuiFrame

\* A task starts the process of its job.
LEMMA TuiStartInv ==
  ASSUME WritersInv, NEW j \in Jobs, NEW p \in Pids, TuiStart(j, p),
         UNCHANGED <<daemonVars, webVars>>
  PROVE  WritersInv'
<1> DEFINE started == [st |-> "live", job |-> j, parent |-> "tui", exit |-> "none"]
           tail == TuiJobOf(RunningAs(p), "tail")
<1>1. /\ tui[j].task = "new" /\ Free(p) /\ UNCHANGED <<locked, issued, open>>
      /\ joblog' = [joblog EXCEPT ![j] = {}]
      /\ tui' = [tui EXCEPT ![j] = tail]
      /\ file' \in Saved(tui')
      /\ proc' = [q \in Pids |->
           CASE q = p -> Started(p, j, "tui")[p]
             [] proc[q].parent = "tui" /\ proc[q].st = "zombie"
                  /\ tui[proc[q].job].pid # q -> [proc[q] EXCEPT !.st = "gone"]
             [] OTHER -> proc[q]]
  BY DEF TuiStart
<1>2. /\ proc \in [Pids -> Process] /\ joblog \in [Jobs -> SUBSET Marker]
      /\ issued \in 0..NumJobs /\ tui \in [Jobs -> TuiJob]
  BY DEF WritersInv, WebInv, WebTypeOK, TypeOK, RegistryTypeOK, DictInv
<1>3. Started(p, j, "tui")[p] = started
  BY <1>2 DEF Started
<1>4. open
  BY <1>1, JobIsOpen, TuiJobFields
<1>5. proc'[p] = started /\ started \in Process
  <2>1. started \in Process
    BY RegistryAssumption DEF Process, Jobs, Owner
  <2> HIDE DEF started
  <2> QED BY <1>1, <1>3, <2>1 DEF Free
<1>6. ASSUME NEW q \in Pids, q # p
      PROVE  /\ proc'[q] \in Process
             /\ proc'[q] = proc[q] \/ (proc[q].st = "zombie" /\ proc'[q] = [proc[q] EXCEPT !.st = "gone"])
             /\ proc'[q].job = proc[q].job
             /\ proc[q].st # "free" => proc'[q].st # "free"
             /\ LiveTui(proc', q) => LiveTui(proc, q)
  <2>1. proc[q] \in Process
    BY <1>2
  <2>2. proc'[q] = proc[q] \/ (proc[q].st = "zombie" /\ proc'[q] = [proc[q] EXCEPT !.st = "gone"])
    <3>1. CASE proc[q].parent = "tui" /\ proc[q].st = "zombie" /\ tui[proc[q].job].pid # q
      BY <1>1, <1>6, <3>1
    <3>2. CASE ~(proc[q].parent = "tui" /\ proc[q].st = "zombie" /\ tui[proc[q].job].pid # q)
      BY <1>1, <1>6, <3>2
    <3> QED BY <3>1, <3>2
  <2>3. CASE proc'[q] = proc[q]
    BY <2>1, <2>3 DEF LiveTui
  <2>4. CASE proc[q].st = "zombie" /\ proc'[q] = [proc[q] EXCEPT !.st = "gone"]
    BY <2>1, <2>4 DEF LiveTui, Process
  <2> QED BY <2>2, <2>3, <2>4
<1>7. proc' \in [Pids -> Process]
  BY <1>1, <1>5, <1>6
<1>8. ProcessesKeep
  BY <1>1, <1>2, <1>6 DEF ProcessesKeep, Free
<1>9. j <= issued' /\ tui[j].st = "running"
  BY <1>1 DEF WritersInv, DictInv, Tasked, Fits
<1>10. /\ tail \in TuiJob /\ tail.st = "running" /\ tail.pid = p /\ tail.task = "tail"
       /\ Fits(tail, j, proc', issued')
  <2>1. tail \in TuiJob
    BY TuiJobTypes, EntryTypes DEF TuiTask
  <2>2. Fits(tail, j, proc', issued')
    BY <1>5, <1>9, FitsNew DEF TuiTask
  <2> QED BY <2>1, <2>2, TuiJobFields
<1>11. \A i \in Jobs : Fits(tui[i], i, proc', issued')
  BY <1>8, FitsKept DEF WritersInv, DictInv
<1> HIDE DEF tail
<1>12. /\ tui' \in [Jobs -> TuiJob] /\ tui'[j] = tail
       /\ \A i \in Jobs : i # j => tui'[i] = tui[i]
       /\ \A i \in Jobs : Fits(tui'[i], i, proc', issued')
  BY <1>1, <1>2, <1>10, <1>11
<1>13. Watched(tui', proc')
  <2> SUFFICES ASSUME NEW q \in Pids, LiveTui(proc', q)
               PROVE  /\ proc'[q].job \in Jobs
                      /\ tui'[proc'[q].job].st = "running"
                      /\ tui'[proc'[q].job].pid = q
                      /\ tui'[proc'[q].job].task = "tail"
    BY DEF Watched
  <2>1. CASE q = p
    BY <1>5, <1>10, <1>12, <2>1
  <2>2. CASE q # p
    <3>1. LiveTui(proc, q) /\ proc'[q].job = proc[q].job
      BY <1>6, <2>2
    <3>2. proc[q].job # j
      BY <1>1, <3>1 DEF WritersInv, DictInv, Watched
    <3> QED BY <1>12, <3>1, <3>2 DEF WritersInv, DictInv, Watched
  <2> QED BY <2>1, <2>2
<1>14. Tasked(tui')
  <2>1. Slots(tui') = Slots(tui)
    BY <1>1, <1>10, <1>12 DEF Slots
  <2> QED BY <1>10, <1>12, <2>1 DEF WritersInv, DictInv, Tasked
<1>15. DictInv(tui', proc', issued')
  BY <1>12, <1>13, <1>14 DEF DictInv
<1>16. file' \in Registry /\ \A i \in Jobs : Fits(file'[i], i, proc', issued')
  BY <1>1, <1>8, <1>12, SavedFits
<1>17. joblog' \in [Jobs -> SUBSET Marker]
  BY <1>1, <1>2
<1> QED BY <1>1, <1>2, <1>4, <1>7, <1>8, <1>15, <1>16, <1>17, TuiFrame

LEMMA TuiStartRaisesInv ==
  ASSUME WritersInv, NEW j \in Jobs, TuiStartRaises(j), UNCHANGED <<daemonVars, webVars>>
  PROVE  WritersInv'
<1>1. /\ tui[j].task = "new" /\ tui' = [tui EXCEPT ![j].task = "over"]
      /\ UNCHANGED <<file, locked, proc, joblog, issued, open>>
  BY DEF TuiStartRaises, registryVars
<1>2. /\ proc \in [Pids -> Process] /\ joblog \in [Jobs -> SUBSET Marker] /\ file \in Registry
      /\ issued \in 0..NumJobs /\ tui \in [Jobs -> TuiJob] /\ open \in BOOLEAN
  BY DEF WritersInv, WebInv, WebTypeOK, TypeOK, RegistryTypeOK, DictInv
<1>3. open
  BY <1>1, JobIsOpen, TuiJobFields
<1>4. ProcessesKeep
  BY <1>1, QuietKeeps
<1>5. \A i \in Jobs : Fits(file[i], i, proc', issued') /\ Fits(tui[i], i, proc', issued')
  BY <1>1 DEF WritersInv, WebInv, CopiesFit, DictInv
<1>6. /\ \A i \in Jobs : i # j => tui'[i] = tui[i]
      /\ tui'[j] \in TuiJob /\ tui'[j].st = tui[j].st /\ tui'[j].pid = tui[j].pid
      /\ tui'[j].task = "over"
  <2>1. tui[j] \in TuiJob
    BY <1>2
  <2>2. tui'[j] = [tui[j] EXCEPT !.task = "over"]
    BY <1>1, <1>2
  <2>3. \A i \in Jobs : i # j => tui'[i] = tui[i]
    BY <1>1, <1>2
  <2> QED BY <2>1, <2>2, <2>3 DEF TuiJob, TuiTask
<1>7. tui' \in [Jobs -> TuiJob]
  <2>1. tui' = [i \in Jobs |-> tui'[i]]
    BY <1>1, <1>2
  <2> QED BY <1>2, <1>6, <2>1
<1>8. \A i \in Jobs : Fits(tui'[i], i, proc', issued')
  BY <1>5, <1>6 DEF Fits
<1>9. \A q \in Pids : LiveTui(proc', q) =>
         LiveTui(proc, q) /\ proc'[q].job = proc[q].job /\ tui'[proc[q].job] = tui[proc[q].job]
  BY <1>1, <1>6 DEF WritersInv, DictInv, Watched
<1>10. DictInv(tui', proc', issued')
  BY <1>6, <1>7, <1>8, <1>9, DictKept DEF WritersInv
<1> QED BY <1>1, <1>2, <1>3, <1>4, <1>5, <1>10, TuiFrame

\* reload_registry and check_reconnected touch no job whose task starts or watches a
\* process, and know no other process than those the file names.
LEMMA CheckedInv ==
  ASSUME WritersInv, NEW dict, DictInv(dict, proc, issued),
         NEW reg \in Registry, \A j \in Jobs : Fits(reg[j], j, proc, issued)
  PROVE  DictInv(Checked(Reloaded(dict, reg)), proc, issued)
<1> DEFINE d1 == Reloaded(dict, reg)
           d2 == Checked(d1)
<1>1. dict \in [Jobs -> TuiJob] /\ \A j \in Jobs : Fits(dict[j], j, proc, issued)
  BY DEF DictInv
<1>2. ASSUME NEW j \in Jobs
      PROVE  \/ d1[j] = dict[j]
             \/ d1[j] = Unknown
             \/ d1[j] = TuiJobOf(reg[j], "none")
             \/ reg[j].st = "running" /\ d1[j] = TuiJobOf(EntryOf("unknown"), "none")
  <2> DEFINE new ==
        CASE reg[j].st # "running" -> TuiJobOf(reg[j], "none")
          [] reg[j].st = "running" /\ reg[j].pid = NoPid -> Unknown
          [] reg[j].st = "running" /\ NotFound(reg[j].pid) -> TuiJobOf(EntryOf("unknown"), "none")
          [] OTHER -> TuiJobOf(reg[j], "none")
  <2>1. \/ new = Unknown
        \/ new = TuiJobOf(reg[j], "none")
        \/ reg[j].st = "running" /\ new = TuiJobOf(EntryOf("unknown"), "none")
    <3>1. CASE reg[j].st # "running"
      BY <3>1
    <3>2. CASE reg[j].st = "running" /\ reg[j].pid = NoPid
      <4>1. ~NotFound(reg[j].pid)
        BY <3>2, RegistryAssumption DEF NotFound
      <4> QED BY <3>2, <4>1
    <3>3. CASE reg[j].st = "running" /\ reg[j].pid # NoPid /\ NotFound(reg[j].pid)
      BY <3>3
    <3>4. CASE reg[j].st = "running" /\ reg[j].pid # NoPid /\ ~NotFound(reg[j].pid)
      BY <3>4
    <3> QED BY <3>1, <3>2, <3>3, <3>4
  <2>2. d1[j] =
          CASE dict[j].task # "none" -> dict[j]
            [] dict[j].task = "none" /\ dict[j].st = "absent" -> new
            [] dict[j].task = "none" /\ reg[j].st \in Terminal \union {"absent"} ->
                 TuiJobOf(reg[j], "none")
            [] OTHER -> dict[j]
    BY DEF Reloaded
  <2> HIDE DEF new, d1
  <2>3. CASE dict[j].task # "none"
    BY <2>2, <2>3
  <2>4. CASE dict[j].task = "none" /\ dict[j].st = "absent" /\ reg[j].st \notin Terminal \union {"absent"}
    BY <2>1, <2>2, <2>4
  <2>5. CASE dict[j].task = "none" /\ dict[j].st = "absent" /\ reg[j].st \in Terminal \union {"absent"}
    <3>1. new = TuiJobOf(reg[j], "none")
      <4>1. reg[j].st # "running"
        BY <2>5 DEF Terminal
      <4> QED BY <4>1 DEF new
    <3>2. d1[j] \in {new, TuiJobOf(reg[j], "none")}
      BY <2>2, <2>5, <3>1
    <3> QED BY <3>1, <3>2
  <2>6. CASE dict[j].task = "none" /\ dict[j].st # "absent"
    BY <2>2, <2>6
  <2> QED BY <2>3, <2>4, <2>5, <2>6
<1>3. \A j \in Jobs : dict[j].task # "none" => d1[j] = dict[j]
  BY DEF Reloaded
<1>4. ASSUME NEW j \in Jobs
      PROVE  d1[j] \in TuiJob /\ Fits(d1[j], j, proc, issued)
             /\ (d1[j] = dict[j] \/ d1[j].task = "none")
  <2>1. reg[j] \in Entry /\ Fits(reg[j], j, proc, issued)
    BY DEF Registry
  <2>2. /\ TuiJobOf(reg[j], "none") \in TuiJob /\ Unknown \in TuiJob
        /\ TuiJobOf(EntryOf("unknown"), "none") \in TuiJob
    BY <2>1, TuiJobTypes, EntryTypes DEF TuiTask, Status, Terminal
  <2>3. /\ Fits(Unknown, j, proc, issued) /\ Fits(TuiJobOf(reg[j], "none"), j, proc, issued)
        /\ reg[j].st = "running" => Fits(TuiJobOf(EntryOf("unknown"), "none"), j, proc, issued)
    BY <2>1, FitsNew, TakenFits DEF Terminal
  <2> HIDE DEF d1
  <2> QED BY <1>1, <1>2, <2>2, <2>3, TuiJobFields
<1>5. ASSUME NEW j \in Jobs
      PROVE  \/ d2[j] = d1[j]
             \/ /\ d1[j].st = "running" /\ d1[j].task = "none"
                /\ \E st \in Terminal : d2[j] = TuiJobOf(EntryOf(st), "none")
  BY TuiVerdictIsTerminal DEF Checked, LostJobs
<1>6. d2 = [j \in Jobs |-> d2[j]]
  BY DEF Checked
<1> HIDE DEF d1, d2
<1>7. ASSUME NEW j \in Jobs
      PROVE  d2[j] \in TuiJob /\ Fits(d2[j], j, proc, issued)
             /\ (d2[j] = dict[j] \/ d2[j].task = "none")
             /\ (dict[j].task = "tail" => d2[j] = dict[j])
  <2>1. CASE d2[j] = d1[j]
    BY <1>3, <1>4, <2>1
  <2>2. CASE /\ d1[j].st = "running" /\ d1[j].task = "none"
             /\ \E st \in Terminal : d2[j] = TuiJobOf(EntryOf(st), "none")
    <3>1. PICK st \in Terminal : d2[j] = TuiJobOf(EntryOf(st), "none")
      BY <2>2
    <3>2. TuiJobOf(EntryOf(st), "none") \in TuiJob
      BY TuiJobTypes, EntryTypes DEF TuiTask, Status
    <3>3. Fits(d2[j], j, proc, issued)
      BY <1>4, <2>2, <3>1, TakenFits
    <3> QED BY <1>3, <2>2, <3>1, <3>2, <3>3, TuiJobFields
  <2> QED BY <1>5, <2>1, <2>2
<1>8. d2 \in [Jobs -> TuiJob]
  BY <1>6, <1>7
<1>9. \A p \in Pids : LiveTui(proc, p) => d2[proc[p].job] = dict[proc[p].job]
  BY <1>7 DEF DictInv, Watched
<1>10. \A j \in Jobs : Fits(d2[j], j, proc, issued)
  BY <1>7
<1>11. \A j \in Jobs :
          \/ d2[j] = dict[j]
          \/ /\ d2[j].task \notin {"new", "tail"}
             /\ d2[j].task = "follow" => d2[j].st = "running"
  BY <1>7
<1>12. DictInv(d2, proc, issued)
  BY <1>8, <1>9, <1>10, <1>11, DictKept
<1> QED BY <1>12 DEF d1, d2

\* The timers, on the dictionary or on what remove_finished left of it.
LEMMA HealthCheckInv ==
  ASSUME WritersInv, open, NEW dict, DictInv(dict, proc, issued),
         NEW reg \in Registry, \A j \in Jobs : Fits(reg[j], j, proc, issued),
         HealthCheck(dict, reg), UNCHANGED <<locked, proc, joblog, issued, open>>,
         UNCHANGED <<daemonVars, webVars>>
  PROVE  WritersInv'
<1> DEFINE dict2 == Checked(Reloaded(dict, reg))
<1>1. DictInv(dict2, proc, issued)
  BY CheckedInv
<1>2. file' \in {reg} \union Saved(dict2) /\ tui' = Dispatched(dict2)
  BY DEF HealthCheck
<1>3. ProcessesKeep
  BY QuietKeeps
<1> HIDE DEF dict2
<1>4. DictInv(tui', proc', issued')
  BY <1>1, <1>2, DispatchedInv
<1>5. file' \in Registry /\ \A j \in Jobs : Fits(file'[j], j, proc', issued')
  BY <1>1, <1>2, <1>3, SavedFits DEF DictInv
<1> QED
  BY <1>3, <1>4, <1>5, TuiFrame DEF WritersInv, WebInv, WebTypeOK, TypeOK, RegistryTypeOK

LEMMA TuiTimersInv ==
  ASSUME WritersInv, TuiTimer \/ TuiClear, UNCHANGED <<daemonVars, webVars>>
  PROVE  WritersInv'
<1>1. open /\ UNCHANGED <<locked, proc, joblog, issued, open>>
  BY DEF TuiTimer, TuiClear
<1>2. /\ file \in Registry /\ \A j \in Jobs : Fits(file[j], j, proc, issued)
      /\ DictInv(tui, proc, issued)
  BY DEF WritersInv, WebInv, WebTypeOK, TypeOK, RegistryTypeOK, CopiesFit
<1>3. CASE TuiTimer
  BY <1>1, <1>2, <1>3, HealthCheckInv DEF TuiTimer
<1>4. CASE TuiClear
  <2> DEFINE kept == [j \in Jobs |-> IF tui[j].st \in {"running", "queued"} THEN tui[j] ELSE Unknown]
  <2>1. PICK reg \in Saved(kept) : HealthCheck(kept, reg)
    BY <1>4 DEF TuiClear
  <2>2. kept \in [Jobs -> TuiJob] /\ \A j \in Jobs : Fits(kept[j], j, proc, issued)
    BY <1>2, TuiJobTypes, FitsNew DEF DictInv
  <2>3. \A j \in Jobs : kept[j] = tui[j] \/ kept[j].task = "none"
    BY TuiJobFields
  <2>4. \A p \in Pids : LiveTui(proc, p) => kept[proc[p].job] = tui[proc[p].job]
    BY <1>2 DEF DictInv, Watched
  <2> HIDE DEF kept
  <2>5. DictInv(kept, proc, issued)
    BY <1>2, <2>2, <2>3, <2>4, DictKept
  <2>6. ProcessesKeep
    BY <1>1, QuietKeeps
  <2>7. reg \in Registry /\ \A j \in Jobs : Fits(reg[j], j, proc, issued)
    BY <1>1, <2>2, <2>6, SavedFits
  <2> QED BY <1>1, <2>1, <2>5, <2>7, HealthCheckInv
<1> QED BY <1>3, <1>4

--------------------------------------------------------------------------------
(* All writers at once. *)

LEMMA WebInvInit == WebInit => WebInv
<1> SUFFICES ASSUME WebInit PROVE WebInv
  OBVIOUS
<1>1. TypeOK
  BY TypeInit DEF WebInit
<1>2. WebTypeOK
  BY <1>1, EntryTypes DEF WebInit, WebTypeOK, WebPc
<1>3. file = NoEntries
  BY DEF WebInit, Init, NoEntries, Absent, Jobs
<1>4. \A j \in Jobs : NoEntries[j] = Absent
  BY DEF NoEntries
<1>5. CopiesFit
  BY <1>3, <1>4, FitsNew DEF WebInit, Init, CopiesFit
<1> QED BY <1>2, <1>5 DEF WebInv

LEMMA WritersInit == TuiInit => WritersInv
<1> SUFFICES ASSUME TuiInit PROVE WritersInv
  OBVIOUS
<1>1. WebInv
  BY WebInvInit DEF TuiInit
<1>2. tui \in [Jobs -> TuiJob] /\ \A j \in Jobs : tui[j] = Unknown
  BY TuiJobTypes DEF TuiInit
<1>3. \A p \in Pids : ~LiveTui(proc, p)
  BY DEF TuiInit, WebInit, Init, NoProcess, LiveTui
<1>4. Slots(tui) = {}
  BY <1>2, TuiJobFields DEF Slots
<1>5. Tasked(tui)
  BY <1>2, <1>4, TuiJobFields, FS_EmptySet, RegistryAssumption DEF Tasked
<1>6. \A j \in Jobs : Fits(tui[j], j, proc, issued)
  BY <1>2, FitsNew
<1> QED BY <1>1, <1>2, <1>3, <1>5, <1>6 DEF TuiInit, WritersInv, DictInv, Watched, ClosedIsEmpty

LEMMA WebNextInv ==
  ASSUME WebInv, WebNext
  PROVE  WebInv' /\ Beside
<1>1. CASE WebAlone
  BY <1>1, WebStepInv, ProcessInv DEF WebAlone
<1>2. CASE (DaemonStep \/ Crash) /\ UNCHANGED webVars
  BY <1>2, DaemonInv
<1> QED BY <1>1, <1>2 DEF WebNext

LEMMA TuiStepInv ==
  ASSUME WritersInv, TuiStep, UNCHANGED <<daemonVars, webVars>>
  PROVE  WritersInv'
BY TuiOpenInv, TuiCloseInv, TuiSubmitInv, TuiStartInv, TuiStartRaisesInv, TuiFinishInv,
   TuiFollowEndsInv, TuiKillInv, TuiTimersInv
DEF TuiStep

LEMMA WritersStep == WritersInv /\ [WritersNext]_writersVars => WritersInv'
<1> SUFFICES ASSUME WritersInv, [WritersNext]_writersVars PROVE WritersInv'
  OBVIOUS
<1>1. WebInv
  BY DEF WritersInv
<1>2. CASE WebNext /\ UNCHANGED tuiVars
  BY <1>1, <1>2, WebNextInv, BesideInv
<1>3. CASE TuiNext
  <2>1. CASE TuiStep /\ UNCHANGED <<daemonVars, webVars>>
    BY <2>1, TuiStepInv
  <2>2. CASE (DaemonStep \/ Crash) /\ UNCHANGED <<webVars, tuiVars>>
    BY <1>1, <2>2, DaemonInv, BesideInv
  <2>3. ASSUME NEW p \in Pids, ProcessStep(p), UNCHANGED <<daemonVars, webVars, tuiVars>>
        PROVE  WritersInv'
    BY <1>1, <2>3, ProcessInv, BesideInv
  <2> QED BY <1>3, <2>1, <2>2, <2>3 DEF TuiNext
<1>4. ASSUME NEW p \in Pids, ShellStep(p), UNCHANGED <<daemonVars, webVars, tuiVars>>
      PROVE  WritersInv'
  BY <1>1, <1>4, ShellInv, BesideInv
<1>5. CASE UNCHANGED writersVars
  <2>1. UNCHANGED <<file, locked, proc, joblog, issued, dpc, entries, crashes,
                    jobs, tlock, wpc, wjobs, open, tui>>
    BY <1>5 DEF writersVars, allVars, vars, registryVars, daemonVars, webVars, tuiVars
  <2> QED
    BY <2>1
    DEF WritersInv, WebInv, WebTypeOK, TypeOK, RegistryTypeOK, CopiesFit, DictInv, Watched,
        Tasked, Slots, ClosedIsEmpty
<1> QED BY <1>2, <1>3, <1>4, <1>5 DEF WritersNext

LEMMA WritersInvariance == WritersSpec => []WritersInv
BY WritersInit, WritersStep, PTL DEF WritersSpec

\* Type correctness of the registry, the processes, the daemon, the dashboard and the text UI.
THEOREM TuiTypeCorrect == WritersSpec => []TuiTypeOK
<1>1. WritersInv => TuiTypeOK
  BY DEF WritersInv, WebInv, TuiTypeOK, DictInv
<1> QED BY <1>1, WritersInvariance, PTL

\* However many writers overwrite each other's registry, crash and fail to save: the pid
\* of a running entry, in the file and in every copy of it, is that of a process started
\* for this very job, so no kill hits, and no verdict is read from, another job.
THEOREM EveryPidIsOfItsJobThm == WritersSpec => []EveryPidIsOfItsJob
<1>1. WritersInv => EveryPidIsOfItsJob
  <2> SUFFICES ASSUME WritersInv,
                      NEW reg \in {file, entries, jobs, Image(tui)} \union {wjobs[t] : t \in Threads},
                      NEW j \in Running(reg), reg[j].pid # NoPid
               PROVE  proc[reg[j].pid].job = j
    BY DEF EveryPidIsOfItsJob
  <2>1. j \in Jobs /\ reg[j].st = "running"
    BY DEF Running
  <2>2. Fits(Image(tui)[j], j, proc, issued)
    BY <2>1, ImageFits DEF WritersInv, DictInv
  <2>3. Fits(reg[j], j, proc, issued)
    BY <2>1, <2>2 DEF WritersInv, WebInv, CopiesFit
  <2> QED BY <2>1, <2>3 DEF Fits
<1> QED BY <1>1, WritersInvariance, PTL

\* Whatever the others write to the file, finish or clean up: a run that this session of
\* the text UI started and that still runs is in its dictionary with its pid.
THEOREM TuiLiveIsKnownThm == WritersSpec => []TuiLiveIsKnown
<1>1. WritersInv => TuiLiveIsKnown
  BY DEF WritersInv, DictInv, Watched, TuiLiveIsKnown, LiveTui, Live
<1> QED BY <1>1, WritersInvariance, PTL

\* The runs a session of the text UI started are never more than MAX_CONCURRENT_JOBS:
\* each holds a slot, and neither a submit nor a dispatch fills more slots than there are.
THEOREM TuiWithinLimitThm == WritersSpec => []TuiWithinLimit
<1>1. WritersInv => TuiWithinLimit
  <2> SUFFICES ASSUME WritersInv, MaxConcurrent > 0
               PROVE  Cardinality({p \in Pids : Live(p) /\ proc[p].parent = "tui"}) <= MaxConcurrent
    BY DEF TuiWithinLimit
  <2> DEFINE runs == {p \in Pids : Live(p) /\ proc[p].parent = "tui"}
             f == [p \in runs |-> proc[p].job]
  <2>1. \A p \in runs : proc[p].job \in Slots(tui) /\ tui[proc[p].job].pid = p
    BY DEF WritersInv, DictInv, Watched, LiveTui, Live, Slots
  <2>2. f \in Injection(runs, Slots(tui))
    <3>1. f \in [runs -> Slots(tui)]
      BY <2>1
    <3>2. \A p, q \in runs : f[p] = f[q] => p = q
      BY <2>1
    <3> HIDE DEF f
    <3> QED BY <3>1, <3>2 DEF Injection, IsInjective
  <2>3. IsFiniteSet(Slots(tui)) /\ Cardinality(Slots(tui)) \in Nat
    BY JobsFinite DEF Slots
  <2> HIDE DEF runs, f
  <2>4. Cardinality(runs) <= Cardinality(Slots(tui)) /\ Cardinality(runs) \in Nat
    BY <2>2, <2>3, FS_Injection, FS_CardinalityType
  <2> QED BY <2>3, <2>4, RegistryAssumption DEF WritersInv, DictInv, Tasked, runs
<1> QED BY <1>1, WritersInvariance, PTL

--------------------------------------------------------------------------------
(* A dashboard whose requests do not overlap, and in which no start and no save fails.    *)
(* waitress serves in several threads and nothing in the code keeps their requests apart; *)
(* the run web_two_threads shows what is lost when two of them meet.                      *)

\* At most one thread is in a request.
Serial == \A t, u \in Threads : wpc[t] # "idle" /\ wpc[u] # "idle" => t = u

Saving(t) == wpc[t] \in {"save", "save_unlock", "save_dispatch"}

\* While one thread takes a step the others are between requests.
LEMMA OthersIdle ==
  ASSUME Serial, Serial', WebInv, NEW t \in Threads, WebStep(t), \A j \in Jobs : ~KillRunning(t, j)
  PROVE  \A u \in Threads \ {t} : wpc[u] = "idle" /\ wpc'[u] = "idle"
<1>1. wpc \in [Threads -> WebPc]
  BY DEF WebInv, WebTypeOK
<1>2. CASE FlockRead(t) \/ CreateAndStart(t) \/ RemoveFinished(t) \/ \E j \in Jobs : CancelQueued(t, j)
  <2>1. wpc'[t] # "idle" /\ \A u \in Threads \ {t} : wpc'[u] = wpc[u]
    BY <1>1, <1>2 DEF FlockRead, CreateAndStart, RemoveFinished, CancelQueued, BuildEntries, Goto
  <2> QED BY <2>1 DEF Serial
<1>3. CASE SaveRegistry(t) \/ DispatchQueue(t) \/ DispatchQueueDone(t) \/ WebDispatchRaises(t)
           \/ (\E j \in Jobs : CancelJob(t, j)) \/ \E p \in Pids : WebDispatchOne(t, p)
  <2>1. wpc[t] # "idle" /\ \A u \in Threads \ {t} : wpc'[u] = wpc[u]
    BY <1>1, <1>3 DEF SaveRegistry, DispatchQueue, DispatchQueueDone, WebDispatchRaises, CancelJob,
       WebDispatchOne, BuildEntries, Goto
  <2> QED BY <2>1 DEF Serial
<1>4. CASE Refresh(t)
  <2>1. \A u \in Threads \ {t} : wpc[u] = "idle"
    BY <1>4 DEF Refresh, Serial
  <2>2. ASSUME NEW u \in Threads \ {t} PROVE wpc'[u] = wpc[u]
    BY <1>4, <2>1, <2>2 DEF Refresh
  <2> QED BY <2>1, <2>2
<1> QED BY <1>2, <1>3, <1>4 DEF WebStep

--------------------------------------------------------------------------------
(* Beside the daemon: what the dashboard started stays known to it. *)

WebRun(p) == Live(p) /\ proc[p].parent = "web"

\* A cancel has picked a queued job, a dispatch goes through jobs of the dictionary.
Lists ==
  \A t \in Threads :
    /\ wpc[t] \notin {"detached", "cancel_old"}
    /\ wpc[t] = "cancel" => \A j \in Jobs : wjobs[t][j].st # "absent" => jobs[j].st = "queued"
    /\ wpc[t] = "dispatching" => \A j \in Jobs : wjobs[t][j] \in {Absent, jobs[j]}

\* A run is in the dictionary, in what is read and saved, and in the file unless the
\* request that started it has still to save.
Kept(p) ==
  LET j == proc[p].job  run == RunningAs(p) IN
  /\ j \in Jobs
  /\ jobs[j] = run
  /\ \/ file[j] = run
     \/ \E t \in Threads : Saving(t) \/ (wpc[t] = "dispatching" /\ wjobs[t][j] = run)
  /\ \A t \in Threads : wpc[t] = "refresh" \/ Saving(t) => wjobs[t][j] = run

KeptInv ==
  /\ WebInv
  /\ LoadedIsCurrent
  /\ Lists
  /\ \A p \in Pids : WebRun(p) => Kept(p)
  /\ WebWithinLimit

\* A process that was waited for ran no more.
LEMMA ReapedAreNoRuns ==
  ASSUME proc \in [Pids -> Process],
         \A p \in Pids : proc'[p] = proc[p] \/ proc'[p] = [proc[p] EXCEPT !.st = "gone"]
  PROVE  \A p \in Pids : WebRun(p)' => WebRun(p) /\ proc'[p] = proc[p]
<1> SUFFICES ASSUME NEW p \in Pids, WebRun(p)' PROVE WebRun(p) /\ proc'[p] = proc[p]
  OBVIOUS
<1>1. proc'[p].st = "live" /\ proc'[p].parent = "web"
  BY DEF WebRun, Live
<1>2. proc[p] \in Process
  OBVIOUS
<1>3. proc'[p] # [proc[p] EXCEPT !.st = "gone"]
  BY <1>1, <1>2 DEF Process
<1> QED BY <1>1, <1>3 DEF WebRun, Live

LEMMA RunningFinite ==
  \A reg : IsFiniteSet(Running(reg)) /\ Cardinality(Running(reg)) \in Nat
BY JobsFinite DEF Running

LEMMA RunsFinite == \A S \in SUBSET Pids : IsFiniteSet(S) /\ Cardinality(S) \in Nat
BY RegistryAssumption, FS_Subset, FS_CardinalityType

\* What the dashboard counts is at least what it runs.
LEMMA RunsAreInDictionary ==
  ASSUME \A p \in Pids : WebRun(p) => proc[p].job \in Jobs /\ jobs[proc[p].job] = RunningAs(p)
  PROVE  Cardinality(LiveWebRuns) <= Cardinality(Running(jobs))
<1> DEFINE f == [p \in LiveWebRuns |-> proc[p].job]
<1>1. \A p \in LiveWebRuns : proc[p].job \in Running(jobs) /\ jobs[proc[p].job].pid = p
  <2> SUFFICES ASSUME NEW p \in LiveWebRuns
               PROVE  proc[p].job \in Running(jobs) /\ jobs[proc[p].job].pid = p
    OBVIOUS
  <2>1. p \in Pids /\ WebRun(p)
    BY DEF LiveWebRuns, WebRun
  <2>2. proc[p].job \in Jobs /\ jobs[proc[p].job] = RunningAs(p)
    BY <2>1
  <2>3. RunningAs(p).st = "running" /\ RunningAs(p).pid = p
    BY DEF RunningAs
  <2> QED BY <2>2, <2>3 DEF Running
<1>2. f \in Injection(LiveWebRuns, Running(jobs))
  <2>1. f \in [LiveWebRuns -> Running(jobs)]
    BY <1>1
  <2>2. \A p, q \in LiveWebRuns : f[p] = f[q] => p = q
    BY <1>1
  <2> HIDE DEF f
  <2> QED BY <2>1, <2>2 DEF Injection, IsInjective
<1> HIDE DEF f
<1> QED BY <1>2, RunningFinite, FS_Injection

\* A step that starts nothing keeps the limit, one that starts a run keeps it if there
\* was room in the dictionary.
LEMMA LimitKept ==
  ASSUME WebWithinLimit, LiveWebRuns' \subseteq LiveWebRuns
  PROVE  WebWithinLimit'
<1>1. LiveWebRuns \in SUBSET Pids /\ LiveWebRuns' \in SUBSET Pids
  BY DEF LiveWebRuns
<1>2. Cardinality(LiveWebRuns') <= Cardinality(LiveWebRuns)
  BY <1>1, RunsFinite, FS_Subset
<1>3. Cardinality(LiveWebRuns') \in Nat /\ Cardinality(LiveWebRuns) \in Nat
  BY <1>1, RunsFinite
<1> QED BY <1>2, <1>3, RegistryAssumption DEF WebWithinLimit

LEMMA LimitTaken ==
  ASSUME KeptInv, UnderLimit(jobs), NEW p \in Pids, LiveWebRuns' \subseteq LiveWebRuns \union {p}
  PROVE  WebWithinLimit'
<1>1. LiveWebRuns \in SUBSET Pids /\ LiveWebRuns' \in SUBSET Pids
  BY DEF LiveWebRuns
<1>2. /\ IsFiniteSet(LiveWebRuns \union {p})
      /\ Cardinality(LiveWebRuns \union {p}) <= Cardinality(LiveWebRuns) + 1
  BY <1>1, RunsFinite, FS_AddElement
<1>3. /\ Cardinality(LiveWebRuns') <= Cardinality(LiveWebRuns \union {p})
      /\ Cardinality(LiveWebRuns \union {p}) \in Nat
  BY <1>2, FS_Subset, FS_CardinalityType
<1>4. Cardinality(LiveWebRuns) <= Cardinality(Running(jobs))
  BY RunsAreInDictionary DEF KeptInv, Kept
<1>5. /\ Cardinality(LiveWebRuns') \in Nat /\ Cardinality(LiveWebRuns) \in Nat
      /\ Cardinality(Running(jobs)) \in Nat
  BY <1>1, RunsFinite, RunningFinite
<1> QED BY <1>2, <1>3, <1>4, <1>5, RegistryAssumption DEF WebWithinLimit, UnderLimit

\* A step that starts nothing.
LEMMA KeptQuiet ==
  ASSUME KeptInv, WebInv', LoadedIsCurrent', Lists',
         \A p \in Pids : WebRun(p)' => WebRun(p) /\ proc'[p] = proc[p],
         \A p \in Pids : WebRun(p) /\ WebRun(p)' => Kept(p)'
  PROVE  KeptInv'
<1>1. LiveWebRuns' \subseteq LiveWebRuns
  BY DEF LiveWebRuns, WebRun
<1>2. WebWithinLimit'
  BY <1>1, LimitKept DEF KeptInv
<1> QED BY <1>2 DEF KeptInv

\* A step beside the dashboard that leaves its running entries in the file.
LEMMA KeptBeside ==
  ASSUME KeptInv, WebInv', LoadedIsCurrent', UNCHANGED webVars,
         \A p \in Pids : WebRun(p)' => WebRun(p) /\ proc'[p] = proc[p],
         \A p \in Pids : LET j == proc[p].job IN
            WebRun(p) /\ j \in Jobs /\ file[j] = RunningAs(p) => file'[j] = RunningAs(p)
  PROVE  KeptInv'
<1>1. jobs' = jobs /\ wpc' = wpc /\ wjobs' = wjobs
  BY DEF webVars
<1>2. Lists'
  BY <1>1 DEF KeptInv, Lists
<1>3. ASSUME NEW p \in Pids, WebRun(p), WebRun(p)' PROVE Kept(p)'
  <2>1. Kept(p) /\ proc'[p] = proc[p]
    BY <1>3 DEF KeptInv
  <2> QED BY <1>1, <1>3, <2>1 DEF Kept, Saving
<1> QED BY <1>2, <1>3, KeptQuiet

\* The daemon records no verdict on a child of another process that still runs.
LEMMA KeptDaemon ==
  ASSUME KeptInv, DaemonStep \/ Crash, UNCHANGED webVars
  PROVE  KeptInv'
<1>1. WebInv' /\ LoadedIsCurrent
  BY DaemonInv DEF KeptInv
<1>2. proc \in [Pids -> Process] /\ entries \in Registry /\ file \in Registry
  BY DEF KeptInv, WebInv, WebTypeOK, TypeOK, RegistryTypeOK
<1>3. ASSUME UNCHANGED <<file, proc>>, LoadedIsCurrent' PROVE KeptInv'
  BY <1>1, <1>3, KeptBeside DEF WebRun, Live
<1>4. ASSUME NEW new, SaveAndUnlock(new), locked,
             \A p \in Pids : WebRun(p)' => WebRun(p) /\ proc'[p] = proc[p],
             \A p \in Pids : LET j == proc[p].job IN
                WebRun(p) /\ j \in Jobs /\ entries[j] = RunningAs(p) => new[j] = RunningAs(p)
      PROVE  KeptInv'
  <2>1. LoadedIsCurrent'
    BY <1>4 DEF SaveAndUnlock, LoadedIsCurrent
  <2>2. ASSUME NEW p \in Pids, WebRun(p), proc[p].job \in Jobs, file[proc[p].job] = RunningAs(p)
        PROVE  file'[proc[p].job] = RunningAs(p)
    <3>1. entries[proc[p].job] = RunningAs(p)
      BY <1>1, <1>4, <2>2 DEF LoadedIsCurrent, RunningAs
    <3> QED BY <1>4, <2>2, <3>1 DEF SaveAndUnlock
  <2> QED BY <1>1, <1>4, <2>1, <2>2, KeptBeside
<1>5. CASE LockAndLoad \/ DispatchRaises \/ Restart
  <2>1. LoadedIsCurrent'
    BY <1>1, <1>5 DEF LockAndLoad, DispatchRaises, Restart, LoadedIsCurrent, registryVars
  <2> QED BY <1>3, <1>5, <2>1 DEF LockAndLoad, DispatchRaises, Restart, registryVars
<1>6. CASE CheckJobs
  <2> DEFINE new == [j \in Jobs |-> IF j \in DeadJobs THEN EntryOf(Verdict(j)) ELSE entries[j]]
  <2>1. SaveAndUnlock(new) /\ locked
    BY <1>6 DEF CheckJobs
  <2>2. \A p \in Pids : proc'[p] = proc[p] \/ (Reapable(p) /\ proc'[p] = [proc[p] EXCEPT !.st = "gone"])
    BY <1>6 DEF CheckJobs
  <2>3. \A p \in Pids : WebRun(p)' => WebRun(p) /\ proc'[p] = proc[p]
    BY <1>2, <2>2, ReapedAreNoRuns
  <2>4. ASSUME NEW p \in Pids, WebRun(p), proc[p].job \in Jobs, entries[proc[p].job] = RunningAs(p)
        PROVE  new[proc[p].job] = RunningAs(p)
    <3>1. proc[p].job \notin DeadJobs
      BY <2>4 DEF DeadJobs, RunningAs, SeenDead, Reapable, WebRun, Live
    <3> QED BY <2>4, <3>1
  <2> HIDE DEF new
  <2> QED BY <1>4, <2>1, <2>3, <2>4
<1>7. ASSUME NEW p \in Pids, DispatchOne(p) PROVE KeptInv'
  <2> DEFINE j == FirstQueued(entries)
  <2>1. j \in Jobs /\ entries[j].st = "queued"
    BY <1>7, FirstQueuedIsOldest DEF DispatchOne, CanDispatch, Queued
  <2>2. /\ dpc = "dispatch" /\ locked /\ UNCHANGED <<dpc, locked, file>>
        /\ entries' = [entries EXCEPT ![j] = RunningAs(p)] /\ proc' = Started(p, j, "daemon")
    BY <1>7 DEF DispatchOne
  <2> HIDE DEF j
  <2>3. file[j].st = "queued"
    BY <1>1, <2>1, <2>2 DEF LoadedIsCurrent
  <2>4. \A i \in Jobs : entries'[i] = entries[i] \/ (i = j /\ entries'[i] = RunningAs(p))
    BY <1>2, <2>1, <2>2 DEF Registry
  <2>5. LoadedIsCurrent'
    BY <1>1, <2>2, <2>3, <2>4 DEF LoadedIsCurrent, RunningAs
  <2>6. \A q \in Pids : WebRun(q)' => WebRun(q) /\ proc'[q] = proc[q]
    BY <1>2, <2>2 DEF Started, WebRun, Live
  <2> QED BY <1>1, <2>2, <2>5, <2>6, KeptBeside
<1>8. CASE DispatchDone
  BY <1>4, <1>8 DEF DispatchDone, WebRun, Live
<1>9. CASE CleanupOldEntries
  <2>1. PICK old \in SUBSET {j \in Jobs : entries[j].st \in Terminal} :
          SaveAndUnlock([j \in Jobs |-> IF j \in old THEN Absent ELSE entries[j]])
    BY <1>9 DEF CleanupOldEntries
  <2> DEFINE new == [j \in Jobs |-> IF j \in old THEN Absent ELSE entries[j]]
  <2>2. locked /\ proc' = proc
    BY <1>9 DEF CleanupOldEntries
  <2>3. \A p \in Pids : WebRun(p)' => WebRun(p) /\ proc'[p] = proc[p]
    BY <2>2 DEF WebRun, Live
  <2>4. \A p \in Pids : LET j == proc[p].job IN
           WebRun(p) /\ j \in Jobs /\ entries[j] = RunningAs(p) => new[j] = RunningAs(p)
    BY DEF RunningAs, Terminal
  <2> HIDE DEF new
  <2> QED BY <1>4, <2>1, <2>2, <2>3, <2>4 DEF new
<1>10. CASE Crash
  <2>1. file' = file /\ locked' = FALSE /\ proc' = [p \in Pids |-> Orphaned(p)]
    BY <1>10 DEF Crash
  <2>2. ASSUME NEW p \in Pids, WebRun(p)' PROVE WebRun(p) /\ proc'[p] = proc[p]
    <3>1. proc'[p] = Orphaned(p) /\ proc'[p].st = "live" /\ proc'[p].parent = "web"
      BY <2>1, <2>2 DEF WebRun, Live
    <3>2. proc[p].parent # "daemon"
      BY <1>2, <3>1 DEF Orphaned, Process
    <3>3. proc'[p] = proc[p]
      BY <3>1, <3>2 DEF Orphaned
    <3> QED BY <3>1, <3>3 DEF WebRun, Live
  <2>3. LoadedIsCurrent'
    BY <2>1 DEF LoadedIsCurrent
  <2> QED BY <1>1, <2>1, <2>2, <2>3, KeptBeside
<1> QED BY <1>5, <1>6, <1>7, <1>8, <1>9, <1>10 DEF DaemonStep

\* A process the dashboard starts for a queued or a new job, while there is room.
LEMMA KeptStart ==
  ASSUME KeptInv, WebInv', LoadedIsCurrent', Lists', NEW t \in Threads, NEW p \in Pids, NEW j \in Jobs,
         WebStart(p, j), UNCHANGED file, UnderLimit(jobs), jobs[j].st # "running",
         jobs' = [jobs EXCEPT ![j] = RunningAs(p)],
         \A u \in Threads \ {t} : wpc[u] = "idle" /\ wpc'[u] = "idle",
         \/ /\ wpc[t] = "idle" /\ Saving(t)' /\ wjobs'[t] = jobs'
         \/ /\ wpc[t] = "dispatching" /\ wpc'[t] = "dispatching"
            /\ wjobs' = [wjobs EXCEPT ![t][j] = RunningAs(p)]
  PROVE  KeptInv'
<1>1. /\ jobs \in Registry /\ proc \in [Pids -> Process] /\ wjobs \in [Threads -> Registry]
  BY DEF KeptInv, WebInv, WebTypeOK, TypeOK, RegistryTypeOK
<1>2. /\ Free(p) /\ \A q \in Pids : q # p => proc'[q] = proc[q]
      /\ proc'[p].st = "live" /\ proc'[p].job = j /\ proc'[p].parent = "web"
  BY <1>1 DEF WebStart, Started
<1>3. jobs'[j] = RunningAs(p) /\ \A i \in Jobs : i # j => jobs'[i] = jobs[i]
  BY <1>1 DEF Registry
<1>4. \/ Saving(t)' /\ wjobs'[t] = jobs' /\ wpc[t] = "idle"
      \/ /\ wpc[t] = "dispatching" /\ wpc'[t] = "dispatching" /\ wjobs'[t][j] = RunningAs(p)
         /\ \A i \in Jobs : i # j => wjobs'[t][i] = wjobs[t][i]
  BY <1>1 DEF Registry
<1>5. WebWithinLimit'
  <2>1. LiveWebRuns' \subseteq LiveWebRuns \union {p}
    BY <1>2 DEF LiveWebRuns, Live
  <2> QED BY <2>1, LimitTaken
<1>6. ASSUME NEW q \in Pids, WebRun(q)' PROVE Kept(q)'
  <2>1. CASE q = p
    <3>1. \A u \in Threads \ {t} : ~(wpc'[u] = "refresh" \/ Saving(u)')
      BY DEF Saving
    <3> QED BY <1>2, <1>3, <1>4, <2>1, <3>1 DEF Kept, Saving
  <2>2. CASE q # p
    <3> DEFINE i == proc[q].job
    <3>1. WebRun(q) /\ proc'[q] = proc[q]
      BY <1>2, <1>6, <2>2 DEF WebRun, Live
    <3>2. Kept(q) /\ i \in Jobs /\ jobs[i] = RunningAs(q)
      BY <3>1 DEF KeptInv, Kept
    <3>3. i # j /\ jobs'[i] = RunningAs(q)
      BY <1>3, <3>2 DEF RunningAs
    <3>4. CASE wpc[t] = "idle"
      <4>1. file[i] = RunningAs(q)
        BY <3>2, <3>4 DEF Kept, Saving
      <4> QED BY <1>4, <3>1, <3>2, <3>3, <3>4, <4>1 DEF Kept, Saving
    <3>5. CASE wpc[t] = "dispatching"
      <4>1. wpc'[t] = "dispatching" /\ wjobs'[t][i] = wjobs[t][i]
        BY <1>4, <3>2, <3>3, <3>5
      <4>2. file[i] = RunningAs(q) \/ wjobs[t][i] = RunningAs(q)
        BY <3>2, <3>5 DEF Kept, Saving
      <4> HIDE DEF i
      <4>3. \A u \in Threads : ~(wpc'[u] = "refresh" \/ Saving(u)')
        BY <4>1 DEF Saving
      <4> QED BY <3>1, <3>2, <3>3, <4>1, <4>2, <4>3 DEF Kept, i
    <3> QED BY <1>4, <3>4, <3>5
  <2> QED BY <2>1, <2>2
<1> QED BY <1>5, <1>6 DEF KeptInv

LEMMA KeptRefresh ==
  ASSUME Serial, Serial', KeptInv, NEW t \in Threads, Refresh(t), UNCHANGED daemonVars,
         WebInv', LoadedIsCurrent', \A u \in Threads \ {t} : wpc[u] = "idle" /\ wpc'[u] = "idle"
  PROVE  KeptInv'
<1> DEFINE dead == WebDead(wjobs[t])
<1>1. /\ wpc[t] = "refresh"
      /\ jobs' = [j \in Jobs |-> IF j \in dead THEN EntryOf(WebVerdict(j, wjobs[t][j].pid))
                                              ELSE wjobs[t][j]]
      /\ wpc'[t] \in {"idle", "save_dispatch"} /\ file' = file
  BY DEF Refresh
<1>2. /\ proc \in [Pids -> Process] /\ wjobs \in [Threads -> Registry]
  BY DEF KeptInv, WebInv, WebTypeOK, TypeOK, RegistryTypeOK
<1>3. wpc'[t] = "save_dispatch" => wjobs'[t] = jobs'
  BY <1>2 DEF Refresh
<1>4. \A p \in Pids : proc'[p] = proc[p] \/ (WebReapable(p) /\ proc'[p] = [proc[p] EXCEPT !.st = "gone"])
  BY DEF Refresh
<1>5. \A p \in Pids : WebRun(p)' => WebRun(p) /\ proc'[p] = proc[p]
  BY <1>2, <1>4, ReapedAreNoRuns
<1>6. Lists'
  BY <1>1 DEF KeptInv, Lists
<1>7. ASSUME NEW p \in Pids, WebRun(p), WebRun(p)' PROVE Kept(p)'
  <2> DEFINE j == proc[p].job
  <2>1. Kept(p) /\ proc'[p] = proc[p] /\ j \in Jobs
    BY <1>5, <1>7 DEF KeptInv, Kept
  <2>2. wjobs[t][j] = RunningAs(p) /\ file[j] = RunningAs(p)
    BY <1>1, <2>1 DEF Kept, Saving
  <2>3. j \notin dead
    BY <1>7, <2>2 DEF WebDead, WebReapable, WebRun, Live, RunningAs
  <2>4. jobs'[j] = RunningAs(p)
    BY <1>1, <2>1, <2>2, <2>3
  <2>5. \A u \in Threads : wpc'[u] = "refresh" \/ Saving(u)' => wjobs'[u][j] = RunningAs(p)
    BY <1>1, <1>3, <2>4 DEF Saving
  <2> HIDE DEF j
  <2> QED BY <1>1, <2>1, <2>2, <2>4, <2>5 DEF Kept, j
<1> QED BY <1>5, <1>6, <1>7, KeptQuiet

LEMMA KeptWebStep ==
  ASSUME Serial, Serial', WebFaults = {}, KeptInv, NEW t \in Threads, WebStep(t), UNCHANGED daemonVars
  PROVE  KeptInv'
<1>1. WebInv'
  BY WebStepInv DEF KeptInv
<1>2. /\ jobs \in Registry /\ file \in Registry /\ wjobs \in [Threads -> Registry]
      /\ wpc \in [Threads -> WebPc] /\ issued \in Nat /\ proc \in [Pids -> Process]
  BY DEF KeptInv, WebInv, WebTypeOK, TypeOK, RegistryTypeOK
<1>3. CASE \E j \in Jobs : KillRunning(t, j)
  <2>1. PICK p \in Pids : ProcKilled(p) /\ UNCHANGED webVars
    BY <1>3 DEF KillRunning
  <2>2. file' = file /\ locked' = locked /\ \E o : proc' = Exited(p, o)
    BY <2>1 DEF ProcKilled
  <2>3. LoadedIsCurrent'
    BY <2>2 DEF KeptInv, LoadedIsCurrent, daemonVars
  <2>4. \A q \in Pids : WebRun(q)' => WebRun(q) /\ proc'[q] = proc[q]
    BY <1>2, <2>2 DEF Exited, ExitState, WebRun, Live, Process
  <2> QED BY <1>1, <2>1, <2>2, <2>3, <2>4, KeptBeside
<1> SUFFICES ASSUME \A j \in Jobs : ~KillRunning(t, j) PROVE KeptInv'
  BY <1>3
<1>4. \A u \in Threads \ {t} : wpc[u] = "idle" /\ wpc'[u] = "idle"
  BY OthersIdle DEF KeptInv
<1>5. LoadedIsCurrent'
  <2>1. locked' = locked /\ (file' = file \/ ~locked)
    BY DEF WebStep, FlockRead, Refresh, SaveRegistry, CreateAndStart, DispatchQueue,
       WebDispatchOne, DispatchQueueDone, WebDispatchRaises, CancelQueued, CancelJob, RemoveFinished,
       registryVars
  <2> QED BY <2>1 DEF KeptInv, LoadedIsCurrent, daemonVars
<1>6. /\ wpc[t] \notin {"detached", "cancel_old"}
      /\ wpc[t] = "cancel" => \A j \in Jobs : wjobs[t][j].st # "absent" => jobs[j].st = "queued"
      /\ wpc[t] = "dispatching" => \A j \in Jobs : wjobs[t][j] \in {Absent, jobs[j]}
  BY DEF KeptInv, Lists
<1>7. ASSUME NEW p \in Pids, WebRun(p)
      PROVE  /\ proc[p].job \in Jobs /\ jobs[proc[p].job] = RunningAs(p)
             /\ \/ file[proc[p].job] = RunningAs(p)
                \/ Saving(t)
                \/ wpc[t] = "dispatching" /\ wjobs[t][proc[p].job] = RunningAs(p)
             /\ wpc[t] = "refresh" \/ Saving(t) => wjobs[t][proc[p].job] = RunningAs(p)
  BY <1>4, <1>7 DEF KeptInv, Kept, Saving
<1>8. ASSUME UNCHANGED proc, Lists',
             \A p \in Pids : LET j == proc[p].job IN WebRun(p) =>
               /\ jobs'[j] = RunningAs(p)
               /\ \/ file'[j] = RunningAs(p)
                  \/ Saving(t)'
                  \/ wpc'[t] = "dispatching" /\ wjobs'[t][j] = RunningAs(p)
               /\ wpc'[t] = "refresh" \/ Saving(t)' => wjobs'[t][j] = RunningAs(p)
      PROVE  KeptInv'
  <2>1. ASSUME NEW p \in Pids, WebRun(p), WebRun(p)' PROVE Kept(p)'
    <3>1. proc[p].job \in Jobs /\ proc' = proc
      BY <1>7, <1>8, <2>1
    <3> QED BY <1>4, <1>8, <2>1, <3>1 DEF Kept, Saving
  <2>2. \A p \in Pids : WebRun(p)' => WebRun(p) /\ proc'[p] = proc[p]
    BY <1>8 DEF WebRun, Live
  <2> QED BY <1>1, <1>5, <1>8, <2>1, <2>2, KeptQuiet
<1>9. CASE FlockRead(t)
  <2>1. /\ wpc[t] = "idle" /\ wpc'[t] = "refresh" /\ wjobs'[t] = file
        /\ UNCHANGED <<file, jobs, proc>>
    BY <1>2, <1>9 DEF FlockRead, Goto, registryVars
  <2>2. Lists'
    BY <1>4, <2>1 DEF Lists
  <2> QED BY <1>7, <1>8, <2>1, <2>2 DEF Saving
<1>10. CASE SaveRegistry(t)
  <2>1. /\ Saving(t) /\ file' = wjobs[t] /\ wpc'[t] \in {"idle", "dispatch"}
        /\ UNCHANGED <<jobs, proc>>
    BY <1>2, <1>10 DEF SaveRegistry, Goto, AfterSave, Saving
  <2>2. Lists'
    BY <1>4, <2>1 DEF Lists
  <2> QED BY <1>7, <1>8, <2>1, <2>2 DEF Saving
<1>11. CASE CreateAndStart(t)
  <2> DEFINE j == issued + 1
  <2>1. /\ wpc[t] = "idle" /\ wpc'[t] = "save_unlock" /\ wjobs'[t] = jobs' /\ file' = file
        /\ issued < NumJobs
    BY <1>2, <1>11 DEF CreateAndStart, BuildEntries, Goto
  <2>2. j \in Jobs /\ j > issued
    BY <1>2, <2>1, RegistryAssumption DEF Jobs
  <2>3. jobs[j].st = "absent"
    <3>1. ~(j <= issued)
      BY <1>2
    <3> QED BY <2>2, <3>1 DEF KeptInv, WebInv, CopiesFit, Fits
  <2>4. Lists'
    BY <1>4, <2>1 DEF Lists
  <2> HIDE DEF j
  <2>5. CASE jobs' = [jobs EXCEPT ![j] = EntryOf("queued")] /\ UNCHANGED proc
    <3>1. ASSUME NEW p \in Pids, WebRun(p) PROVE jobs'[proc[p].job] = RunningAs(p)
      BY <1>2, <1>7, <2>3, <2>5, <3>1 DEF Registry, RunningAs
    <3> QED BY <1>7, <1>8, <2>1, <2>4, <2>5, <3>1 DEF Saving
  <2>6. ASSUME NEW p \in Pids, UnderLimit(jobs), WebStart(p, j), jobs' = [jobs EXCEPT ![j] = RunningAs(p)]
        PROVE  KeptInv'
    BY <1>1, <1>4, <1>5, <2>1, <2>2, <2>3, <2>4, <2>6, KeptStart DEF Saving
  <2> QED BY <1>11, <2>5, <2>6 DEF CreateAndStart, j
<1>12. CASE DispatchQueue(t)
  <2>1. /\ wpc[t] = "dispatch" /\ wpc'[t] = "dispatching" /\ UNCHANGED <<file, jobs, proc>>
        /\ wjobs'[t] = [j \in Jobs |-> IF j \in Queued(jobs) THEN jobs[j] ELSE Absent]
    BY <1>2, <1>12 DEF DispatchQueue, Goto, registryVars
  <2>2. Lists'
    BY <1>4, <2>1 DEF Lists
  <2> QED BY <1>7, <1>8, <2>1, <2>2 DEF Saving
<1>13. ASSUME NEW p \in Pids, WebDispatchOne(t, p) PROVE KeptInv'
  <2> DEFINE j == FirstQueued(wjobs[t])
  <2>1. j \in Jobs /\ wjobs[t][j].st = "queued"
    BY <1>13, FirstQueuedIsOldest DEF WebDispatchOne, WebMayStart, Queued
  <2>2. /\ wpc[t] = "dispatching" /\ wpc' = wpc /\ UNCHANGED file
        /\ WebStart(p, j) /\ UnderLimit(jobs)
        /\ wjobs' = [wjobs EXCEPT ![t][j] = RunningAs(p)]
        /\ jobs' = [jobs EXCEPT ![j] = RunningAs(p)]
    BY <1>6, <1>13 DEF WebDispatchOne, WebMayStart
  <2> HIDE DEF j
  <2>3. jobs[j].st = "queued"
    BY <1>6, <2>1, <2>2 DEF Absent, EntryOf
  <2>4. \A i \in Jobs : wjobs'[t][i] \in {Absent, jobs'[i]}
    BY <1>2, <1>6, <2>1, <2>2 DEF Registry
  <2>5. Lists'
    BY <1>4, <2>2, <2>4 DEF Lists
  <2> QED BY <1>1, <1>4, <1>5, <2>1, <2>2, <2>3, <2>5, KeptStart
<1>14. CASE DispatchQueueDone(t)
  <2>1. /\ wpc[t] = "dispatching" /\ UNCHANGED <<file, jobs, proc>>
        /\ \/ wpc'[t] = "save_unlock" /\ wjobs'[t] = jobs'
           \/ wpc'[t] = "idle" /\ Running(wjobs[t]) = {}
    BY <1>2, <1>6, <1>14 DEF DispatchQueueDone, BuildEntries, Goto, registryVars
  <2>2. Lists'
    BY <1>4, <2>1 DEF Lists
  <2>3. ASSUME NEW p \in Pids, WebRun(p), Running(wjobs[t]) = {} PROVE file[proc[p].job] = RunningAs(p)
    BY <1>7, <2>1, <2>3 DEF Running, RunningAs, Saving
  <2> QED BY <1>7, <1>8, <2>1, <2>2, <2>3 DEF Saving
<1>15. ~WebDispatchRaises(t)
  BY DEF WebDispatchRaises
<1>16. ASSUME NEW j \in Jobs, CancelQueued(t, j) PROVE KeptInv'
  <2>1. /\ wpc[t] = "idle" /\ wpc'[t] = "cancel" /\ UNCHANGED <<file, jobs, proc>>
        /\ jobs[j].st = "queued" /\ wjobs'[t] = [NoEntries EXCEPT ![j] = jobs[j]]
    BY <1>2, <1>16 DEF CancelQueued, Goto, registryVars
  <2>2. \A i \in Jobs : wjobs'[t][i].st # "absent" => jobs[i].st = "queued"
    BY <2>1 DEF NoEntries, Absent, EntryOf
  <2>3. Lists'
    BY <1>4, <2>1, <2>2 DEF Lists
  <2> QED BY <1>7, <1>8, <2>1, <2>3 DEF Saving
<1>17. ASSUME NEW j \in Jobs, CancelJob(t, j) PROVE KeptInv'
  <2>1. /\ wpc[t] = "cancel" /\ wpc'[t] = "save_dispatch" /\ UNCHANGED <<file, proc>>
        /\ wjobs[t][j].st # "absent" /\ jobs' \in {jobs, [jobs EXCEPT ![j] = EntryOf("failed")]}
    BY <1>2, <1>6, <1>17 DEF CancelJob, Goto, registryVars
  <2>2. wjobs'[t] = jobs'
    BY <1>17 DEF CancelJob
  <2>3. jobs[j].st = "queued"
    BY <1>6, <2>1
  <2>4. Lists'
    BY <1>4, <2>1 DEF Lists
  <2>5. ASSUME NEW p \in Pids, WebRun(p) PROVE jobs'[proc[p].job] = RunningAs(p)
    BY <1>2, <1>7, <2>1, <2>3, <2>5 DEF Registry, RunningAs
  <2> QED BY <1>7, <1>8, <2>1, <2>2, <2>4, <2>5 DEF Saving
<1>18. CASE RemoveFinished(t)
  <2>1. /\ wpc[t] = "idle" /\ wpc'[t] = "save" /\ UNCHANGED <<file, proc>> /\ wjobs'[t] = jobs'
        /\ jobs' = [j \in Jobs |-> IF jobs[j].st \in {"running", "queued"} THEN jobs[j] ELSE Absent]
    BY <1>2, <1>18 DEF RemoveFinished, BuildEntries, Goto, registryVars
  <2>2. Lists'
    BY <1>4, <2>1 DEF Lists
  <2>3. ASSUME NEW p \in Pids, WebRun(p) PROVE jobs'[proc[p].job] = RunningAs(p)
    BY <1>7, <2>1, <2>3 DEF RunningAs
  <2> QED BY <1>7, <1>8, <2>1, <2>2, <2>3 DEF Saving
<1>19. CASE Refresh(t)
  BY <1>1, <1>4, <1>5, <1>19, KeptRefresh
<1> QED
  BY <1>9, <1>10, <1>11, <1>12, <1>13, <1>14, <1>15, <1>16, <1>17, <1>18, <1>19 DEF WebStep

LEMMA KeptStep ==
  Serial /\ Serial' /\ WebFaults = {} /\ KeptInv /\ [WebNext]_allVars => KeptInv'
<1> SUFFICES ASSUME Serial, Serial', WebFaults = {}, KeptInv, [WebNext]_allVars PROVE KeptInv'
  OBVIOUS
<1>1. ASSUME NEW p \in Pids, ProcessStep(p), UNCHANGED <<daemonVars, webVars>> PROVE KeptInv'
  <2>1. WebInv'
    BY <1>1, ProcessInv DEF KeptInv
  <2>2. file' = file /\ locked' = locked /\ Live(p) /\ \E o : proc' = Exited(p, o)
    BY <1>1 DEF ProcessStep, ProcExit, ProcKilled
  <2>3. LoadedIsCurrent'
    BY <1>1, <2>2 DEF KeptInv, LoadedIsCurrent, daemonVars
  <2>4. proc \in [Pids -> Process]
    BY DEF KeptInv, WebInv, WebTypeOK, TypeOK, RegistryTypeOK
  <2>5. \A q \in Pids : WebRun(q)' => WebRun(q) /\ proc'[q] = proc[q]
    BY <2>2, <2>4 DEF Exited, ExitState, WebRun, Live, Process
  <2> QED BY <1>1, <2>1, <2>2, <2>3, <2>5, KeptBeside
<1>2. CASE UNCHANGED allVars
  <2>1. UNCHANGED <<file, locked, proc, joblog, issued, dpc, entries, crashes,
                    jobs, tlock, wpc, wjobs>>
    BY <1>2 DEF allVars, vars, registryVars, daemonVars, webVars
  <2>2. WebInv' /\ LoadedIsCurrent'
    BY <2>1 DEF KeptInv, LoadedIsCurrent, WebInv, WebTypeOK, TypeOK, RegistryTypeOK, CopiesFit
  <2> QED BY <1>2, <2>1, <2>2, KeptBeside DEF WebRun, Live, allVars
<1> QED BY <1>1, <1>2, KeptWebStep, KeptDaemon DEF WebNext, WebAlone

LEMMA KeptInit == WebInit => KeptInv
<1> SUFFICES ASSUME WebInit PROVE KeptInv
  OBVIOUS
<1>1. WebInv /\ LoadedIsCurrent /\ Lists
  BY WebInvInit DEF WebInit, Init, LoadedIsCurrent, Lists
<1>2. \A p \in Pids : ~Live(p)
  BY DEF WebInit, Init, NoProcess, Live
<1>3. LiveWebRuns = {}
  BY <1>2 DEF LiveWebRuns
<1>4. WebWithinLimit
  BY <1>3, FS_EmptySet, RegistryAssumption DEF WebWithinLimit
<1> QED BY <1>1, <1>2, <1>4 DEF KeptInv, WebRun

LEMMA KeptInvariance ==
  ASSUME WebFaults = {} PROVE WebSpec /\ []Serial => []KeptInv
BY KeptInit, KeptStep, PTL DEF WebSpec

\* Beside a daemon that starts, checks, cleans up, crashes and fails as it may, every run
\* the dashboard started and that still runs is in its dictionary, as long as its requests
\* do not overlap: no load of what the daemon wrote, no dispatch, no cancel and no removal
\* of finished jobs drops it.
THEOREM WebLiveIsKnownThm ==
  ASSUME WebFaults = {} PROVE WebSpec /\ []Serial => []WebLiveIsKnown
<1>1. KeptInv => WebLiveIsKnown
  BY DEF KeptInv, Kept, WebRun, WebLiveIsKnown
<1> QED BY <1>1, KeptInvariance, PTL

\* Likewise create_and_start and _dispatch_queue keep MAX_CONCURRENT_JOBS for what the
\* dashboard runs, whatever the daemon starts and records meanwhile: what they count is
\* at least what they have started and still runs.
THEOREM WebWithinLimitThm ==
  ASSUME WebFaults = {} PROVE WebSpec /\ []Serial => []WebWithinLimit
<1>1. KeptInv => WebWithinLimit
  BY DEF KeptInv
<1> QED BY <1>1, KeptInvariance, PTL
--------------------------------------------------------------------------------
(* Without a daemon: what the dashboard records is exact. *)

\* While nothing is to be saved the file is the dictionary, and what is read or saved is
\* the dictionary.  A dispatch has started those of its jobs that the file shows otherwise.
Control ==
  /\ Lists
  /\ file = jobs \/ \E t \in Threads : Saving(t) \/ wpc[t] = "dispatching"
  /\ \A t \in Threads :
       /\ wpc[t] = "refresh" \/ Saving(t) => wjobs[t] = jobs
       /\ wpc[t] = "dispatching" =>
            \A j \in Jobs : jobs[j] # file[j] => wjobs[t][j].st = "running"

Truthful(st, exit) ==
  st \in Terminal => (st \in {"success", "skipped"} <=> ExitCode(exit) = "zero")

\* A process of the dashboard is recorded until it is waited for, and what is recorded
\* then is what it returned.
Recorded(p) ==
  LET j == proc[p].job IN
  /\ proc[p].parent = "web" /\ j \in Jobs /\ j <= issued
  /\ proc[p].st \in {"live", "zombie"} => jobs[j] = RunningAs(p) /\ file[j].st \notin Terminal
  /\ proc[p].st = "gone" =>
       /\ jobs[j].st \in Terminal \union {"absent"}
       /\ Truthful(jobs[j].st, proc[p].exit)
       /\ Truthful(file[j].st, proc[p].exit)

AloneInv ==
  /\ WebInv
  /\ Control
  /\ \A p \in Pids : ~Free(p) => Recorded(p)

\* A job that is queued or was never handed out has no process.
LEMMA NoProcessYet ==
  ASSUME AloneInv, NEW j \in Jobs, jobs[j].st = "queued" \/ j > issued,
         NEW p \in Pids, ~Free(p)
  PROVE  proc[p].job # j
<1>1. Recorded(p) /\ proc[p].st \in {"live", "zombie", "gone"}
  BY DEF AloneInv, WebInv, WebTypeOK, TypeOK, RegistryTypeOK, Process, Free
<1>2. issued \in Nat /\ j \in Nat
  BY DEF AloneInv, WebInv, WebTypeOK, TypeOK, RegistryTypeOK, Jobs
<1> QED BY <1>1, <1>2 DEF Recorded, RunningAs, Terminal

\* A process nothing happens to stays recorded.
LEMMA RecordedKept ==
  ASSUME AloneInv, NEW p \in Pids, ~Free(p), proc'[p] = proc[p],
         issued \in Nat, issued' \in {issued, issued + 1},
         \/ jobs'[proc[p].job] = jobs[proc[p].job]
         \/ /\ jobs[proc[p].job].st \in Terminal \union {"absent"}
            /\ jobs'[proc[p].job] = Absent,
         file'[proc[p].job] \in {file[proc[p].job], jobs[proc[p].job]}
  PROVE  Recorded(p)'
<1> DEFINE j == proc[p].job
<1>1. Recorded(p)
  BY DEF AloneInv
<1>2. proc[p].parent = "web" /\ j \in Jobs /\ j <= issued'
  BY <1>1 DEF Recorded, Jobs
<1>3. CASE proc[p].st \in {"live", "zombie"}
  <2>1. jobs[j] = RunningAs(p) /\ file[j].st \notin Terminal
    BY <1>1, <1>3 DEF Recorded
  <2>2. jobs'[j] = RunningAs(p) /\ file'[j].st \notin Terminal
    BY <2>1 DEF RunningAs, Terminal
  <2> QED BY <1>2, <1>3, <2>2 DEF Recorded, RunningAs
<1>4. CASE proc[p].st = "gone"
  <2>1. /\ jobs[j].st \in Terminal \union {"absent"}
        /\ Truthful(jobs[j].st, proc[p].exit) /\ Truthful(file[j].st, proc[p].exit)
    BY <1>1, <1>4 DEF Recorded
  <2>2. jobs'[j].st \in {jobs[j].st, "absent"} /\ file'[j].st \in {file[j].st, jobs[j].st}
    BY DEF Absent, EntryOf
  <2>3. Truthful(jobs'[j].st, proc'[p].exit) /\ Truthful(file'[j].st, proc'[p].exit)
    BY <2>1, <2>2 DEF Truthful, Terminal
  <2>4. jobs'[j].st \in Terminal \union {"absent"} /\ proc'[p].st = "gone" /\ proc'[p].job = j
    BY <1>4, <2>1, <2>2
  <2> HIDE DEF j
  <2> QED BY <1>2, <2>3, <2>4 DEF Recorded, j
<1>5. proc[p].st \in {"live", "zombie", "gone"}
  BY DEF AloneInv, WebInv, WebTypeOK, TypeOK, RegistryTypeOK, Process, Free
<1> QED BY <1>3, <1>4, <1>5

\* A process that ends becomes a zombie and stays recorded.
LEMMA EndRecorded ==
  ASSUME AloneInv, NEW p \in Pids, ProcessStep(p), UNCHANGED <<daemonVars, webVars>>
  PROVE  AloneInv'
<1>1. WebInv'
  BY ProcessInv DEF AloneInv
<1>2. UNCHANGED <<file, jobs, wpc, wjobs, issued>> /\ Live(p)
  BY DEF ProcessStep, ProcExit, ProcKilled, webVars
<1>3. PICK o \in Outcome : proc' = Exited(p, o)
  BY DEF ProcessStep, ProcExit, ProcKilled, Outcome
<1>4. proc \in [Pids -> Process] /\ issued \in Nat
  BY DEF AloneInv, WebInv, WebTypeOK, TypeOK, RegistryTypeOK
<1>5. Recorded(p) /\ proc[p].parent = "web"
  BY <1>2 DEF AloneInv, Recorded, Live, Free
<1>6. /\ proc'[p].st = "zombie" /\ proc'[p].job = proc[p].job /\ proc'[p].parent = "web"
      /\ \A q \in Pids : q # p => proc'[q] = proc[q]
  BY <1>3, <1>4, <1>5 DEF Exited, ExitState, Process
<1>7. ASSUME NEW q \in Pids, ~Free(q)' PROVE Recorded(q)'
  <2>1. CASE q = p
    BY <1>2, <1>5, <1>6, <2>1 DEF Recorded, Live, RunningAs
  <2>2. CASE q # p
    <3>1. proc'[q] = proc[q] /\ ~Free(q)
      BY <1>6, <1>7, <2>2 DEF Free
    <3> QED BY <1>2, <1>4, <3>1, RecordedKept
  <2> QED BY <2>1, <2>2
<1>8. Control'
  BY <1>2 DEF AloneInv, Control, Lists, Saving
<1> QED BY <1>1, <1>7, <1>8 DEF AloneInv

\* What load_registry records of the child it waited for.
LEMMA VerdictOfReaped ==
  ASSUME NEW j, NEW p, WebReapable(p)
  PROVE  Truthful(WebVerdict(j, p), proc[p].exit)
BY DEF Truthful, WebVerdict, WebReturnCode, ExitCode

LEMMA RefreshAlone ==
  ASSUME AloneInv, NEW t \in Threads, Refresh(t), UNCHANGED daemonVars,
         \A u \in Threads \ {t} : wpc[u] = "idle" /\ wpc'[u] = "idle"
  PROVE  AloneInv'
<1> DEFINE dead == WebDead(wjobs[t])
<1>1. /\ wpc[t] = "refresh"
      /\ jobs' = [j \in Jobs |-> IF j \in dead THEN EntryOf(WebVerdict(j, wjobs[t][j].pid))
                                              ELSE wjobs[t][j]]
      /\ proc' = [p \in Pids |-> IF WebReapable(p) /\ \E j \in dead : wjobs[t][j].pid = p
                                 THEN [proc[p] EXCEPT !.st = "gone"] ELSE proc[p]]
      /\ wpc'[t] = IF dead = {} THEN "idle" ELSE "save_dispatch"
      /\ dead # {} => wjobs' = [wjobs EXCEPT ![t] = jobs']
      /\ file' = file /\ issued' = issued
  BY DEF Refresh
<1>2. WebInv'
  BY RefreshInv DEF AloneInv
<1>3. /\ wjobs[t] = jobs /\ file = jobs /\ jobs \in Registry /\ proc \in [Pids -> Process]
      /\ issued \in Nat /\ wjobs \in [Threads -> Registry]
  BY <1>1 DEF AloneInv, Control, Saving, WebInv, WebTypeOK, TypeOK, RegistryTypeOK
<1>4. dead = WebDead(jobs)
  BY <1>3
<1>5. \A j \in dead : j \in Running(jobs) /\ jobs[j].pid \in Pids
  BY <1>4 DEF WebDead
<1> HIDE DEF dead
<1>6. \A j \in Jobs : j \notin dead => jobs'[j] = jobs[j]
  BY <1>1, <1>3
<1>7. \A j \in dead : jobs'[j].st \in Terminal
  BY <1>1, <1>5, WebVerdictIsTerminal DEF EntryOf, Running
<1>8. Control'
  <2>1. dead = {} => jobs' = jobs
    BY <1>1, <1>3 DEF Registry
  <2>2. dead # {} => wjobs'[t] = jobs'
    BY <1>1, <1>3
  <2>3. Lists'
    BY <1>1 DEF Lists
  <2> QED BY <1>1, <1>3, <2>1, <2>2, <2>3 DEF Control, Saving
<1>10. ASSUME NEW p \in Pids, ~Free(p)' PROVE Recorded(p)'
  <2> DEFINE j == proc[p].job
  <2>1. ~Free(p)
    BY <1>1, <1>10 DEF WebReapable, Free
  <2>2. Recorded(p) /\ j \in Jobs /\ proc[p].parent = "web"
    BY <2>1 DEF AloneInv, Recorded
  <2>3. CASE proc[p].st = "zombie"
    <3>1. jobs[j] = RunningAs(p) /\ file[j].st \notin Terminal
      BY <2>2, <2>3 DEF Recorded
    <3>2. WebReapable(p) /\ jobs[j].pid = p /\ j \in dead
      BY <1>4, <2>2, <2>3, <3>1 DEF WebReapable, WebDead, Running, RunningAs
    <3>3. proc'[p] = [proc[p] EXCEPT !.st = "gone"]
      BY <1>1, <1>3, <3>2
    <3>4. /\ proc'[p].st = "gone" /\ proc'[p].job = j /\ proc'[p].parent = "web"
          /\ proc'[p].exit = proc[p].exit
      BY <1>3, <2>2, <3>3 DEF Process
    <3>5. jobs'[j] = EntryOf(WebVerdict(j, p))
      BY <1>1, <1>3, <2>2, <3>2
    <3>6. Truthful(WebVerdict(j, p), proc[p].exit) /\ WebVerdict(j, p) \in Terminal
      BY <3>2, VerdictOfReaped, WebVerdictIsTerminal
    <3>7. jobs'[j].st = WebVerdict(j, p)
      BY <3>5 DEF EntryOf
    <3> HIDE DEF j
    <3>8. jobs'[j].st \in Terminal /\ Truthful(jobs'[j].st, proc'[p].exit)
      BY <3>4, <3>6, <3>7 DEF Truthful
    <3>9. Truthful(file'[j].st, proc'[p].exit)
      BY <1>1, <3>1 DEF Truthful
    <3>10. j <= issued'
      BY <1>1, <2>2 DEF Recorded, j
    <3> QED BY <2>2, <3>4, <3>8, <3>9, <3>10 DEF Recorded
  <2>4. CASE proc[p].st # "zombie"
    <3>1. proc'[p] = proc[p]
      BY <1>1, <2>4 DEF WebReapable
    <3>2. j \notin dead
      <4>1. CASE proc[p].st = "gone"
        <5>1. jobs[j].st # "running"
          BY <2>2, <4>1 DEF Recorded, Terminal
        <5> QED BY <1>5, <5>1 DEF Running
      <4>2. CASE proc[p].st = "live"
        <5>1. jobs[j].pid = p
          BY <2>2, <4>2 DEF Recorded, RunningAs
        <5> QED BY <1>4, <4>2, <5>1 DEF WebDead, WebReapable
      <4> QED BY <1>3, <2>1, <2>4, <4>1, <4>2 DEF Process, Free
    <3>3. jobs'[j] = jobs[j] /\ file'[j] = file[j]
      BY <1>1, <1>6, <2>2, <3>2
    <3> QED BY <1>1, <1>3, <2>1, <3>1, <3>3, RecordedKept
  <2> QED BY <2>3, <2>4
<1> QED BY <1>2, <1>8, <1>10 DEF AloneInv

\* A process the dashboard starts for a job that has none.
LEMMA StartAlone ==
  ASSUME AloneInv, WebInv', NEW p \in Pids, NEW j \in Jobs, WebStart(p, j), UNCHANGED file,
         jobs[j].st = "queued" \/ j > issued,
         issued' \in {issued, issued + 1}, j <= issued', file[j].st \notin Terminal,
         jobs' = [jobs EXCEPT ![j] = RunningAs(p)],
         Control'
  PROVE  AloneInv'
<1>1. /\ jobs \in Registry /\ proc \in [Pids -> Process] /\ issued \in Nat
  BY DEF AloneInv, WebInv, WebTypeOK, TypeOK, RegistryTypeOK
<1>2. /\ Free(p) /\ \A q \in Pids : q # p => proc'[q] = proc[q]
      /\ proc'[p].st = "live" /\ proc'[p].job = j /\ proc'[p].parent = "web"
  BY <1>1 DEF WebStart, Started
<1>3. jobs'[j] = RunningAs(p) /\ \A i \in Jobs : i # j => jobs'[i] = jobs[i]
  BY <1>1 DEF Registry
<1>5. ASSUME NEW q \in Pids, ~Free(q)' PROVE Recorded(q)'
  <2>1. CASE q = p
    BY <1>2, <1>3, <2>1 DEF Recorded, RunningAs
  <2>2. CASE q # p
    <3>1. ~Free(q) /\ proc'[q] = proc[q]
      BY <1>2, <1>5, <2>2 DEF Free
    <3>2. proc[q].job \in Jobs /\ proc[q].job # j
      BY <3>1, NoProcessYet DEF AloneInv, Recorded
    <3> QED BY <1>1, <1>3, <3>1, <3>2, RecordedKept
  <2> QED BY <2>1, <2>2
<1> QED BY <1>5 DEF AloneInv

\* A step that starts and ends nothing.
LEMMA QuietAlone ==
  ASSUME AloneInv, WebInv', Control', UNCHANGED proc,
         issued' \in {issued, issued + 1},
         \A j \in Jobs :
            \/ jobs'[j] = jobs[j]
            \/ jobs[j].st \in Terminal \union {"absent"} /\ jobs'[j] = Absent
            \/ jobs[j].st = "queued"
            \/ j > issued,
         \A j \in Jobs : file'[j] \in {file[j], jobs[j]}
  PROVE  AloneInv'
<1>1. ASSUME NEW p \in Pids, ~Free(p)' PROVE Recorded(p)'
  <2>1. ~Free(p) /\ issued \in Nat
    BY <1>1 DEF Free, AloneInv, WebInv, WebTypeOK, TypeOK, RegistryTypeOK
  <2>2. proc[p].job \in Jobs
    BY <2>1 DEF AloneInv, Recorded
  <2>3. ~(jobs[proc[p].job].st = "queued") /\ ~(proc[p].job > issued)
    BY <2>1, <2>2, NoProcessYet
  <2> QED BY <2>1, <2>2, <2>3, RecordedKept
<1> QED BY <1>1 DEF AloneInv

LEMMA AloneInit == WebInit => AloneInv
<1> SUFFICES ASSUME WebInit PROVE AloneInv
  OBVIOUS
<1>1. WebInv
  BY WebInvInit
<1>2. file = NoEntries /\ jobs = NoEntries
  BY DEF WebInit, Init, NoEntries, Absent, Jobs
<1>3. Control
  BY <1>2 DEF WebInit, Control, Lists, Saving
<1>4. \A p \in Pids : Free(p)
  BY DEF WebInit, Init, NoProcess, Free
<1> QED BY <1>1, <1>3, <1>4 DEF AloneInv

LEMMA CreateAlone ==
  ASSUME AloneInv, NEW t \in Threads, CreateAndStart(t), UNCHANGED daemonVars,
         \A u \in Threads \ {t} : wpc[u] = "idle" /\ wpc'[u] = "idle"
  PROVE  AloneInv'
<1> DEFINE j == issued + 1
<1>1. WebInv'
  BY CreateInv DEF AloneInv
<1>2. /\ jobs \in Registry /\ wpc \in [Threads -> WebPc] /\ issued \in Nat
      /\ wjobs \in [Threads -> Registry]
  BY DEF AloneInv, WebInv, WebTypeOK, TypeOK, RegistryTypeOK
<1>3. /\ wpc[t] = "idle" /\ wpc'[t] = "save_unlock" /\ wjobs'[t] = jobs'
      /\ issued' = j /\ issued < NumJobs /\ file' = file
  BY <1>2 DEF CreateAndStart, BuildEntries, Goto
<1>4. j \in Jobs /\ j > issued /\ j <= issued'
  BY <1>2, <1>3, RegistryAssumption DEF Jobs
<1>5. file[j].st = "absent"
  <2>1. ~(j <= issued)
    BY <1>2
  <2> QED BY <1>4, <2>1 DEF AloneInv, WebInv, CopiesFit, Fits
<1>6. file = jobs
  BY <1>3 DEF AloneInv, Control, Saving
<1>7. Control'
  <2>1. Lists'
    BY <1>3 DEF Lists
  <2> QED BY <1>3, <2>1 DEF Control, Saving
<1>8. issued' \in {issued, issued + 1}
  BY <1>3
<1> HIDE DEF j
<1>9. CASE jobs' = [jobs EXCEPT ![j] = EntryOf("queued")] /\ UNCHANGED proc
  <2>1. \A i \in Jobs : jobs'[i] = jobs[i] \/ (i = j /\ jobs'[i] = EntryOf("queued"))
    BY <1>2, <1>9 DEF Registry
  <2> QED BY <1>1, <1>3, <1>4, <1>7, <1>8, <1>9, <2>1, QuietAlone
<1>10. ASSUME NEW p \in Pids, WebStart(p, j), jobs' = [jobs EXCEPT ![j] = RunningAs(p)]
       PROVE  AloneInv'
  <2>1. file[j].st \notin Terminal
    BY <1>5 DEF Terminal
  <2> QED BY <1>1, <1>3, <1>4, <1>7, <1>8, <1>10, <2>1, StartAlone
<1> QED BY <1>9, <1>10 DEF CreateAndStart, j

LEMMA DispatchAlone ==
  ASSUME AloneInv, NEW t \in Threads, NEW p \in Pids, WebDispatchOne(t, p), UNCHANGED daemonVars,
         \A u \in Threads \ {t} : wpc[u] = "idle" /\ wpc'[u] = "idle"
  PROVE  AloneInv'
<1> DEFINE j == FirstQueued(wjobs[t])
<1>1. WebInv'
  BY WebStepInv DEF AloneInv, WebStep
<1>2. /\ wpc[t] = "dispatching"
      /\ \A i \in Jobs :
           /\ wjobs[t][i] \in {Absent, jobs[i]}
           /\ jobs[i] # file[i] => wjobs[t][i].st = "running"
      /\ wjobs \in [Threads -> Registry] /\ jobs \in Registry /\ issued \in Nat
  BY DEF WebDispatchOne, AloneInv, Control, Lists, WebInv, WebTypeOK, TypeOK, RegistryTypeOK
<1>3. j \in Jobs /\ wjobs[t][j].st = "queued"
  BY FirstQueuedIsOldest DEF WebDispatchOne, WebMayStart, Queued
<1>4. /\ WebStart(p, j)
      /\ wjobs' = [wjobs EXCEPT ![t][j] = RunningAs(p)]
      /\ jobs' = [jobs EXCEPT ![j] = RunningAs(p)]
      /\ UNCHANGED <<file, issued, wpc>>
  BY <1>2 DEF WebDispatchOne
<1> HIDE DEF j
<1>5. jobs[j].st = "queued" /\ file[j].st = "queued"
  BY <1>2, <1>3 DEF Absent, EntryOf
<1>6. j <= issued' /\ issued' \in {issued, issued + 1} /\ file[j].st \notin Terminal
  BY <1>3, <1>4, <1>5 DEF AloneInv, WebInv, CopiesFit, Fits, Terminal
<1>7. /\ jobs'[j] = RunningAs(p) /\ wjobs'[t][j] = RunningAs(p)
      /\ \A i \in Jobs : i # j => jobs'[i] = jobs[i] /\ wjobs'[t][i] = wjobs[t][i]
  BY <1>2, <1>3, <1>4 DEF Registry
<1>8. Control'
  <2>1. \A i \in Jobs :
          /\ wjobs'[t][i] \in {Absent, jobs'[i]}
          /\ jobs'[i] # file'[i] => wjobs'[t][i].st = "running"
    BY <1>2, <1>4, <1>7 DEF RunningAs
  <2>2. Lists'
    BY <1>2, <1>4, <2>1 DEF Lists
  <2> QED BY <1>2, <1>4, <2>1, <2>2 DEF Control, Saving
<1> QED BY <1>1, <1>3, <1>4, <1>5, <1>6, <1>8, StartAlone

LEMMA WebStepAlone ==
  ASSUME Serial, Serial', WebFaults = {}, AloneInv, NEW t \in Threads, WebStep(t), UNCHANGED daemonVars
  PROVE  AloneInv'
<1>1. WebInv'
  BY WebStepInv DEF AloneInv
<1>2. /\ jobs \in Registry /\ file \in Registry /\ wjobs \in [Threads -> Registry]
      /\ wpc \in [Threads -> WebPc] /\ issued \in Nat
  BY DEF AloneInv, WebInv, WebTypeOK, TypeOK, RegistryTypeOK
<1>3. ASSUME NEW j \in Jobs, KillRunning(t, j) PROVE AloneInv'
  <2>1. jobs[j].pid \in Pids /\ ProcessStep(jobs[j].pid) /\ UNCHANGED <<daemonVars, webVars>>
    BY <1>3 DEF KillRunning, ProcessStep
  <2> QED BY <2>1, EndRecorded
<1> SUFFICES ASSUME \A j \in Jobs : ~KillRunning(t, j) PROVE AloneInv'
  BY <1>3
<1>4. \A u \in Threads \ {t} : wpc[u] = "idle" /\ wpc'[u] = "idle"
  BY OthersIdle DEF AloneInv
<1>5. /\ wpc[t] \notin {"detached", "cancel_old"}
      /\ wpc[t] = "cancel" => \A j \in Jobs : wjobs[t][j].st # "absent" => jobs[j].st = "queued"
      /\ file = jobs \/ Saving(t) \/ wpc[t] = "dispatching"
      /\ wpc[t] = "refresh" \/ Saving(t) => wjobs[t] = jobs
      /\ wpc[t] = "dispatching" =>
           \A j \in Jobs :
             /\ wjobs[t][j] \in {Absent, jobs[j]}
             /\ jobs[j] # file[j] => wjobs[t][j].st = "running"
  BY <1>4 DEF AloneInv, Control, Lists, Saving
<1>6. CASE FlockRead(t)
  <2>1. /\ wpc[t] = "idle" /\ wpc'[t] = "refresh" /\ wjobs'[t] = file
        /\ UNCHANGED <<file, jobs, proc, issued>>
    BY <1>2, <1>6 DEF FlockRead, Goto, registryVars
  <2>2. Control'
    BY <1>4, <1>5, <2>1 DEF Control, Lists, Saving
  <2> QED BY <1>1, <2>1, <2>2, QuietAlone
<1>7. CASE SaveRegistry(t)
  <2>1. /\ Saving(t) /\ file' = jobs /\ UNCHANGED <<proc, issued, jobs>>
        /\ wpc'[t] \in {"idle", "dispatch"}
    BY <1>2, <1>5, <1>7 DEF SaveRegistry, Goto, AfterSave, Saving
  <2>2. Control'
    BY <1>4, <2>1 DEF Control, Lists, Saving
  <2> QED BY <1>1, <2>1, <2>2, QuietAlone
<1>8. CASE DispatchQueue(t)
  <2>1. /\ wpc[t] = "dispatch" /\ wpc'[t] = "dispatching" /\ UNCHANGED <<file, jobs, proc, issued>>
        /\ wjobs'[t] = [j \in Jobs |-> IF j \in Queued(jobs) THEN jobs[j] ELSE Absent]
    BY <1>2, <1>8 DEF DispatchQueue, Goto, registryVars
  <2>2. file = jobs
    BY <1>5, <2>1 DEF Saving
  <2>3. Control'
    BY <1>4, <2>1, <2>2 DEF Control, Lists, Saving
  <2> QED BY <1>1, <2>1, <2>3, QuietAlone
<1>9. CASE DispatchQueueDone(t)
  <2>1. /\ wpc[t] = "dispatching" /\ UNCHANGED <<file, jobs, proc, issued>>
        /\ \/ wpc'[t] = "save_unlock" /\ wjobs'[t] = jobs'
           \/ wpc'[t] = "idle" /\ Running(wjobs[t]) = {}
    BY <1>2, <1>5, <1>9 DEF DispatchQueueDone, BuildEntries, Goto, registryVars
  <2>2. Running(wjobs[t]) = {} => file = jobs
    <3> SUFFICES ASSUME Running(wjobs[t]) = {} PROVE file = jobs
      OBVIOUS
    <3>1. \A j \in Jobs : jobs[j] = file[j]
      BY <1>5, <2>1 DEF Running
    <3> QED BY <1>2, <3>1 DEF Registry
  <2>3. Control'
    BY <1>4, <2>1, <2>2 DEF Control, Lists, Saving
  <2> QED BY <1>1, <2>1, <2>3, QuietAlone
<1>10. ~WebDispatchRaises(t)
  BY DEF WebDispatchRaises
<1>11. ASSUME NEW j \in Jobs, CancelQueued(t, j) PROVE AloneInv'
  <2>1. /\ wpc[t] = "idle" /\ jobs[j].st = "queued" /\ UNCHANGED <<file, jobs, proc, issued>>
        /\ wpc'[t] = "cancel" /\ wjobs'[t] = [NoEntries EXCEPT ![j] = jobs[j]]
    BY <1>2, <1>11 DEF CancelQueued, Goto, registryVars
  <2>2. \A i \in Jobs : wjobs'[t][i].st # "absent" => jobs[i].st = "queued"
    BY <2>1 DEF NoEntries, Absent, EntryOf
  <2>3. Control'
    <3>1. Lists'
      BY <1>4, <2>1, <2>2 DEF Lists
    <3>2. file = jobs
      BY <1>5, <2>1 DEF Saving
    <3>3. \A u \in Threads : ~Saving(u)' /\ wpc'[u] \notin {"refresh", "dispatching"}
      BY <1>4, <2>1 DEF Saving
    <3> QED BY <2>1, <3>1, <3>2, <3>3 DEF Control
  <2> QED BY <1>1, <2>1, <2>3, QuietAlone
<1>12. ASSUME NEW j \in Jobs, CancelJob(t, j) PROVE AloneInv'
  <2>1. /\ wpc[t] = "cancel" /\ wpc'[t] = "save_dispatch" /\ UNCHANGED <<file, proc, issued>>
        /\ wjobs[t][j].st # "absent" /\ jobs' \in {jobs, [jobs EXCEPT ![j] = EntryOf("failed")]}
    BY <1>2, <1>5, <1>12 DEF CancelJob, Goto, registryVars
  <2>2. wjobs'[t] = jobs'
    BY <1>12 DEF CancelJob
  <2>3. jobs[j].st = "queued" /\ file = jobs
    BY <1>5, <2>1 DEF Saving
  <2>4. \A i \in Jobs : jobs'[i] = jobs[i] \/ (i = j /\ jobs'[i] = EntryOf("failed"))
    BY <1>2, <2>1 DEF Registry
  <2>5. Control'
    BY <1>4, <2>1, <2>2 DEF Control, Lists, Saving
  <2> QED BY <1>1, <2>1, <2>3, <2>4, <2>5, QuietAlone
<1>13. CASE RemoveFinished(t)
  <2>1. /\ wpc[t] = "idle" /\ UNCHANGED <<file, proc, issued>> /\ wpc'[t] = "save"
        /\ wjobs'[t] = jobs'
        /\ jobs' = [j \in Jobs |-> IF jobs[j].st \in {"running", "queued"} THEN jobs[j] ELSE Absent]
    BY <1>2, <1>13 DEF RemoveFinished, BuildEntries, Goto, registryVars
  <2>2. \A j \in Jobs :
          \/ jobs'[j] = jobs[j]
          \/ jobs[j].st \in Terminal \union {"absent"} /\ jobs'[j] = Absent
    BY <1>2, <2>1 DEF Registry, Entry, Status
  <2>3. Control'
    BY <1>4, <2>1 DEF Control, Lists, Saving
  <2> QED BY <1>1, <2>1, <2>2, <2>3, QuietAlone
<1> QED
  BY <1>4, <1>6, <1>7, <1>8, <1>9, <1>10, <1>11, <1>12, <1>13, RefreshAlone, CreateAlone,
     DispatchAlone
  DEF WebStep

LEMMA AloneStep ==
  Serial /\ Serial' /\ WebFaults = {} /\ AloneInv /\ [WebAlone]_allVars => AloneInv'
<1> SUFFICES ASSUME Serial, Serial', WebFaults = {}, AloneInv, [WebAlone]_allVars PROVE AloneInv'
  OBVIOUS
<1>1. CASE UNCHANGED allVars
  <2>1. UNCHANGED <<file, locked, proc, joblog, issued, dpc, entries, crashes,
                    jobs, tlock, wpc, wjobs>>
    BY <1>1 DEF allVars, vars, registryVars, daemonVars, webVars
  <2>2. WebInv'
    BY <2>1 DEF AloneInv, WebInv, WebTypeOK, TypeOK, RegistryTypeOK, CopiesFit
  <2>3. Control'
    BY <2>1 DEF AloneInv, Control, Lists, Saving
  <2>4. \A p \in Pids : ~Free(p)' => Recorded(p)'
    BY <2>1 DEF AloneInv, Recorded, Free
  <2> QED BY <2>2, <2>3, <2>4 DEF AloneInv
<1> QED BY <1>1, WebStepAlone, EndRecorded DEF WebAlone

LEMMA AloneInvariance ==
  ASSUME WebFaults = {} PROVE WebAloneSpec /\ []Serial => []AloneInv
BY AloneInit, AloneStep, PTL DEF WebAloneSpec

\* What load_registry records of a child it waited for is what the child returned, also
\* after a kill from the dashboard or from outside, while requests do not overlap and the
\* dashboard is the only writer.
THEOREM WebVerdictIsTrueThm ==
  ASSUME WebFaults = {} PROVE WebAloneSpec /\ []Serial => []WebVerdictIsTrue
<1>1. AloneInv => WebVerdictIsTrue
  BY DEF AloneInv, Recorded, Truthful, WebVerdictIsTrue, Free
<1> QED BY <1>1, AloneInvariance, PTL

--------------------------------------------------------------------------------
(* The order of its queue. *)

\* Whatever starts next is no younger than anything the dashboard has queued.
WebQueueOrder ==
  [][\A p \in Pids : Free(p) /\ ~Free(p)' => \A i \in Queued(jobs) : proc'[p].job <= i]_allVars

\* Between requests nothing is queued while a slot is free, so create_and_start, which
\* asks for the slot only, overtakes nobody; a dispatch goes through all that is queued.
Quiet(t) == wpc[t] \in {"idle", "refresh", "save", "save_unlock"}

QueueWaits ==
  /\ (\A t \in Threads : Quiet(t)) => Queued(jobs) = {} \/ ~UnderLimit(jobs)
  /\ \A t \in Threads : wpc[t] = "dispatching" => Queued(wjobs[t]) = Queued(jobs)

\* Only create_and_start and a dispatch start something: a job nobody has heard of yet, or
\* the oldest of those listed.
LEMMA AloneStarts ==
  ASSUME Serial, Serial', WebFaults = {}, AloneInv, [WebAlone]_allVars
  PROVE  \/ \A p \in Pids : proc'[p].job = proc[p].job /\ (Free(p)' <=> Free(p))
         \/ \E t \in Threads, p \in Pids :
              /\ WebStart(p, issued + 1) /\ (\A u \in Threads : wpc[u] = "idle") /\ UnderLimit(jobs)
              /\ issued + 1 \in Jobs
         \/ \E t \in Threads, p \in Pids :
              /\ WebStart(p, FirstQueued(wjobs[t])) /\ wpc[t] = "dispatching"
              /\ FirstQueued(wjobs[t]) \in Queued(wjobs[t])
              /\ \A i \in Queued(wjobs[t]) : FirstQueued(wjobs[t]) <= i
<1> DEFINE Same == \A p \in Pids : proc'[p].job = proc[p].job /\ (Free(p)' <=> Free(p))
           New == \E t \in Threads, p \in Pids :
                    /\ WebStart(p, issued + 1) /\ (\A u \in Threads : wpc[u] = "idle") /\ UnderLimit(jobs)
                    /\ issued + 1 \in Jobs
           Old == \E t \in Threads, p \in Pids :
                    /\ WebStart(p, FirstQueued(wjobs[t])) /\ wpc[t] = "dispatching"
                    /\ FirstQueued(wjobs[t]) \in Queued(wjobs[t])
                    /\ \A i \in Queued(wjobs[t]) : FirstQueued(wjobs[t]) <= i
<1>1. proc \in [Pids -> Process] /\ issued \in Nat
  BY DEF AloneInv, WebInv, WebTypeOK, TypeOK, RegistryTypeOK
<1>2. proc' = proc => Same
  BY DEF Free
<1>3. ASSUME NEW p \in Pids, ProcessStep(p) PROVE Same
  BY <1>1, <1>3 DEF ProcessStep, ProcExit, ProcKilled, Exited, ExitState, Live, Free, Process
<1>4. ASSUME NEW t \in Threads, WebStep(t) PROVE Same \/ New \/ Old
  <2>1. CASE FlockRead(t) \/ SaveRegistry(t) \/ DispatchQueue(t) \/ DispatchQueueDone(t)
             \/ WebDispatchRaises(t) \/ RemoveFinished(t)
             \/ (\E j \in Jobs : CancelQueued(t, j) \/ CancelJob(t, j))
    <3>1. proc' = proc
      BY <2>1 DEF FlockRead, SaveRegistry, DispatchQueue, DispatchQueueDone, WebDispatchRaises,
         CancelQueued, CancelJob, RemoveFinished, registryVars
    <3> QED BY <1>2, <3>1
  <2>2. CASE Refresh(t)
    <3>1. \A p \in Pids : \/ proc'[p] = proc[p]
                          \/ WebReapable(p) /\ proc'[p] = [proc[p] EXCEPT !.st = "gone"]
      BY <2>2 DEF Refresh
    <3> QED BY <1>1, <3>1 DEF WebReapable, Free, Process
  <2>3. CASE CreateAndStart(t)
    <3>1. issued < NumJobs /\ wpc[t] = "idle"
      BY <2>3 DEF CreateAndStart
    <3>5. \A u \in Threads : wpc[u] = "idle"
      <4>1. CASE \E j \in Jobs : KillRunning(t, j)
        <5>1. issued' = issued /\ issued' = issued + 1
          BY <2>3, <4>1 DEF KillRunning, ProcKilled, CreateAndStart
        <5> QED BY <1>1, <5>1
      <4> QED BY <1>4, <3>1, <4>1, OthersIdle DEF AloneInv
    <3>2. issued + 1 \in Jobs
      BY <1>1, <3>1, RegistryAssumption DEF Jobs
    <3>3. \/ proc' = proc
          \/ UnderLimit(jobs) /\ \E p \in Pids : WebStart(p, issued + 1)
      BY <2>3 DEF CreateAndStart
    <3> HIDE DEF Same
    <3> QED BY <1>2, <3>2, <3>3, <3>5
  <2>4. ASSUME NEW p \in Pids, WebDispatchOne(t, p) PROVE Old
    <3>1. /\ WebStart(p, FirstQueued(wjobs[t])) /\ Queued(wjobs[t]) # {}
          /\ wpc[t] \in {"dispatching", "detached"}
      BY <2>4 DEF WebDispatchOne, WebMayStart
    <3>2. wpc[t] = "dispatching"
      BY <3>1 DEF AloneInv, Control, Lists
    <3> QED BY <3>1, <3>2, FirstQueuedIsOldest
  <2>5. ASSUME NEW j \in Jobs, KillRunning(t, j) PROVE Same
    <3>1. jobs[j].pid \in Pids /\ ProcessStep(jobs[j].pid)
      BY <2>5 DEF KillRunning, ProcessStep
    <3> QED BY <1>3, <3>1
  <2> HIDE DEF Same, New, Old
  <2> QED BY <1>4, <2>1, <2>2, <2>3, <2>4, <2>5 DEF WebStep
<1>5. ASSUME UNCHANGED allVars PROVE Same
  BY <1>2, <1>5 DEF allVars, vars, registryVars
<1> HIDE DEF Same, New, Old
<1>6. Same \/ New \/ Old
  BY <1>3, <1>4, <1>5 DEF WebAlone
<1> QED BY <1>6 DEF Same, New, Old

LEMMA QueueWaitsStep ==
  ASSUME Serial, Serial', WebFaults = {}, AloneInv, QueueWaits, [WebAlone]_allVars
  PROVE  QueueWaits'
<1>1. ASSUME NEW t \in Threads, WebStep(t) PROVE QueueWaits'
  <2>1. /\ jobs \in Registry /\ wjobs \in [Threads -> Registry] /\ wpc \in [Threads -> WebPc]
    BY DEF AloneInv, WebInv, WebTypeOK
  <2>13. ASSUME NEW j \in Jobs, KillRunning(t, j) PROVE QueueWaits'
    BY <2>13 DEF KillRunning, webVars, QueueWaits, Quiet, UnderLimit
  <2> SUFFICES ASSUME \A j \in Jobs : ~KillRunning(t, j) PROVE QueueWaits'
    BY <2>13
  <2>15. \A u \in Threads \ {t} : wpc[u] = "idle" /\ wpc'[u] = "idle"
    BY <1>1, OthersIdle DEF AloneInv
  <2>2. /\ wpc[t] \notin {"detached", "cancel_old"}
        /\ wpc[t] \in {"idle", "refresh", "save", "save_unlock"} =>
             Queued(jobs) = {} \/ ~UnderLimit(jobs)
        /\ wpc[t] = "dispatching" => Queued(wjobs[t]) = Queued(jobs)
    BY <2>15 DEF QueueWaits, Quiet, AloneInv, Control, Lists
  <2>3. ASSUME \/ wpc'[t] \notin {"idle", "refresh", "save", "save_unlock", "dispatching"}
               \/ /\ wpc'[t] \in {"idle", "refresh", "save", "save_unlock"}
                  /\ Queued(jobs') = {} \/ ~UnderLimit(jobs')
               \/ wpc'[t] = "dispatching" /\ Queued(wjobs'[t]) = Queued(jobs')
        PROVE  QueueWaits'
    BY <2>3, <2>15 DEF QueueWaits, Quiet, UnderLimit
  <2>4. CASE FlockRead(t)
    <3>1. wpc[t] = "idle" /\ wpc'[t] = "refresh" /\ jobs' = jobs
      BY <2>1, <2>4 DEF FlockRead, Goto
    <3> QED BY <2>2, <2>3, <3>1
  <2>5. CASE Refresh(t)
    <3>1. /\ wpc[t] = "refresh" /\ wjobs[t] = jobs
          /\ wpc'[t] = IF WebDead(jobs) = {} THEN "idle" ELSE "save_dispatch"
          /\ WebDead(jobs) = {} => jobs' = jobs
      <4>1. wpc[t] = "refresh" /\ wjobs[t] = jobs
        BY <2>5 DEF Refresh, AloneInv, Control
      <4>2. WebDead(jobs) = {} => jobs' = [j \in Jobs |-> jobs[j]]
        BY <2>5, <4>1 DEF Refresh
      <4> QED BY <2>1, <2>5, <4>1, <4>2 DEF Refresh, Registry
    <3> QED BY <2>2, <2>3, <3>1
  <2>6. CASE SaveRegistry(t)
    <3>1. /\ wpc[t] \in {"save", "save_unlock", "save_dispatch"} /\ jobs' = jobs
          /\ wpc'[t] = IF wpc[t] = "save_dispatch" THEN "dispatch" ELSE "idle"
      BY <2>1, <2>6 DEF SaveRegistry, Goto, AfterSave
    <3> QED BY <2>2, <2>3, <3>1
  <2>7. CASE CreateAndStart(t)
    <3> DEFINE j == issued + 1
    <3>1. wpc[t] = "idle" /\ wpc'[t] = "save_unlock"
      BY <2>1, <2>7 DEF CreateAndStart, BuildEntries, Goto
    <3>2. \/ ~UnderLimit(jobs) /\ jobs' = [jobs EXCEPT ![j] = EntryOf("queued")]
          \/ UnderLimit(jobs) /\ \E p \in Pids : jobs' = [jobs EXCEPT ![j] = RunningAs(p)]
      BY <2>7 DEF CreateAndStart
    <3>3. issued \in Nat /\ issued < NumJobs
      BY <2>7 DEF CreateAndStart, AloneInv, WebInv, WebTypeOK, TypeOK, RegistryTypeOK
    <3>4. j \in Jobs /\ j > issued
      BY <3>3, RegistryAssumption DEF Jobs
    <3>5. jobs[j].st = "absent"
      BY <3>3, <3>4 DEF AloneInv, WebInv, CopiesFit, Fits
    <3> HIDE DEF j
    <3>6. CASE ~UnderLimit(jobs) /\ jobs' = [jobs EXCEPT ![j] = EntryOf("queued")]
      <4>1. \A i \in Jobs : jobs'[i] = jobs[i] \/ (i = j /\ jobs'[i] = EntryOf("queued"))
        BY <2>1, <3>6 DEF Registry
      <4>2. Running(jobs') = Running(jobs)
        BY <3>5, <4>1 DEF Running, EntryOf
      <4> QED BY <2>3, <3>1, <3>6, <4>2 DEF UnderLimit
    <3>7. ASSUME UnderLimit(jobs), NEW p \in Pids, jobs' = [jobs EXCEPT ![j] = RunningAs(p)]
          PROVE  QueueWaits'
      <4>1. \A i \in Jobs : jobs'[i] = jobs[i] \/ jobs'[i] = RunningAs(p)
        BY <2>1, <3>7 DEF Registry
      <4>2. Queued(jobs) = {}
        BY <2>2, <3>1, <3>7
      <4>3. Queued(jobs') = {}
        BY <4>1, <4>2 DEF Queued, RunningAs
      <4> QED BY <2>3, <3>1, <4>3
    <3> QED BY <3>2, <3>6, <3>7
  <2>8. CASE DispatchQueue(t)
    <3>1. /\ wpc'[t] = "dispatching" /\ jobs' = jobs
          /\ wjobs'[t] = [j \in Jobs |-> IF j \in Queued(jobs) THEN jobs[j] ELSE Absent]
      BY <2>1, <2>8 DEF DispatchQueue, Goto
    <3>2. Queued(wjobs'[t]) = Queued(jobs')
      BY <3>1 DEF Queued, Absent, EntryOf
    <3> QED BY <2>3, <3>1, <3>2
  <2>9. ASSUME NEW p \in Pids, WebDispatchOne(t, p) PROVE QueueWaits'
    <3> DEFINE j == FirstQueued(wjobs[t])
    <3>1. /\ wpc[t] = "dispatching" /\ wpc' = wpc
          /\ wjobs' = [wjobs EXCEPT ![t][j] = RunningAs(p)]
          /\ jobs' = [jobs EXCEPT ![j] = RunningAs(p)]
      BY <2>2, <2>9 DEF WebDispatchOne
    <3> HIDE DEF j
    <3>2. \A i \in Jobs :
            /\ jobs'[i] = IF i = j THEN RunningAs(p) ELSE jobs[i]
            /\ wjobs'[t][i] = IF i = j THEN RunningAs(p) ELSE wjobs[t][i]
      BY <2>1, <3>1 DEF Registry
    <3>3. Queued(wjobs'[t]) = Queued(wjobs[t]) \ {j} /\ Queued(jobs') = Queued(jobs) \ {j}
      BY <3>2 DEF Queued, RunningAs
    <3> QED BY <2>2, <2>3, <3>1, <3>3
  <2>10. CASE DispatchQueueDone(t)
    <3>1. /\ wpc[t] = "dispatching" /\ wpc'[t] \in {"idle", "save_unlock"} /\ jobs' = jobs
          /\ Queued(wjobs[t]) = {} \/ ~UnderLimit(jobs)
      BY <2>1, <2>2, <2>10 DEF DispatchQueueDone, WebMayStart, BuildEntries, Goto
    <3> QED BY <2>2, <2>3, <3>1
  <2>11. ~WebDispatchRaises(t)
    BY DEF WebDispatchRaises
  <2>12. ASSUME NEW j \in Jobs, CancelQueued(t, j) \/ CancelJob(t, j) PROVE QueueWaits'
    BY <2>1, <2>3, <2>12 DEF CancelQueued, CancelJob, Goto
  <2>14. CASE RemoveFinished(t)
    <3>1. /\ wpc[t] = "idle" /\ wpc'[t] = "save"
          /\ \A j \in Jobs : jobs'[j] = IF jobs[j].st \in {"running", "queued"} THEN jobs[j]
                                                                          ELSE Absent
      BY <2>1, <2>14 DEF RemoveFinished, BuildEntries, Goto
    <3>2. Running(jobs') = Running(jobs) /\ Queued(jobs') = Queued(jobs)
      BY <3>1 DEF Running, Queued, Absent, EntryOf
    <3> QED BY <2>2, <2>3, <3>1, <3>2 DEF UnderLimit
  <2> QED
    BY <1>1, <2>4, <2>5, <2>6, <2>7, <2>8, <2>9, <2>10, <2>11, <2>12, <2>13, <2>14 DEF WebStep
<1>2. CASE UNCHANGED webVars
  BY <1>2 DEF webVars, QueueWaits, Quiet, UnderLimit
<1>3. CASE UNCHANGED allVars
  BY <1>2, <1>3 DEF allVars
<1> QED BY <1>1, <1>2, <1>3 DEF WebAlone

LEMMA QueueWaitsInvariance ==
  ASSUME WebFaults = {} PROVE WebAloneSpec /\ []Serial => [](AloneInv /\ QueueWaits)
<1>1. WebInit => QueueWaits
  <2>1. WebInit => Queued(jobs) = {} /\ \A t \in Threads : wpc[t] = "idle"
    BY DEF WebInit, Queued, NoEntries, Absent, EntryOf
  <2> QED BY <2>1 DEF QueueWaits
<1> QED BY <1>1, AloneInit, AloneStep, QueueWaitsStep, PTL DEF WebAloneSpec

\* While its requests do not overlap the dashboard is fair: whatever is submitted,
\* cancelled, killed or cleared meanwhile, neither create_and_start nor _dispatch_queue
\* lets a job overtake one that is queued.
THEOREM WebQueueOrderThm ==
  ASSUME WebFaults = {} PROVE WebAloneSpec /\ []Serial => WebQueueOrder
<1>1. Serial /\ Serial' /\ AloneInv /\ QueueWaits /\ [WebAlone]_allVars
        => [\A p \in Pids : Free(p) /\ ~Free(p)'
              => \A i \in Queued(jobs) : proc'[p].job <= i]_allVars
  <2> SUFFICES ASSUME Serial, Serial', AloneInv, QueueWaits, [WebAlone]_allVars,
                      NEW p \in Pids, Free(p), ~Free(p)', NEW i \in Queued(jobs)
               PROVE  proc'[p].job <= i
    OBVIOUS
  <2>1. ASSUME NEW q \in Pids, NEW j, WebStart(q, j) PROVE proc'[p].job = j
    <3>1. proc \in [Pids -> Process]
      BY DEF AloneInv, WebInv, WebTypeOK, TypeOK, RegistryTypeOK
    <3> QED BY <2>1, <3>1 DEF WebStart, Started, Free
  <2>2. ASSUME \A t \in Threads : wpc[t] = "idle" PROVE ~UnderLimit(jobs)
    BY <2>2 DEF QueueWaits, Quiet
  <2>3. ASSUME NEW t \in Threads, wpc[t] = "dispatching" PROVE i \in Queued(wjobs[t])
    BY <2>3 DEF QueueWaits
  <2> QED BY <2>1, <2>2, <2>3, AloneStarts
<1> QED BY <1>1, QueueWaitsInvariance, PTL DEF WebAloneSpec, WebQueueOrder

\* Nor does it start a job twice: what was started has left the queue for good, in the
\* dictionary and hence in every list a dispatch goes through.
THEOREM WebStartedOnceThm ==
  ASSUME WebFaults = {} PROVE WebAloneSpec /\ []Serial => []StartedOnce
<1> DEFINE StartedSoFar == StartedOnce /\ \A p \in Pids : Free(p) => proc[p].job = 0
<1>1. WebInit => StartedSoFar
  BY DEF WebInit, Init, NoProcess, StartedOnce
<1>2. Serial /\ Serial' /\ AloneInv /\ QueueWaits /\ StartedSoFar /\ [WebAlone]_allVars => StartedSoFar'
  <2> SUFFICES ASSUME Serial, Serial', AloneInv, QueueWaits, StartedSoFar, [WebAlone]_allVars
               PROVE  StartedSoFar'
    OBVIOUS
  <2>1. proc \in [Pids -> Process] /\ issued \in Nat
    BY DEF AloneInv, WebInv, WebTypeOK, TypeOK, RegistryTypeOK
  <2>2. CASE \A p \in Pids : proc'[p].job = proc[p].job /\ (Free(p)' <=> Free(p))
    BY <2>2 DEF StartedOnce
  <2>3. ASSUME NEW q \in Pids, NEW j \in Jobs, jobs[j].st = "queued" \/ j > issued,
               WebStart(q, j)
        PROVE  StartedSoFar'
    <3>1. /\ Free(q) /\ ~Free(q)' /\ proc'[q].job = j
          /\ \A p \in Pids : p # q => proc'[p] = proc[p] /\ (Free(p)' <=> Free(p))
      BY <2>1, <2>3 DEF WebStart, Started, Free
    <3>2. \A p \in Pids : ~Free(p) => proc[p].job # j
      BY <2>3, NoProcessYet
    <3>3. j # 0
      BY DEF Jobs
    <3>4. \A p \in Pids : p # q => proc'[p].job # j
      BY <3>1, <3>2, <3>3
    <3> QED BY <3>1, <3>4 DEF StartedOnce
  <2>4. ASSUME NEW t \in Threads, wpc[t] = "dispatching", NEW j \in Queued(wjobs[t])
        PROVE  j \in Jobs /\ jobs[j].st = "queued"
    BY <2>4 DEF QueueWaits, Queued
  <2>5. issued + 1 > issued
    BY <2>1
  <2> HIDE DEF StartedSoFar
  <2> QED BY <2>2, <2>3, <2>4, <2>5, AloneStarts
<1>3. StartedSoFar => StartedOnce
  OBVIOUS
<1> HIDE DEF StartedSoFar
<1> QED BY <1>1, <1>2, <1>3, QueueWaitsInvariance, PTL DEF WebAloneSpec
================================================================================
