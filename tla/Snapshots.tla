------------------------------- MODULE Snapshots -------------------------------
(***************************************************************************)
(* The snapshots of one target on one local or SSH destination, and the    *)
(* processes that work on them: backup runs (lib/core/backup.py), which    *)
(* transfer the folders into <timestamp>.partial, rename it, and enforce   *)
(* retention, and "gniza retention", which the daemon, the dashboard and   *)
(* users start and which takes no lock.  Runs exclude each other by the    *)
(* flock of the target; any of them can be killed between two steps.       *)
(*                                                                         *)
(* A timestamp is a number, later ones greater.  Of the content of a       *)
(* snapshot only which folders it holds completely is kept, of its         *)
(* meta.json only whether it exists and says "pinned".  Database dumps are *)
(* folders like any other.                                                 *)
(***************************************************************************)
EXTENDS Naturals, FiniteSets

CONSTANTS
  NumStamps,    \* bound: how many timestamps runs take
  NumFolders,   \* the folders of the target, transferred in order
  Runs,         \* the backup processes of the target: cron, dashboard, shell
  Pruners,      \* the processes that run "gniza retention"
  NoRun,        \* nobody holds the lock of the target
  Keep,         \* the retention count each of them works with
  MaxRetries,   \* SSH_RETRIES
  Faults,       \* which faults the environment may inject
  LatePins      \* whether users set pins while a retention is deleting

ASSUME SnapshotsAssumption ==
  /\ NumStamps \in Nat
  /\ NumFolders \in Nat \ {0}
  /\ Runs \intersect Pruners = {}
  /\ NoRun \notin Runs
  /\ Keep \in [Runs \union Pruners -> Nat]
  /\ MaxRetries \in Nat \ {0}
  /\ Faults \subseteq {"crash", "remote", "meta", "rm", "unreadable", "pins"}
  /\ LatePins \in BOOLEAN

VARIABLES
  snaps,      \* the directory of each timestamp on the destination
  latest,     \* the timestamp the symlink "latest" names, 0 if there is none
  tlock,      \* who holds gniza-lock-<target>.lock
  pc,         \* what each process does next
  work,       \* where a backup run is in its transfer
  result,     \* what backup_target last returned, and for which timestamp
  listed,     \* the snapshots a retention listed
  doomed,     \* the snapshots a retention has still to delete
  condemned   \* history: the snapshots some retention has ever chosen to delete

vars == <<snaps, latest, tlock, pc, work, result, listed, doomed, condemned>>

Stamps == 1..NumStamps
Folders == 1..NumFolders
Actors == Runs \union Pruners

Snapshot == [dir  : {"none", "partial", "final"},
             has  : SUBSET Folders,
             meta : {"none", "plain", "pinned"}]

NoSnapshot == [dir |-> "none", has |-> {}, meta |-> "none"]

Work == [ts : 0..NumStamps, folder : 0..NumFolders, attempt : 0..MaxRetries,
         again : BOOLEAN, failed : BOOLEAN]

NoWork == [ts |-> 0, folder |-> 0, attempt |-> 0, again |-> FALSE, failed |-> FALSE]

\* list_snapshots: the directories without .partial.
Finals == {s \in Stamps : snaps[s].dir = "final"}

Partials == {s \in Stamps : snaps[s].dir = "partial"}

Pinned == {s \in Finals : snaps[s].meta = "pinned"}

Latest(S) == CHOOSE s \in S : \A t \in S : t <= s

\* make_timestamp: the clock has moved on since every earlier run.
Fresh(s) == \A t \in Stamps : t >= s => snaps[t] = NoSnapshot /\ t \notin condemned
                                        /\ \A r \in Runs : work[r].ts # t

Init ==
  /\ snaps = [s \in Stamps |-> NoSnapshot]
  /\ latest = 0
  /\ tlock = NoRun
  /\ pc = [a \in Actors |-> "idle"]
  /\ work = [r \in Runs |-> NoWork]
  /\ result = [rc |-> "none", ts |-> 0]
  /\ listed = [a \in Actors |-> {}]
  /\ doomed = [a \in Actors |-> {}]
  /\ condemned = {}

Goto(a, where) == pc' = [pc EXCEPT ![a] = where]

\* backup_target returns, by a return or an exception, and its finally clause
\* releases the lock.
Return(r, rc) ==
  /\ Goto(r, "idle")
  /\ result' = [rc |-> rc, ts |-> IF rc = "ok" THEN work[r].ts ELSE 0]
  /\ work' = [work EXCEPT ![r] = NoWork]
  /\ tlock' = IF tlock = r THEN NoRun ELSE tlock

retentionVars == <<listed, doomed, condemned>>

\* The destination after rm -rf of some directories, and with one thing about the
\* directory of s changed.
Without(gone) == [s \in Stamps |-> IF s \in gone THEN NoSnapshot ELSE snaps[s]]
WithDir(s, dir) == [snaps EXCEPT ![s].dir = dir]
WithHas(s, has) == [snaps EXCEPT ![s].has = has]
WithFolders(s, has) == [snaps EXCEPT ![s].dir = "partial", ![s].has = has]
WithMeta(s, meta) == [snaps EXCEPT ![s].meta = meta]

--------------------------------------------------------------------------------
(* backup_target *)

\* Mutant of Acquire: the lock is not checked.
AcquireAnyway(r, s) ==
  /\ pc[r] = "idle"
  /\ Fresh(s) /\ \A t \in Stamps : t < s => ~Fresh(t)
  /\ tlock' = r
  /\ work' = [work EXCEPT ![r] = [NoWork EXCEPT !.ts = s]]
  /\ Goto(r, "probe")
  /\ UNCHANGED <<snaps, latest, result, retentionVars>>

\* The lock is free: take it and a timestamp.
Acquire(r, s) ==
  /\ pc[r] = "idle"
  /\ tlock = NoRun
  /\ Fresh(s) /\ \A t \in Stamps : t < s => ~Fresh(t)
  /\ tlock' = r
  /\ work' = [work EXCEPT ![r] = [NoWork EXCEPT !.ts = s]]
  /\ Goto(r, "probe")
  /\ UNCHANGED <<snaps, latest, result, retentionVars>>

\* The lock is taken: return code 2.
SkipBusy(r) ==
  /\ pc[r] = "idle"
  /\ tlock # NoRun
  /\ result' = [rc |-> "skipped", ts |-> 0]
  /\ UNCHANGED <<snaps, latest, tlock, pc, work, retentionVars>>

\* No remote, no connection or no space on the destination: return code 1.
ProbeFails(r) ==
  /\ pc[r] = "probe"
  /\ Return(r, "failed")
  /\ UNCHANGED <<snaps, latest, retentionVars>>

ProbeOk(r) ==
  /\ pc[r] = "probe"
  /\ Goto(r, "clean")
  /\ UNCHANGED <<snaps, latest, tlock, work, result, retentionVars>>

\* clean_partial_snapshots: every .partial goes, or stays if rm cannot remove it.
CleanPartials(r) ==
  /\ pc[r] = "clean"
  /\ \E gone \in SUBSET Partials :
       /\ gone = Partials \/ "rm" \in Faults
       /\ snaps' = Without(gone)
  /\ Goto(r, "prepare")
  /\ UNCHANGED <<latest, tlock, work, result, retentionVars>>

\* The pre-hook fails or times out, or .partial cannot be created.
PrepareFails(r) ==
  /\ pc[r] = "prepare"
  /\ Return(r, "failed")
  /\ UNCHANGED <<snaps, latest, retentionVars>>

\* The pre-hook and the dumps are done (a failed dump is a warning): create .partial.
MakePartial(r) ==
  /\ pc[r] = "prepare"
  /\ snaps' = WithDir(work[r].ts, "partial")
  /\ work' = [work EXCEPT ![r].folder = 1]
  /\ Goto(r, "transfer")
  /\ UNCHANGED <<latest, tlock, result, retentionVars>>

--------------------------------------------------------------------------------
(* _transfer_all_folders and rsync_with_retry *)

\* Exit codes of rsync: 23 a partial transfer, 24 vanished source files.
Code == {"0", "23", "24", "other"}

\* Mutant of NextFolder: it goes on after the last folder.
NextFolderOverruns(w, ok) ==
  [w EXCEPT !.folder = @ + 1, !.attempt = 0, !.again = FALSE, !.failed = @ \/ ~ok]

\* Mutant of NextFolder: a later folder that succeeds hides the failure.
NextFolderForgets(w, ok) ==
  [w EXCEPT !.folder = IF @ < NumFolders THEN @ + 1 ELSE 0,
            !.attempt = 0, !.again = FALSE, !.failed = ~ok]

\* The wrapper has returned for the current folder: on to the next one.
NextFolder(w, ok) ==
  [w EXCEPT !.folder = IF @ < NumFolders THEN @ + 1 ELSE 0,
            !.attempt = 0, !.again = FALSE, !.failed = @ \/ ~ok]

\* Mutant of AfterRsync: after the last attempt it starts over.
AfterRsyncForever(w, code) ==
  IF w.again \/ code \in {"0", "24"} THEN NextFolder(w, TRUE)
  ELSE IF code = "23" THEN [w EXCEPT !.again = TRUE]
       ELSE [w EXCEPT !.attempt = (@ + 1) % MaxRetries]

\* How the wrapper goes on: 0 and 24 are success, 23 is tried once more and then
\* success whatever comes, anything else is tried MaxRetries times.
AfterRsync(w, code) ==
  CASE w.again \/ code \in {"0", "24"} -> NextFolder(w, TRUE)
    [] ~w.again /\ code = "23" -> [w EXCEPT !.again = TRUE]
    [] ~w.again /\ code = "other" /\ w.attempt + 1 < MaxRetries ->
         [w EXCEPT !.attempt = @ + 1]
    [] OTHER -> NextFolder(w, FALSE)

\* The folders that are complete after rsync exits with a code.
Received(w, code) ==
  IF code \in {"0", "24"} THEN snaps[w.ts].has \union {w.folder} ELSE snaps[w.ts].has

\* One attempt on a folder, which makes the directory again if it is gone.
Rsync(r, code) ==
  LET w == work[r] IN
  /\ pc[r] = "transfer"
  /\ w.folder # 0
  /\ code = "23" => "unreadable" \in Faults
  /\ snaps' = WithFolders(w.ts, Received(w, code))
  /\ work' = [work EXCEPT ![r] = AfterRsync(w, code)]
  /\ UNCHANGED <<latest, tlock, pc, result, retentionVars>>

\* The destination has filled up: no more folders, or no more attempts on this one.
DiskFull(r) ==
  LET w == work[r] IN
  /\ pc[r] = "transfer"
  /\ w.folder # 0
  /\ ~w.again
  /\ \/ /\ w.folder > 1 /\ w.attempt = 0
        /\ work' = [work EXCEPT ![r] = [w EXCEPT !.folder = 0, !.failed = TRUE]]
     \/ w.attempt > 0 /\ work' = [work EXCEPT ![r] = NextFolder(w, FALSE)]
  /\ UNCHANGED <<snaps, latest, tlock, pc, result, retentionVars>>

\* The failed transfer leaves its .partial to the next run.
TransferFails(r) ==
  /\ pc[r] = "transfer"
  /\ work[r].folder = 0
  /\ work[r].failed
  /\ Return(r, "failed")
  /\ UNCHANGED <<snaps, latest, retentionVars>>

\* _generate_meta_json; that the file cannot be written is only a warning.
GenerateMeta(r) ==
  /\ pc[r] = "transfer"
  /\ work[r].folder = 0
  /\ ~work[r].failed
  /\ \E meta \in {"plain"} \union (IF "meta" \in Faults THEN {"none"} ELSE {}) :
       snaps' = WithMeta(work[r].ts, meta)
  /\ Goto(r, "finalize")
  /\ UNCHANGED <<latest, tlock, work, result, retentionVars>>

--------------------------------------------------------------------------------
(* finalize_snapshot *)

\* Mutant of Finalize: it does not check that the rename worked.
FinalizeBlindly(r) ==
  /\ pc[r] = "finalize"
  /\ Goto(r, "unlink")
  /\ snaps' = WithDir(work[r].ts, "final") \/ snaps' = snaps
  /\ UNCHANGED <<latest, tlock, work, result, retentionVars>>

\* The rename that publishes the snapshot.
Finalize(r) ==
  /\ pc[r] = "finalize"
  /\ snaps[work[r].ts].dir = "partial"
  /\ snaps' = WithDir(work[r].ts, "final")
  /\ Goto(r, "unlink")
  /\ UNCHANGED <<latest, tlock, work, result, retentionVars>>

FinalizeFails(r) ==
  /\ pc[r] = "finalize"
  /\ Return(r, "failed")
  /\ UNCHANGED <<snaps, latest, retentionVars>>

\* An OSError here leaves the link as it was, and no other is made.
UnlinkLatest(r) ==
  /\ pc[r] = "unlink"
  /\ \/ latest' = 0 /\ Goto(r, "link")
     \/ "rm" \in Faults /\ latest' = latest /\ Goto(r, "retain")
  /\ UNCHANGED <<snaps, tlock, work, result, retentionVars>>

\* An OSError is ignored.  The post-hook that follows changes nothing here.
LinkLatest(r) ==
  /\ pc[r] = "link"
  /\ latest' = work[r].ts \/ ("rm" \in Faults /\ latest' = latest)
  /\ Goto(r, "retain")
  /\ UNCHANGED <<snaps, tlock, work, result, retentionVars>>

\* What the remote command of a step does to the destination.
Effect(r) ==
  CASE pc[r] = "clean" -> Without(Partials)
    [] pc[r] = "prepare" -> WithDir(work[r].ts, "partial")
    [] pc[r] = "transfer" -> WithMeta(work[r].ts, "plain")
    [] pc[r] = "finalize" /\ snaps[work[r].ts].dir = "partial" ->
         WithDir(work[r].ts, "final")
    [] OTHER -> snaps

\* A remote command times out: TimeoutExpired leaves backup_target, and the
\* command may have been carried out all the same.
RemoteTimesOut(r) ==
  /\ "remote" \in Faults
  /\ \/ pc[r] \in {"clean", "prepare", "finalize", "unlink", "link"}
     \/ pc[r] = "transfer" /\ work[r].folder = 0 /\ ~work[r].failed
  /\ snaps' \in {snaps, Effect(r)}
  /\ latest' = latest \/ (pc[r] = "link" /\ latest' = work[r].ts)
  /\ Return(r, "failed")
  /\ UNCHANGED retentionVars

--------------------------------------------------------------------------------
(* enforce_retention, at the end of a backup run or by itself *)

\* list_snapshots; over SSH a command that fails lists nothing.
ListSnapshots(a) ==
  /\ \/ a \in Runs /\ pc[a] = "retain"
     \/ a \in Pruners /\ pc[a] = "idle" /\ Finals # {}
  /\ \/ listed' = [listed EXCEPT ![a] = Finals]
     \/ "remote" \in Faults /\ listed' = [listed EXCEPT ![a] = {}]
  /\ Goto(a, "pins")
  /\ UNCHANGED <<snaps, latest, tlock, work, result, doomed, condemned>>

\* Mutant of Excess: the list is sorted oldest first.
ExcessOldestFirst(snapshots, pins, keep) ==
  {s \in snapshots \ pins : Cardinality({t \in snapshots \ pins : t < s}) >= keep}

\* Mutant of Excess: one snapshot too many goes.
ExcessOffByOne(snapshots, pins, keep) ==
  {s \in snapshots \ pins : Cardinality({t \in snapshots \ pins : t > s}) + 1 >= keep}

\* Mutant of Excess: pins are only considered for the count.
ExcessPinsToo(snapshots, pins, keep) ==
  {s \in snapshots : Cardinality({t \in snapshots \ pins : t > s}) >= keep}

\* The snapshots beyond the retention count; pinned ones do not count.
Excess(snapshots, pins, keep) ==
  {s \in snapshots \ pins : Cardinality({t \in snapshots \ pins : t > s}) >= keep}

\* _prefetch_pinned, once for all snapshots; what cannot be read is not pinned.
PrefetchPinned(a) ==
  /\ pc[a] = "pins"
  /\ \E pins \in {Pinned} \union (IF "pins" \in Faults THEN {{}} ELSE {}) :
       LET excess == Excess(listed[a], pins, Keep[a]) IN
       /\ doomed' = [doomed EXCEPT ![a] = excess]
       /\ condemned' = condemned \union excess
  /\ listed' = [listed EXCEPT ![a] = {}]
  /\ Goto(a, "prune")
  /\ UNCHANGED <<snaps, latest, tlock, work, result>>

\* rm -rf on the newest snapshot still to go has removed some of it ...
DeleteSome(a) ==
  LET s == Latest(doomed[a]) IN
  /\ pc[a] = "prune"
  /\ doomed[a] # {}
  /\ snaps[s].dir = "final"
  /\ snaps[s].has # {}
  /\ snaps' = WithHas(s, {})
  /\ UNCHANGED <<latest, tlock, pc, work, result, retentionVars>>

\* ... and all of it, or fails and leaves the rest.
DeleteSnapshot(a) ==
  LET s == Latest(doomed[a]) IN
  /\ pc[a] = "prune"
  /\ doomed[a] # {}
  /\ snaps' = Without({s}) \/ ("rm" \in Faults /\ snaps' = snaps)
  /\ doomed' = [doomed EXCEPT ![a] = @ \ {s}]
  /\ UNCHANGED <<latest, tlock, pc, work, result, listed, condemned>>

\* In the retention of a backup run a remote rm times out: the exception ends it with
\* a warning, and the snapshot may be gone.
DeleteTimesOut(a) ==
  /\ "remote" \in Faults
  /\ a \in Runs
  /\ pc[a] = "prune"
  /\ doomed[a] # {}
  /\ snaps' \in {snaps, Without({Latest(doomed[a])})}
  /\ doomed' = [doomed EXCEPT ![a] = {}]
  /\ UNCHANGED <<latest, tlock, pc, work, result, listed, condemned>>

\* The end of "gniza retention", and of a backup run.
RetentionDone(a) ==
  /\ pc[a] = "prune"
  /\ doomed[a] = {}
  /\ \/ a \in Runs /\ Return(a, "ok")
     \/ a \in Pruners /\ Goto(a, "idle") /\ UNCHANGED <<tlock, work, result>>
  /\ UNCHANGED <<snaps, latest, retentionVars>>

--------------------------------------------------------------------------------

\* SIGKILL, from kill_job, a stopping unit or the kernel; the flock goes with the
\* process.
Killed(a) ==
  /\ "crash" \in Faults
  /\ pc[a] # "idle"
  /\ Goto(a, "idle")
  /\ tlock' = IF tlock = a THEN NoRun ELSE tlock
  /\ work' = [r \in Runs |-> IF r = a THEN NoWork ELSE work[r]]
  /\ listed' = [listed EXCEPT ![a] = {}]
  /\ doomed' = [doomed EXCEPT ![a] = {}]
  /\ UNCHANGED <<snaps, latest, result, condemned>>

Deleting == \E a \in Actors : pc[a] \in {"pins", "prune"}

\* A user edits "pinned" in the meta.json of a snapshot.
Pin(s) ==
  /\ LatePins \/ ~Deleting
  /\ s \in Finals
  /\ snaps[s].meta # "none"
  /\ snaps' = WithMeta(s, IF snaps[s].meta = "pinned" THEN "plain" ELSE "pinned")
  /\ UNCHANGED <<latest, tlock, pc, work, result, retentionVars>>

BackupStep(r) ==
  \/ ProbeFails(r)
  \/ ProbeOk(r)
  \/ CleanPartials(r)
  \/ PrepareFails(r)
  \/ MakePartial(r)
  \/ \E code \in Code : Rsync(r, code)
  \/ DiskFull(r)
  \/ TransferFails(r)
  \/ GenerateMeta(r)
  \/ Finalize(r)
  \/ FinalizeFails(r)
  \/ UnlinkLatest(r)
  \/ LinkLatest(r)
  \/ RemoteTimesOut(r)

RetentionStep(a) ==
  \/ ListSnapshots(a)
  \/ PrefetchPinned(a)
  \/ DeleteSome(a)
  \/ DeleteSnapshot(a)
  \/ DeleteTimesOut(a)
  \/ RetentionDone(a)

Next ==
  \/ \E r \in Runs, s \in Stamps : Acquire(r, s)
  \/ \E r \in Runs : SkipBusy(r) \/ BackupStep(r)
  \/ \E a \in Actors : RetentionStep(a) \/ Killed(a)
  \/ \E s \in Stamps : Pin(s)

Spec == Init /\ [][Next]_vars

\* A backup run that has begun keeps running: rsync, hooks and remote commands all
\* end, by themselves or by their timeout.
Fairness == \A r \in Runs : WF_vars(BackupStep(r) \/ RetentionStep(r))

FairSpec == Spec /\ Fairness

--------------------------------------------------------------------------------
(* Properties. *)

\* Type correctness of the destination and of the processes.
TypeOK ==
  /\ snaps \in [Stamps -> Snapshot]
  /\ latest \in 0..NumStamps
  /\ tlock \in Runs \union {NoRun}
  /\ pc \in [Actors -> {"idle", "probe", "clean", "prepare", "transfer", "finalize",
                        "unlink", "link", "retain", "pins", "prune"}]
  /\ work \in [Runs -> Work]
  /\ result \in [rc : {"none", "ok", "failed", "skipped"}, ts : 0..NumStamps]
  /\ listed \in [Actors -> SUBSET Stamps]
  /\ doomed \in [Actors -> SUBSET Stamps]
  /\ condemned \subseteq Stamps

Whole(s) == snaps[s].dir = "final" /\ snaps[s].has = Folders

\* Every snapshot that is listed, or that "latest" names, holds all of every folder,
\* unless a retention chose it: a run that fails, is killed or is overtaken between
\* any two steps leaves no incomplete snapshot behind.
ListedIsWhole ==
  \A s \in (Finals \union {latest}) \ (condemned \union {0}) : Whole(s)

\* The .partial of a run in progress stays where it is, with all that was transferred
\* so far: no other run cleans it up.
OwnPartialIsSafe ==
  \A r \in Runs : pc[r] \in {"transfer", "finalize"} =>
    /\ snaps[work[r].ts].dir = "partial"
    /\ ~work[r].failed => {f \in Folders : work[r].folder = 0 \/ f < work[r].folder}
                             \subseteq snaps[work[r].ts].has

\* What some process keeps at least.
MinKeep == CHOOSE k \in {Keep[a] : a \in Actors} : \A a \in Actors : k <= Keep[a]

\* However many retentions with whatever counts run at the same time on lists that
\* grow old, the newest MinKeep snapshots that are not pinned are never chosen.
KeepsNewest ==
  \A s \in condemned : Cardinality({t \in Finals \ condemned : t > s}) >= MinKeep

\* A backup of an enabled source that returned 0 has published its snapshot, whole;
\* only a retention can have chosen it since.
SuccessIsListed == result.rc = "ok" => Whole(result.ts) \/ result.ts \in condemned

\* enforce_retention never deletes anything of a pinned snapshot.
PinnedStays ==
  [][\A s \in Pinned : snaps'[s].dir = "final" /\ snaps'[s].has = snaps[s].has]_vars

\* A backup that has begun comes to an end and releases the lock, whatever fails.
BackupEnds == \A r \in Runs : (tlock = r) ~> (tlock # r)

\* The destination implements the catalog: a snapshot enters with the rename and is
\* given up when a retention chooses it.
ShelfOf(s) ==
  CASE s \in condemned -> "dropped"
    [] s \notin condemned /\ snaps[s].dir # "final" -> "none"
    [] OTHER -> IF snaps[s].meta = "pinned" THEN "pinned" ELSE "kept"

Catalog == INSTANCE SnapshotCatalog WITH shelf <- [s \in Stamps |-> ShelfOf(s)]

ImplementsCatalog == Catalog!Spec
================================================================================
