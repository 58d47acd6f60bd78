------------------------------ MODULE RcloneStore ------------------------------
(***************************************************************************)
(* One target on one rclone destination (lib/core/rclone.py and its        *)
(* callers).  A backup does not make a tree of its own: it mirrors the     *)
(* folders into current/, moves what it replaces there into                *)
(* snapshots/<timestamp>/, and marks that directory with .complete.  A     *)
(* directory without the marker is a leftover the next backup purges.      *)
(* A restore reads current/.                                               *)
(*                                                                         *)
(* Of a folder only the version of its content is kept; 0 is none.  Every  *)
(* call of rclone builds a configuration file of its own and can fail.     *)
(* Pins have no effect here: _prefetch_pinned has no branch for rclone.    *)
(***************************************************************************)
EXTENDS Naturals, FiniteSets

CONSTANTS
  CloudStamps,    \* bound: how many timestamps the backups take
  CloudFolders,   \* how many folders the target has
  CloudVersions,  \* bound: how often a folder of the source changes
  CloudRuns,      \* the backup processes of the target
  CloudPruners,   \* the processes that run "gniza retention"
  Restorers,      \* the processes that run "gniza restore"
  NoCloudRun,     \* nobody holds the lock of the target
  CloudKeep,      \* the retention count
  CloudRetries,   \* SSH_RETRIES
  CloudFaults     \* which commands may fail: "crash", "list", "check", "purge"

ASSUME RcloneAssumption ==
  /\ CloudStamps \in Nat
  /\ CloudFolders \in Nat \ {0}
  /\ CloudVersions \in Nat \ {0}
  /\ CloudRuns \intersect CloudPruners = {}
  /\ NoCloudRun \notin CloudRuns
  /\ CloudKeep \in Nat
  /\ CloudRetries \in Nat \ {0}
  /\ CloudFaults \subseteq {"crash", "list", "check", "purge"}

VARIABLES
  origin,     \* the version of each folder at the source
  mirror,     \* the version of each folder in current/
  vault,      \* the directories below snapshots/
  holder,     \* who holds the lock of the target
  at,         \* what each process does next
  job,        \* the backup each run is making
  purging,    \* the directories each process is about to purge
  fetch,      \* the restore each restorer is making
  sealed,     \* history: current/ when the marker of a timestamp was written
  dropped     \* history: the snapshots a retention chose

cloudVars == <<origin, mirror, vault, holder, at, job, purging, fetch, sealed, dropped>>
runVars == <<holder, at, job>>

CStamps == 1..CloudStamps
CFolders == 1..CloudFolders
Versions == 0..CloudVersions
Writers == CloudRuns \union CloudPruners

Nothing == [f \in CFolders |-> 0]
Absent == [dir |-> FALSE, complete |-> FALSE, old |-> Nothing]
NoJob == [ts |-> 0, folder |-> 0, attempt |-> 0, failed |-> FALSE, seen |-> Nothing]
NoFetch == [step |-> "idle", ts |-> 0, folder |-> 0, ok |-> TRUE, got |-> Nothing]

Dirs == {s \in CStamps : vault[s].dir}
Complete == {s \in Dirs : vault[s].complete}
Newest(S) == CHOOSE s \in S : \A t \in S : t <= s

CloudInit ==
  /\ origin = [f \in CFolders |-> 1]
  /\ mirror = Nothing
  /\ vault = [s \in CStamps |-> Absent]
  /\ holder = NoCloudRun
  /\ at = [a \in Writers |-> "idle"]
  /\ job = [r \in CloudRuns |-> NoJob]
  /\ purging = [a \in Writers |-> {}]
  /\ fetch = [x \in Restorers |-> NoFetch]
  /\ sealed = [s \in CStamps |-> Nothing]
  /\ dropped = {}

Step(a, where) == at' = [at EXCEPT ![a] = where]

\* backup_target returns or raises; its finally clause releases the lock.
Leave(r) ==
  /\ Step(r, "idle")
  /\ job' = [job EXCEPT ![r] = NoJob]
  /\ holder' = NoCloudRun

\* rclone_list_dirs: a command that fails lists nothing.
Listings == {Dirs} \union (IF "list" \in CloudFaults THEN {{}} ELSE {})

\* _rclone_exists on the markers: a command that fails says there is no marker.
Marked(seen) ==
  IF "check" \in CloudFaults THEN SUBSET (Complete \intersect seen)
  ELSE {Complete \intersect seen}

--------------------------------------------------------------------------------
(* The backup. *)

\* The lock and a timestamp of its own.
Begin(r, s) ==
  /\ at[r] = "idle"
  /\ holder = NoCloudRun
  /\ \A t \in Dirs \union dropped : t < s
  /\ s = 1 \/ s - 1 \in Dirs \union dropped
  /\ holder' = r
  /\ job' = [job EXCEPT ![r] = [NoJob EXCEPT !.ts = s, !.seen = origin]]
  /\ Step(r, "connect")
  /\ UNCHANGED <<origin, mirror, vault, purging, fetch, sealed, dropped>>

\* "rclone about" fails, the destination is full, the pre-hook fails, or a temporary
\* configuration cannot be built.
GiveUp(r) ==
  /\ at[r] \in {"connect", "hook"}
  /\ Leave(r)
  /\ UNCHANGED <<origin, mirror, vault, purging, fetch, sealed, dropped>>

\* Mutant of FindPartials: every directory but the newest is taken for a leftover.
FindPartialsByAge(r) ==
  /\ at[r] = "connect"
  /\ purging' = [purging EXCEPT ![r] = {s \in Dirs : \E t \in Dirs : t > s}]
  /\ Step(r, "clean")
  /\ UNCHANGED <<origin, mirror, vault, holder, job, fetch, sealed, dropped>>

\* rclone_clean_partial_snapshots: what has no marker, as far as one can see.
FindPartials(r) ==
  /\ at[r] = "connect"
  /\ \E seen \in Listings : \E marked \in Marked(seen) :
       purging' = [purging EXCEPT ![r] = seen \ marked]
  /\ Step(r, "clean")
  /\ UNCHANGED <<origin, mirror, vault, holder, job, fetch, sealed, dropped>>

\* rclone_purge on one directory to go, in whatever order they are listed: it goes, or
\* the command fails, with nothing or some of it removed.
Purge(a) ==
  /\ at[a] \in {"clean", "prune"}
  /\ \E s \in purging[a] :
       /\ \/ vault' = [vault EXCEPT ![s] = Absent]
          \/ "purge" \in CloudFaults /\ vault' \in {vault, [vault EXCEPT ![s].old = Nothing]}
       /\ purging' = [purging EXCEPT ![a] = @ \ {s}]
  /\ UNCHANGED <<origin, mirror, runVars, fetch, sealed, dropped>>

\* A purge takes more than five minutes: TimeoutExpired ends the backup when it was
\* cleaning up, and its retention when it was pruning.
PurgeTimesOut(r) ==
  /\ "purge" \in CloudFaults
  /\ \E s \in purging[r] :
       vault' \in {vault, [vault EXCEPT ![s] = Absent], [vault EXCEPT ![s].old = Nothing]}
  /\ purging' = [purging EXCEPT ![r] = {}]
  /\ \/ at[r] = "clean" /\ Leave(r)
     \/ at[r] = "prune" /\ UNCHANGED runVars
  /\ UNCHANGED <<origin, mirror, fetch, sealed, dropped>>

CleanDone(r) ==
  /\ at[r] = "clean"
  /\ purging[r] = {}
  /\ Step(r, "hook")
  /\ UNCHANGED <<origin, mirror, vault, holder, job, purging, fetch, sealed, dropped>>

HookOk(r) ==
  /\ at[r] = "hook"
  /\ job' = [job EXCEPT ![r].folder = 1]
  /\ Step(r, "sync")
  /\ UNCHANGED <<origin, mirror, vault, holder, purging, fetch, sealed, dropped>>

\* Mutant of AfterSync: the failure of a folder is forgotten.
AfterSyncForgets(w, ok) ==
  [w EXCEPT !.folder = IF @ < CloudFolders THEN @ + 1 ELSE 0, !.attempt = 0]

\* The loop of rclone_sync_incremental and of _transfer_all_folders around it.
AfterSync(w, ok) ==
  IF ~ok /\ w.attempt + 1 < CloudRetries THEN [w EXCEPT !.attempt = @ + 1]
  ELSE [w EXCEPT !.folder = IF @ < CloudFolders THEN @ + 1 ELSE 0, !.attempt = 0,
                 !.failed = @ \/ ~ok]

\* What "rclone sync --backup-dir" does to a folder: the version it replaces moves to
\* the directory of the timestamp, over what an earlier attempt moved there.
SyncEffect(s, f) ==
  /\ mirror' = [mirror EXCEPT ![f] = origin[f]]
  /\ vault' = IF mirror[f] \in {0, origin[f]} THEN vault
              ELSE [vault EXCEPT ![s].dir = TRUE, ![s].old[f] = mirror[f]]

\* One attempt; one that fails can have got as far as this folder all the same.
Sync(r, ok, done) ==
  LET w == job[r] IN
  /\ at[r] = "sync"
  /\ w.folder # 0
  /\ ok => done
  /\ IF done THEN SyncEffect(w.ts, w.folder) ELSE UNCHANGED <<mirror, vault>>
  /\ job' = [job EXCEPT ![r] = AfterSync(w, ok)]
  /\ UNCHANGED <<origin, holder, at, purging, fetch, sealed, dropped>>

\* An attempt takes more than an hour: TimeoutExpired leaves the loop and backup_target.
SyncTimesOut(r, done) ==
  LET w == job[r] IN
  /\ at[r] = "sync"
  /\ w.folder # 0
  /\ IF done THEN SyncEffect(w.ts, w.folder) ELSE UNCHANGED <<mirror, vault>>
  /\ Leave(r)
  /\ UNCHANGED <<origin, purging, fetch, sealed, dropped>>

\* A folder failed, or the destination is full before the next one.
SyncFails(r) ==
  /\ at[r] = "sync"
  /\ \/ job[r].folder = 0 /\ job[r].failed
     \/ job[r].folder > 1 /\ job[r].attempt = 0
  /\ Leave(r)
  /\ UNCHANGED <<origin, mirror, vault, purging, fetch, sealed, dropped>>

\* meta.json; a failure is only a warning.
WriteMeta(r, written) ==
  /\ at[r] = "sync"
  /\ job[r].folder = 0
  /\ ~job[r].failed
  /\ vault' = IF written THEN [vault EXCEPT ![job[r].ts].dir = TRUE] ELSE vault
  /\ Step(r, "seal")
  /\ UNCHANGED <<origin, mirror, holder, job, purging, fetch, sealed, dropped>>

\* rclone_finalize_snapshot writes the marker; that latest.txt, which nothing reads,
\* cannot be written is only a warning.
Seal(r) ==
  LET s == job[r].ts IN
  /\ at[r] = "seal"
  /\ vault' = [vault EXCEPT ![s].dir = TRUE, ![s].complete = TRUE]
  /\ sealed' = [sealed EXCEPT ![s] = mirror]
  /\ Step(r, "retain")
  /\ UNCHANGED <<origin, mirror, holder, job, purging, fetch, dropped>>

\* "rclone rcat" fails or times out, on meta.json, the marker or latest.txt: the backup
\* has failed, and the marker may be there all the same.
SealFails(r) ==
  LET s == job[r].ts IN
  /\ \/ at[r] = "sync" /\ job[r].folder = 0 /\ ~job[r].failed
        /\ UNCHANGED <<vault, sealed>>
     \/ at[r] = "seal" /\ UNCHANGED <<vault, sealed>>
     \/ /\ at[r] = "seal"
        /\ vault' = [vault EXCEPT ![s].dir = TRUE, ![s].complete = TRUE]
        /\ sealed' = [sealed EXCEPT ![s] = mirror]
  /\ Leave(r)
  /\ UNCHANGED <<origin, mirror, purging, fetch, dropped>>

--------------------------------------------------------------------------------
(* Retention, and what stops a process. *)

\* enforce_retention: the snapshots beyond the count.
Surplus(seen) == {s \in seen : Cardinality({t \in seen : t > s}) >= CloudKeep}

\* rclone_list_remote_snapshots, then the choice.
Choose(a) ==
  /\ \/ a \in CloudRuns /\ at[a] = "retain"
     \/ a \in CloudPruners /\ at[a] = "idle" /\ Complete # {}
  /\ \E seen \in Listings : \E marked \in Marked(seen) :
       /\ purging' = [purging EXCEPT ![a] = Surplus(marked)]
       /\ dropped' = dropped \union Surplus(marked)
  /\ Step(a, "prune")
  /\ UNCHANGED <<origin, mirror, vault, holder, job, fetch, sealed>>

ChooseDone(a) ==
  /\ at[a] = "prune"
  /\ purging[a] = {}
  /\ \/ a \in CloudRuns /\ Leave(a)
     \/ a \in CloudPruners /\ Step(a, "idle") /\ UNCHANGED <<holder, job>>
  /\ UNCHANGED <<origin, mirror, vault, purging, fetch, sealed, dropped>>

\* SIGKILL, or an exception in a listing; a purge of rclone can be cut in two.
Stop(a) ==
  /\ "crash" \in CloudFaults
  /\ at[a] # "idle"
  /\ vault' \in {vault} \union
       {[vault EXCEPT ![s].old = Nothing] : s \in purging[a]}
  /\ Step(a, "idle")
  /\ job' = [r \in CloudRuns |-> IF r = a THEN NoJob ELSE job[r]]
  /\ holder' = IF holder = a THEN NoCloudRun ELSE holder
  /\ purging' = [purging EXCEPT ![a] = {}]
  /\ UNCHANGED <<origin, mirror, fetch, sealed, dropped>>

--------------------------------------------------------------------------------
(* The restore. *)

\* resolve_snapshot_timestamp: "latest" is the newest snapshot it sees.  For a
\* timestamp there is no branch for rclone: that restore always fails.
Resolve(x) ==
  /\ fetch[x].step = "idle"
  /\ \E seen \in Listings : \E marked \in Marked(seen) :
       /\ marked # {}
       /\ fetch' = [fetch EXCEPT ![x] = [NoFetch EXCEPT !.step = "copy", !.folder = 1,
                                                        !.ts = Newest(marked)]]
  /\ UNCHANGED <<origin, mirror, vault, runVars, purging, sealed, dropped>>

\* Mutant of Source: the replaced versions are taken for the snapshot.
SourceIsDiff(x) == vault[fetch[x].ts].old[fetch[x].folder]

\* Where a folder is restored from: current/, whatever snapshot was asked for.
Source(x) == mirror[fetch[x].folder]

\* rclone_from_remote, with all its attempts: a failure is counted as an error.
Copy(x, ok) ==
  LET n == IF fetch[x].folder < CloudFolders THEN fetch[x].folder + 1 ELSE 0 IN
  /\ fetch[x].step = "copy"
  /\ fetch' = [fetch EXCEPT ![x].got[fetch[x].folder] = IF ok THEN Source(x) ELSE 0,
                            ![x].ok = @ /\ ok,
                            ![x].folder = n,
                            ![x].step = IF n = 0 THEN "done" ELSE "copy"]
  /\ UNCHANGED <<origin, mirror, vault, runVars, purging, sealed, dropped>>

RestoreEnds(x) ==
  /\ fetch[x].step = "done"
  /\ fetch' = [fetch EXCEPT ![x] = NoFetch]
  /\ UNCHANGED <<origin, mirror, vault, runVars, purging, sealed, dropped>>

\* A user changes a file of a folder.
Edit(f) ==
  /\ origin[f] < CloudVersions
  /\ origin' = [origin EXCEPT ![f] = @ + 1]
  /\ UNCHANGED <<mirror, vault, runVars, purging, fetch, sealed, dropped>>

CloudRunStep(r) ==
  \/ FindPartials(r)
  \/ GiveUp(r)
  \/ PurgeTimesOut(r)
  \/ CleanDone(r)
  \/ HookOk(r)
  \/ \E ok, done \in BOOLEAN : Sync(r, ok, done)
  \/ \E done \in BOOLEAN : SyncTimesOut(r, done)
  \/ SyncFails(r)
  \/ \E written \in BOOLEAN : WriteMeta(r, written)
  \/ Seal(r)
  \/ SealFails(r)

CloudNext ==
  \/ \E r \in CloudRuns, s \in CStamps : Begin(r, s)
  \/ \E r \in CloudRuns : CloudRunStep(r)
  \/ \E a \in Writers : Choose(a) \/ Purge(a) \/ ChooseDone(a) \/ Stop(a)
  \/ \E x \in Restorers : Resolve(x) \/ (\E ok \in BOOLEAN : Copy(x, ok)) \/ RestoreEnds(x)
  \/ \E f \in CFolders : Edit(f)

CloudSpec == CloudInit /\ [][CloudNext]_cloudVars

--------------------------------------------------------------------------------
(* Properties. *)

CloudTypeOK ==
  /\ origin \in [CFolders -> Versions]
  /\ mirror \in [CFolders -> Versions]
  /\ vault \in [CStamps -> [dir : BOOLEAN, complete : BOOLEAN, old : [CFolders -> Versions]]]
  /\ holder \in CloudRuns \union {NoCloudRun}
  /\ at \in [Writers -> {"idle", "connect", "clean", "hook", "sync", "seal", "retain", "prune"}]
  /\ job \in [CloudRuns -> [ts : 0..CloudStamps, folder : 0..CloudFolders,
                            attempt : 0..CloudRetries, failed : BOOLEAN,
                            seen : [CFolders -> Versions]]]
  /\ purging \in [Writers -> SUBSET CStamps]
  /\ fetch \in [Restorers -> [step : {"idle", "copy", "done"}, ts : 0..CloudStamps,
                              folder : 0..CloudFolders, ok : BOOLEAN,
                              got : [CFolders -> Versions]]]
  /\ sealed \in [CStamps -> [CFolders -> Versions]]
  /\ dropped \subseteq CStamps

\* A marker is only written when every folder was mirrored in this very run: the
\* mirror then has at least the versions the source had when the run began, and it
\* never goes back, however many runs fail in the middle of it.
SealedIsMirrored ==
  \A r \in CloudRuns : at[r] \in {"seal", "retain", "prune"} =>
    \A f \in CFolders : mirror[f] >= job[r].seen[f]

\* A restore that reports success gives nothing older than the snapshot it resolved,
\* even when a backup, a cleanup or a retention runs in the middle of it.
RestoredIsNotOlder ==
  \A x \in Restorers : fetch[x].step = "done" /\ fetch[x].ok =>
    \A f \in CFolders : fetch[x].got[f] >= sealed[fetch[x].ts][f]

\* What a user sees of the destination: a snapshot enters with its marker and is given up
\* when a retention chooses it.
CloudShelf ==
  [s \in CStamps |-> IF s \in dropped THEN "dropped"
                     ELSE IF vault[s].dir /\ vault[s].complete THEN "kept" ELSE "none"]

CloudCatalog ==
  INSTANCE SnapshotCatalog
  WITH NumStamps <- CloudStamps, MinKeep <- CloudKeep, shelf <- CloudShelf

\* The destination implements the catalog, without pins: snapshots enter in order, no
\* cleanup of a later run takes one away, and no retention, however old its list, chooses
\* one of the newest.  This is CloudCatalog!Spec, with the steps first that nobody sees.
CloudImplementsCatalog ==
  CloudCatalog!Init /\ [][UNCHANGED CloudShelf \/ CloudCatalog!Next]_cloudVars
================================================================================
