-------------------------------- MODULE Restore --------------------------------
(***************************************************************************)
(* Restores (lib/core/restore.py) of one target from a local or SSH        *)
(* destination, beside the backup runs and retentions of Snapshots.  A     *)
(* restore takes no lock: it resolves a timestamp once and then copies one *)
(* folder after another out of a directory that others may be deleting.    *)
(* The last folders of a snapshot are dumps of databases and crontabs.     *)
(***************************************************************************)
EXTENDS Snapshots

CONSTANTS
  Readers,   \* the processes that run "gniza restore"
  Dumps,     \* the folders of a snapshot that are _mysql, _postgresql and _crontab
  Databases  \* the first two of them

ASSUME RestoreAssumption ==
  /\ Dumps \subseteq 1..NumFolders
  /\ Databases \subseteq Dumps
  /\ \A d \in Dumps, f \in (1..NumFolders) \ Dumps : f < d

VARIABLE restores   \* what each restore has done so far

restoreVars == <<vars, restores>>

NoRestore ==
  [step |-> "idle", ts |-> 0, folder |-> 0, want |-> {}, ok |-> TRUE, got |-> {}]

RestoreInit == Init /\ restores = [x \in Readers |-> NoRestore]

\* Mutant of Resolvable: a .partial of a run in progress is taken for a snapshot.
ResolvablePartials == Finals \union Partials

\* What resolve_snapshot_timestamp can answer: "latest" is the newest directory listed,
\* an explicit timestamp any directory that exists.  A listing or a test over SSH that
\* fails resolves nothing, and nothing is restored.
Resolvable == Finals

\* restore_target wants every folder and dump, restore_folder the folder it is given.
Ask(x, s, want) ==
  /\ restores[x].step = "idle"
  /\ s \in Resolvable
  /\ want \in {Folders} \union {{f} : f \in Folders \ Dumps}
  /\ restores' = [restores EXCEPT ![x] =
       [NoRestore EXCEPT !.step = "copy", !.ts = s, !.want = want,
                         !.folder = CHOOSE f \in want : \A g \in want : f <= g]]
  /\ UNCHANGED vars

\* The next folder, if there is one.
After(w) ==
  IF w.folder + 1 \in w.want THEN [w EXCEPT !.folder = @ + 1]
  ELSE [w EXCEPT !.step = "done"]

\* What is back in place, whole, after a copy of the current folder.
Brought(w) == w.got \union ({w.folder} \intersect snaps[w.ts].has)

\* rsync out of the snapshot.  It can only succeed while the directory is there; from
\* a folder that is being deleted it copies what it finds and succeeds as well.
CopyFolder(x, rc) ==
  LET w == restores[x] IN
  /\ w.step = "copy"
  /\ w.folder \notin Dumps
  /\ rc = 0 => snaps[w.ts].dir # "none"
  /\ restores' = [restores EXCEPT ![x] =
       After([w EXCEPT !.ok = @ /\ rc = 0,
                       !.got = IF rc = 0 THEN Brought(w) ELSE @])]
  /\ UNCHANGED vars

\* _fetch_dump_subdir, _has_dump_files and restore_databases or restore_crontabs.  What
\* cannot be fetched counts as a snapshot without dumps; that the database server
\* refuses a dump is an error, of a crontab nothing is.
RestoreDump(x, fetched, loaded) ==
  LET w == restores[x] IN
  /\ w.step = "copy"
  /\ w.folder \in Dumps
  /\ fetched => snaps[w.ts].dir # "none"
  /\ loaded => fetched
  /\ restores' = [restores EXCEPT ![x] =
       After([w EXCEPT !.ok = @ /\ (fetched /\ w.folder \in Databases => loaded),
                       !.got = IF loaded THEN Brought(w) ELSE @])]
  /\ UNCHANGED vars

\* The process ends, by its verdict, an exception of a timeout, or a kill.
EndRestore(x) ==
  /\ restores[x].step # "idle"
  /\ restores' = [restores EXCEPT ![x] = NoRestore]
  /\ UNCHANGED vars

RestoreStep(x) ==
  \/ \E s \in Stamps, want \in SUBSET Folders : Ask(x, s, want)
  \/ \E rc \in {0, 1} : CopyFolder(x, rc)
  \/ \E fetched, loaded \in BOOLEAN : RestoreDump(x, fetched, loaded)
  \/ EndRestore(x)

RestoreNext ==
  \/ Next /\ UNCHANGED restores
  \/ \E x \in Readers : RestoreStep(x)

RestoreSpec == RestoreInit /\ [][RestoreNext]_restoreVars

--------------------------------------------------------------------------------
(* Properties. *)

RestoreTypeOK ==
  restores \in [Readers -> [step : {"idle", "copy", "done"}, ts : 0..NumStamps,
                            folder : 0..NumFolders, want : SUBSET Folders,
                            ok : BOOLEAN, got : SUBSET Folders]]

\* A restore that reports success has brought back every folder it was asked for,
\* whole, unless a retention chose its snapshot: no run that is killed, fails or
\* cleans up meanwhile takes anything away from it, and none shows it half a snapshot.
RestoredIsWhole ==
  \A x \in Readers : LET w == restores[x] IN
    w.step = "done" /\ w.ok /\ w.ts \notin condemned => w.want \ Dumps \subseteq w.got
================================================================================
