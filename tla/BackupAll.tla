-------------------------------- MODULE BackupAll --------------------------------
(***************************************************************************)
(* One process of "gniza backup": which targets it backs up to which       *)
(* remotes (lib/core/cli.py, backup_all_targets), what each backup_target  *)
(* does with its temporary directories, folders and dumps on the way to a  *)
(* snapshot (lib/core/backup.py, lib/core/source.py), and what the process *)
(* makes of all the return codes.                                          *)
(*                                                                         *)
(* What Snapshots tells apart on the destination (cleanup of leftovers,    *)
(* retries, meta.json, the rename, retention) is one step here, and a dump *)
(* of Dumps is one step, too.  A folder transferred with return code 0 is  *)
(* whole, or short: rsync_with_retry accepts whatever followed an exit 23. *)
(* What is in a snapshot besides the folders is not told apart here.       *)
(***************************************************************************)
EXTENDS Naturals

CONSTANTS
  Modes,        \* how it is called: "single", "schedule" or "all"
  NumTargets,   \* the targets, in their order
  NumRemotes,   \* the remotes, in their order
  Disabled,     \* the targets that are disabled
  TwoHop,       \* the targets whose folders are first pulled to this host
  TreeSize,     \* how many folders each target has
  DumpKinds,    \* how many kinds of dumps each target makes
  Sticky        \* the temporary directories rm -rf may fail to remove

ASSUME BackupAllAssumption ==
  /\ Modes \subseteq {"single", "schedule", "all"}
  /\ NumTargets \in Nat \ {0}
  /\ NumRemotes \in Nat \ {0}
  /\ Disabled \union TwoHop \subseteq 1..NumTargets
  /\ TreeSize \in Nat \ {0}
  /\ DumpKinds \in Nat

VARIABLES
  batch,     \* where the process is
  temps,     \* the temporary directories it made and that still exist
  held,      \* mysql_dump_dir, pgsql_dump_dir, crontab_dump_dir of the backup
  building,  \* the folders, whole or short, in the .partial of the backup
  made,      \* the snapshot each backup_target has published
  rcs,       \* what each backup_target has returned
  verdict    \* the exit code of the process

batchVars == <<batch, temps, held, building, made, rcs, verdict>>

Pairs == (1..NumTargets) \X (1..NumRemotes)
Tree == {"folder", "short"} \X (1..TreeSize)
DumpDirs == {<<"dump", d>> : d \in 1..DumpKinds}
Staging(f) == <<"staging", f>>
TempDirs == DumpDirs \union {Staging(f) : f \in 1..TreeSize}

ASSUME StickyAssumption == Sticky \subseteq Pairs \X TempDirs

Pair == <<batch.t, batch.r>>

BatchInit ==
  /\ \E mode \in Modes :
       batch = [mode |-> mode, t |-> 1, r |-> 1, step |-> "next", item |-> 0,
                failed |-> FALSE, tfailed |-> FALSE, nsucc |-> 0, nfail |-> 0, rc |-> 0]
  /\ temps = {}
  /\ held = {}
  /\ building = {}
  /\ made = [p \in Pairs |-> {}]
  /\ rcs = [p \in Pairs |-> "none"]
  /\ verdict = "none"

At(step, item) == [batch EXCEPT !.step = step, !.item = item]

\* rm -rf, whose exit code nobody looks at.
Discard(x) == {temps \ {x}} \union (IF x \in Sticky THEN {temps \union {x}} ELSE {})

\* backup_target decides on its return code and turns to the dump directories it has.
Cleanup(rc) == batch' = [At("cleanup", 1) EXCEPT !.rc = rc] /\ UNCHANGED <<temps, held>>

--------------------------------------------------------------------------------
(* backup_target up to the transfer. *)

\* The target is disabled: 0, or, for --all, not even tried.
SkipDisabled ==
  /\ batch.step = "next"
  /\ batch.t \in Disabled
  /\ batch' = [At("return", 0) EXCEPT !.rc = 0]
  /\ UNCHANGED <<temps, held, building, made, rcs, verdict>>

\* The target or the remote is not configured any more, the lock of the target is taken
\* (2), or a check or the pre-hook fails.
ReturnEarly(rc) ==
  /\ batch.step = "next"
  /\ batch.t \notin Disabled
  /\ batch' = [At("return", 0) EXCEPT !.rc = rc]
  /\ UNCHANGED <<temps, held, building, made, rcs, verdict>>

Prepared ==
  /\ batch.step = "next"
  /\ batch.t \notin Disabled
  /\ batch' = At("dump", 1)
  /\ building' = {}
  /\ UNCHANGED <<temps, held, made, rcs, verdict>>

\* One kind of dump: the directory is kept when the dump succeeds, and removed, with a
\* warning, when it does not.
Dump(kept) ==
  LET d == <<"dump", batch.item>> IN
  /\ batch.step = "dump"
  /\ batch.item <= DumpKinds
  /\ batch' = At("dump", batch.item + 1)
  /\ IF kept THEN temps' = temps \union {<<Pair, d>>} /\ held' = held \union {d}
     ELSE temps' \in Discard(<<Pair, d>>) /\ UNCHANGED held
  /\ UNCHANGED <<building, made, rcs, verdict>>

MakePartialDir ==
  /\ batch.step = "dump"
  /\ batch.item > DumpKinds
  /\ batch' = [At("folder", 1) EXCEPT !.failed = FALSE]
  /\ UNCHANGED <<temps, held, building, made, rcs, verdict>>

\* Mutant of MakePartialDirFails: the dump directories are forgotten.
MakePartialDirFailsDirty ==
  /\ batch.step = "dump"
  /\ batch.item > DumpKinds
  /\ batch' = [At("return", 0) EXCEPT !.rc = 1]
  /\ held' = {}
  /\ UNCHANGED <<temps, building, made, rcs, verdict>>

MakePartialDirFails ==
  /\ batch.step = "dump"
  /\ batch.item > DumpKinds
  /\ Cleanup(1)
  /\ UNCHANGED <<building, made, rcs, verdict>>

--------------------------------------------------------------------------------
(* _transfer_all_folders and _transfer_dump_artifacts. *)

InFolders == batch.step = "folder" /\ batch.item <= TreeSize

\* A folder of a remote source is pulled into a staging directory (pull_folder_from_source):
\* that fails, and the directory goes.
PullFails ==
  /\ InFolders
  /\ batch.t \in TwoHop
  /\ batch' = [At("folder", batch.item + 1) EXCEPT !.failed = TRUE]
  /\ temps' \in Discard(<<Pair, Staging(batch.item)>>)
  /\ UNCHANGED <<held, building, made, rcs, verdict>>

\* It is "staged", or only part of it (exit 23 of rsync) and "short".
Pull(step) ==
  /\ InFolders
  /\ batch.t \in TwoHop
  /\ batch' = At(step, batch.item)
  /\ temps' = temps \union {<<Pair, Staging(batch.item)>>}
  /\ UNCHANGED <<held, building, made, rcs, verdict>>

Staged == batch.step \in {"staged", "short"}
Sendable == Staged \/ (InFolders /\ batch.t \notin TwoHop)

\* What a transfer adds to the .partial.
Sent(result) ==
  IF result = "failed" THEN building
  ELSE building \union {<<IF batch.step = "short" THEN "short" ELSE result, batch.item>>}

\* Mutant of SendFolder: the last folder decides.
SendFolderForgets(result) ==
  /\ Sendable
  /\ building' = Sent(result)
  /\ batch' = [At("folder", batch.item + 1) EXCEPT !.failed = (result = "failed")]
  /\ IF Staged THEN temps' \in Discard(<<Pair, Staging(batch.item)>>) ELSE UNCHANGED temps
  /\ UNCHANGED <<held, made, rcs, verdict>>

\* The folder, or what was staged of it, is transferred, with all retries; a failure
\* does not keep the other folders from being tried.
SendFolder(result) ==
  /\ Sendable
  /\ building' = Sent(result)
  /\ batch' = [At("folder", batch.item + 1) EXCEPT !.failed = @ \/ result = "failed"]
  /\ IF Staged THEN temps' \in Discard(<<Pair, Staging(batch.item)>>) ELSE UNCHANGED temps
  /\ UNCHANGED <<held, made, rcs, verdict>>

FoldersDone ==
  /\ batch.step = "folder"
  /\ batch.item > TreeSize
  /\ ~batch.failed
  /\ batch' = At("artifact", 1)
  /\ UNCHANGED <<temps, held, building, made, rcs, verdict>>

\* A dump that was kept is transferred; one that was not is passed over.
SendDump ==
  /\ batch.step = "artifact"
  /\ batch.item <= DumpKinds
  /\ batch' = At("artifact", batch.item + 1)
  /\ UNCHANGED <<temps, held, building, made, rcs, verdict>>

\* A folder failed; or the destination is full before a folder that is not the first, or
\* before a dump; or the transfer of a dump fails: return code 1.
TransferStops ==
  /\ \/ batch.step = "folder" /\ batch.item > TreeSize /\ batch.failed
     \/ InFolders /\ batch.item > 1
     \/ batch.step = "artifact" /\ batch.item <= DumpKinds /\ <<"dump", batch.item>> \in held
  /\ Cleanup(1)
  /\ UNCHANGED <<building, made, rcs, verdict>>

\* meta.json, finalize_snapshot, the post-hook and the retention, of which only the
\* second can fail the backup.
Publish(ok) ==
  /\ batch.step = "artifact"
  /\ batch.item > DumpKinds
  /\ made' = IF ok THEN [made EXCEPT ![Pair] = building] ELSE made
  /\ Cleanup(IF ok THEN 0 ELSE 1)
  /\ UNCHANGED <<building, rcs, verdict>>

\* _cleanup_dump_dirs: one directory after the other.
CleanDir ==
  LET d == <<"dump", batch.item>> IN
  /\ batch.step = "cleanup"
  /\ batch.item <= DumpKinds
  /\ batch' = At("cleanup", batch.item + 1)
  /\ held' = held \ {d}
  /\ IF d \in held THEN temps' \in Discard(<<Pair, d>>) ELSE UNCHANGED temps
  /\ UNCHANGED <<building, made, rcs, verdict>>

CleanupDone ==
  /\ batch.step = "cleanup"
  /\ batch.item > DumpKinds
  /\ batch' = At("return", 0)
  /\ UNCHANGED <<temps, held, building, made, rcs, verdict>>

--------------------------------------------------------------------------------
(* The loops over targets and remotes, and the exit code. *)

Outcome(rc) == CASE rc = 0 -> "ok" [] rc = 1 -> "failed" [] OTHER -> "busy"

\* Mutant of Counted: the remote tried last decides about a target.
CountedByLast(b, tfailed) ==
  IF b.r < NumRemotes THEN [b EXCEPT !.tfailed = tfailed]
  ELSE [b EXCEPT !.tfailed = FALSE, !.nsucc = @ + (IF b.rc = 1 THEN 0 ELSE 1),
                 !.nfail = @ + (IF b.rc = 1 THEN 1 ELSE 0)]

\* After the last remote the target counts as failed if any remote failed, and else,
\* skipped or not, as succeeded; a schedule counts the failed pairs; --all does not
\* count a disabled target.
Counted(b, tfailed) ==
  CASE b.mode # "all" -> [b EXCEPT !.nfail = @ + (IF b.rc = 1 THEN 1 ELSE 0)]
    [] b.mode = "all" /\ b.r < NumRemotes -> [b EXCEPT !.tfailed = tfailed]
    [] b.mode = "all" /\ b.r = NumRemotes /\ b.t \in Disabled -> b
    [] OTHER -> [b EXCEPT !.tfailed = FALSE, !.nsucc = @ + (IF tfailed THEN 0 ELSE 1),
                          !.nfail = @ + (IF tfailed THEN 1 ELSE 0)]

\* backup_target has returned: on to the next remote or target.
NextPair ==
  LET b == Counted(batch, batch.tfailed \/ batch.rc = 1)
      last == batch.mode = "single" \/ Pair = <<NumTargets, NumRemotes>>
  IN
  /\ batch.step = "return"
  /\ rcs' = [rcs EXCEPT ![Pair] = IF batch.t \in Disabled THEN "disabled" ELSE Outcome(batch.rc)]
  /\ batch' = IF last THEN [b EXCEPT !.step = "end"]
              ELSE [b EXCEPT !.step = "next",
                             !.r = IF @ < NumRemotes THEN @ + 1 ELSE 1,
                             !.t = IF batch.r = NumRemotes THEN @ + 1 ELSE @]
  /\ UNCHANGED <<temps, held, building, made, verdict>>

ExitCode(b) ==
  CASE b.mode = "single" -> Outcome(b.rc)
    [] b.mode # "single" /\ b.nfail = 0 -> "ok"
    [] b.mode = "all" /\ b.nfail > 0 /\ b.nsucc > 0 -> "partial"
    [] OTHER -> "failed"

Exit ==
  /\ batch.step = "end"
  /\ verdict' = ExitCode(batch)
  /\ batch' = At("over", 0)
  /\ UNCHANGED <<temps, held, building, made, rcs>>

\* The directory a step is filling.
Making ==
  CASE batch.step = "dump" /\ batch.item <= DumpKinds -> {<<Pair, <<"dump", batch.item>>>>}
    [] InFolders /\ batch.t \in TwoHop -> {<<Pair, Staging(batch.item)>>}
    [] OTHER -> {}

\* A command with a timeout takes too long, or a directory cannot be made: the exception
\* leaves backup_target, every loop and the program, whose exit code is 1; what temporary
\* directories there are stay.  After the rename only their removal can raise.
Raise ==
  /\ batch.step \in {"next", "dump", "folder", "staged", "short", "artifact", "cleanup"}
  /\ batch.t \notin Disabled
  /\ rcs' = [rcs EXCEPT ![Pair] = "raised"]
  /\ verdict' = "failed"
  /\ made' \in {made} \union (IF batch.step = "artifact" /\ batch.item > DumpKinds
                              THEN {[made EXCEPT ![Pair] = building]} ELSE {})
  /\ batch' = At("over", 0)
  /\ temps' \in {temps, temps \union Making}
  /\ held' = {}
  /\ UNCHANGED building

BatchNext ==
  \/ SkipDisabled
  \/ \E rc \in {1, 2} : ReturnEarly(rc)
  \/ Prepared
  \/ \E kept \in BOOLEAN : Dump(kept)
  \/ MakePartialDir
  \/ MakePartialDirFails
  \/ PullFails
  \/ \E step \in {"staged", "short"} : Pull(step)
  \/ \E result \in {"folder", "short", "failed"} : SendFolder(result)
  \/ \E ok \in BOOLEAN : Publish(ok)
  \/ FoldersDone
  \/ SendDump
  \/ TransferStops
  \/ CleanDir
  \/ CleanupDone
  \/ NextPair
  \/ Exit
  \/ Raise

BatchSpec == BatchInit /\ [][BatchNext]_batchVars

--------------------------------------------------------------------------------
(* Properties. *)

\* Type correctness of the process.
BatchTypeOK ==
  /\ batch \in [mode : Modes, t : 1..NumTargets, r : 1..NumRemotes,
                step : {"next", "dump", "folder", "staged", "short", "artifact", "cleanup",
                        "return", "end", "over"},
                item : 0..(TreeSize + DumpKinds + 1), failed : BOOLEAN, tfailed : BOOLEAN,
                nsucc : 0..NumTargets, nfail : 0..(NumTargets * NumRemotes), rc : 0..2]
  /\ temps \subseteq Pairs \X TempDirs
  /\ held \subseteq DumpDirs
  /\ building \subseteq Tree
  /\ made \in [Pairs -> SUBSET Tree]
  /\ rcs \in [Pairs -> {"none", "ok", "failed", "busy", "disabled", "raised"}]
  /\ verdict \in {"none", "ok", "failed", "busy", "partial"}

\* Each folder has been transferred with return code 0: it is whole, or short.
Accepted(items) == \A f \in 1..TreeSize : <<"folder", f>> \in items \/ <<"short", f>> \in items

\* Of one target and one remote: its snapshot has every folder, or another backup of the
\* target was running.
Served(p) == Accepted(made[p]) \/ rcs[p] = "busy"

\* The exit code is true of every pair, whatever failed for other folders, targets and
\* remotes: 0 says that each backup that was tried published a snapshot with every folder
\* (as whole as rsync_with_retry takes for a success) or found another one running; 1 says
\* that a backup failed or an exception ended the program, and of --all, but for an
\* exception, that no enabled target was served at every remote; 3 says that some were and
\* some were not.
ExitIsTrue ==
  LET Enabled == (1..NumTargets) \ Disabled
      Full(t) == \A r \in 1..NumRemotes : Served(<<t, r>>)
  IN
  /\ verdict = "ok" => \A p \in Pairs : rcs[p] \notin {"none", "disabled"} => Served(p)
  /\ verdict = "failed" => \E p \in Pairs : rcs[p] \in {"failed", "raised"}
  /\ batch.mode = "all" /\ verdict = "failed" =>
       (\E p \in Pairs : rcs[p] = "raised") \/ (\A t \in Enabled : ~Full(t))
  /\ verdict = "partial" => (\E t \in Enabled : Full(t)) /\ (\E t \in Enabled : ~Full(t))

\* What backup_target is working with.
InUse(x) ==
  /\ batch.step \notin {"next", "return", "end", "over"}
  /\ x[1] = Pair
  /\ x[2] \in held \/ (Staged /\ x[2] = Staging(batch.item))

\* Dumps hold the content of whole databases: a temporary directory is in use by the
\* backup that is running, or an exception has ended that backup, or rm failed for it.  No
\* other path out of a backup leaves one.
NoTempIsLeft == \A x \in temps : InUse(x) \/ rcs[x[1]] = "raised" \/ x \in Sticky
================================================================================
