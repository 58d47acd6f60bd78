# A TLA+ model of gniza4linux

gniza backs up files and databases of Linux machines with rsync or rclone into
timestamped snapshots on local, SSH or cloud destinations. A shell command, cron, a
web dashboard, a text UI and a health daemon all start backups and look after them.
This directory holds TLA+ specifications of the parts where that goes wrong in ways a
unit test hardly reaches, the TLC configurations that check them, and TLAPS proofs.
`PROJECT.json` lists components, runs, mutants, hazards, findings and theorems, and
maps every definition to the lines it models.

To check: `tlc -config <run>.cfg <MC module>` for a run, `tlapm <M>_proofs.tla` for the
proofs.

## 1. Inventory

| component | state it keeps | operations | talks to |
|---|---|---|---|
| job registry, `lib/job_register.py`, `lib/job_utils.py`, `lib/cli_runner.py` | `gniza-jobs.json` (status, pid, cli_args per job), the flock `gniza-jobs.lock`, one log file per job | register a start, record an end, guess the return code from a log, start a CLI process | every program below writes the file |
| health daemon: jobs, `daemon/core.py` | its children (`_child_procs`), in memory only | `check_jobs`, `dispatch_queue`, `cleanup_old_entries`, each one `_locked_update` | registry, CLI processes, systemd |
| health daemon: housekeeping, `daemon/core.py` | `stale-alert.state`, `gniza-last-digest.txt`, a cycle counter, logs, work directory | run `gniza retention --all`, alerts, digest, clean logs and staging | files, notifications, the retention of Bash |
| notifications, `lib/notify_py.py`, `lib/email_template.py` | none | a notification per finished job, alerts, digests, over five channels | network |
| web dashboard: jobs, `web/jobs.py` | a dictionary of jobs shared by request threads, a thread lock, a 1.5 s cache | create and start, kill, cancel, clear finished, load, dispatch, save | registry, CLI processes |
| web dashboard: rclone remotes wizard, `web/blueprints/rclone_config.py` | `_bg_tasks` in memory, `session["rclone_wizard"]` in a cookie, rclone's configuration file | create, answer a question, ask for a consent, three ways it comes back, poll, reconnect, delete | rclone, Google, browser tabs |
| text UI: jobs, `tui/jobs.py` | its own dictionary, an asyncio task per job, its own lock file `gniza-jobs.json.lock` | as the dashboard, with timers | registry, CLI processes |
| backup orchestration, `lib/core/backup.py`, `locking.py`, `snapshot.py`, `retention.py`, `utils.py`, `lib/retention.sh` | the flock of each target, the directories `<timestamp>.partial` and `<timestamp>`, the symlink `latest`, `meta.json` with the pin, temporary dump and staging directories | `backup_target`, `backup_all_targets`, list, clean, finalize, enforce retention | destination, hooks, rsync, dumps |
| transfer, `lib/core/transfer.py`, `lib/ssh.py` | attempts of a transfer | `rsync_with_retry`, remote commands with timeouts | rsync, ssh |
| rclone destinations, `lib/core/rclone.py` | a mirror `current/`, directories of replaced versions, `.complete` markers | sync, finalize, list, clean, purge, copy back | rclone |
| restore, `lib/core/restore.py` | the files it writes back, the fetched dumps | restore a target, a folder, databases | snapshots, database clients |
| sources and dumps, `lib/core/source.py`, `lib/core/db/` | dump directories | pull a folder, dump and import databases, dump crontabs | external tools |
| core CLI, Bash entry point, `lib/core/cli.py`, `bin/gniza`, `lib/*.sh` | none | parse arguments, run the above; retention and schedules run in Bash | registry, cron |
| configuration, `lib/config.py`, `lib/models.py` | `.conf` files | parse, write | everything |
| login and pages, `web/app.py`, `web/blueprints/` | sessions, failed logins per address | login, lockout, pages | configuration, job manager |

What is hard about it, and what must hold:

* **One file, four writers, two locks.** The registry is rewritten as a whole by each of
  them. The daemon does it under the flock (load, change, save); the dashboard loads and
  saves under the flock but not both under one; the text UI locks another file. No update
  may be lost, no finished job reopened, no pid end up with another job.
* **Processes outlive records.** The daemon starts processes in the middle of an update
  and saves afterwards. A spawn that raises, a crash or a failed save in between
  separates what runs from what is recorded. No job may run twice, no run be untracked,
  no limit exceeded, no queued job forgotten.
* **A verdict from a log.** Who is not the parent of a process guesses its result from
  the log of the job.
* **A snapshot appears by a rename.** Runs fail, time out and are killed between any two
  steps; the next run finds what they left. Only whole snapshots may be listed, and a
  run may not clean away another run's work.
* **A snapshot on rclone is a marker.** All runs change the one mirror, also the ones
  that fail. The marker must stand for a whole mirror, and no cleanup may take a complete
  snapshot for a leftover.
* **Retention has no lock.** The run, the daemon, the dashboard and users prune at the
  same time with different counts from lists that age. The newest and the pinned must
  stay.
* **A restore has no lock either.** It resolves a timestamp once and copies folder after
  folder. What reports success must be whole.
* **Retries and many return codes.** Several attempts per folder, a special case for exit
  code 23, disk checks in between; then folders, dumps, remotes and targets are folded
  into one exit code. Success may not hide a failure, and temporary dumps must go.
* **Telling once.** Between a decision and its record the daemon can be killed, or the
  record fail to be written. Nobody is to be told twice but for such a record.
* **Consents come late.** Google or a thread answers after the user has gone on to another
  remote or another tab. A token must end up where it was asked for.

The hazards with their lines are in `PROJECT.json`; §7 says which no property covers.

## 2. Modules

| module | what it is |
|---|---|
| `JobRegistry` | registry file, flock, processes, log markers; `cmd_start`/`cmd_finish` of shell runs, ends of processes. No specification of its own |
| `DaemonJobs` | EXTENDS `JobRegistry`: the daemon. `Spec`, `FairSpec`, the properties |
| `JobQueue` | abstract: what the queue promises, one stage per job. Implemented by `DaemonJobs` |
| `WebJobs` | EXTENDS `DaemonJobs`: the dashboard's request threads, alone or beside the daemon |
| `TuiJobs` | EXTENDS `WebJobs`: the text UI, beside the daemon |
| `Snapshots` | the snapshots of one target on a local or SSH destination; backup runs and retentions |
| `SnapshotCatalog` | abstract: what a destination promises its user. Implemented by `Snapshots` and, without pins, by `RcloneStore` |
| `Restore` | EXTENDS `Snapshots`: restores beside the runs and retentions |
| `RcloneStore` | one target on an rclone destination: runs, retentions, restores |
| `BackupAll` | one process of `gniza backup`: targets, remotes, temporary directories, exit code |
| `Dumps` | a dump of databases or crontabs, and its import |
| `Alerts` | what the daemon tells: notifications, alerts, digests, across restarts |
| `RcloneWizard` | the dashboard's wizard for remotes |
| `MCDaemonJobs`, `MCWebJobs`, `MCTuiJobs`, `MCSnapshots`, `MCComponents` | small instances for TLC |
| `DaemonJobs_proofs`, `Snapshots_proofs`, `Restore_proofs`, `RcloneStore_proofs`, `BackupAll_proofs`, `Alerts_proofs` | theorems about the module of that name; `Restore_proofs` also about `Dumps`, `Alerts_proofs` about `RcloneWizard` |
| `FrontEnds_proofs` | theorems about `WebJobs` and `TuiJobs` |
| `Components_proofs` | the composition `MCComponents` implements each of its components |

`JobQueue` and `SnapshotCatalog` are reached by `INSTANCE ... WITH` a refinement mapping
(`Queue`, `Catalog`, `CloudCatalog`). Definitions introduced by "Mutant of X" are not part of the
model: each is X with a plausible bug, and under it the property named in
`PROJECT.json` must fail. They show that the property depends on that code.

### Jobs

State: `file` is `gniza-jobs.json` (status and pid per job); `locked` the flock;
`proc[p]` the processes (live, zombie, gone; who must wait for them; the job they are
for; how they end); `joblog[j]` which markers `detect_return_code` would find. In
`DaemonJobs`, `entries` is what `_locked_update` loaded and its callback changes, `dpc`
the update in progress. In `WebJobs`, `jobs` is `self._jobs`, `tlock` the thread lock,
`wjobs[t]` what a thread holds: the entries a load has read or a save has built (before
it waits for the flock), or the job objects a dispatch or a cancel has picked. In `TuiJobs`, `open` says whether a session
of the text UI runs, `tui` is its dictionary; of each job it keeps the asyncio task that
watches it, because a reload leaves jobs with a task alone.

Grain of atomicity: loading the file, each process that is started, and saving it are
separate steps, as are the steps of the dashboard's requests between which the
interpreter can switch threads or processes. A callback that starts nothing
(`check_jobs`, the cleanup) is one step with its save: it holds the flock, and only
processes can move meanwhile. The text UI is one thread: a callback, or a task up to its
next `await`, is one step. Its own lock keeps nobody out, so it is not a variable.

Job ids are numbers in order of creation, so the sort by `started_at` is `<=`. Log text
is reduced to the three markers the code greps for. `CmdStart`/`CmdFinish` happen only
when `bin/gniza` runs its Bash core (`GNIZA_USE_PYTHON_CORE=0`): with the default Python
core it exits before its registration code (bin/gniza:304-340). The model includes both
worlds, since a shell run may or may not register. Process ids are not reused in the
models (§7).

### Snapshots and restores

State: `snaps[s]` is the directory of timestamp `s` (none, `.partial`, final; the set of
folders it holds completely; no meta.json, a plain one or a pinned one); `latest` the
symlink; `tlock` the flock of the target; `pc`, `work` where each process is and how its
transfer goes; `result` what `backup_target` last returned; `listed`, `doomed` what a
retention read and has still to delete. `condemned` is a history variable: every
snapshot a retention ever chose. `Restore` adds `restores[x]`: the timestamp a restore
resolved, the folder it is at, what it has brought back whole.

Each remote command or file system call is a step. `RemoteTimesOut` is the
`TimeoutExpired` that `SSHOpts.run` lets through: the run ends as failed, the command may
or may not have been carried out. `Killed` is SIGKILL between any two steps. Deleting is
two steps, because `rm -rf` of a large tree is not atomic, and a restore may copy from a
folder in between. Retentions that run alone (`Pruners`) are `gniza retention`, in Bash,
without a lock.

Simplifications: dumps are folders like any other, the last ones (no dump is transferred
after a failure, which changes nothing, as the run has failed already); hard links to the
previous snapshot are data; a local and an SSH destination are one model, the local one
without the `remote` fault. Timestamps grow (`Fresh`): the clock is never set back and
two runs do not fall into the same second. Disabled targets, which return 0 without a
snapshot, are left out here (they are in `BackupAll`).

### Rclone destinations

State: `origin` and `mirror`, the version of each folder at the source and in `current/`;
`vault[s]`, the directory `snapshots/<s>/` (there or not, with or without `.complete`, the
replaced versions); `holder` the flock; `at`, `job`, `purging`, `fetch` what each process
does. `sealed[s]`, what `current/` held when the marker was written, and `dropped`, what a
retention chose, are history.

Every call of rclone can fail, with its effect or without (`Sync(r, ok, done)`), or time
out. A listing that fails is empty, a test for a marker that fails says there is none
(`CloudFaults`). What is purged goes in any order, which covers that of every listing.

### The process of `gniza backup`

`batch` is the position in the loops and what they count; `temps` the temporary
directories there are, `held` those the variables of `backup_target` still name;
`building` the folders in the `.partial`; `made`, `rcs` what each pair of target and
remote published and returned; `verdict` the exit code. A transfer with its retries, and
a dump, are one step. A folder transferred with return code 0 is whole, or short:
`rsync_with_retry` returns 0 after an exit 23, too, both when a folder is pulled to this
host and when it is sent. `Raise` is an exception that nothing catches: it ends the
program with exit code 1 and runs no cleanup. `rm -rf` may fail for the directories of
`Sticky`; nobody looks at its exit code.

### Dumps, alerts, wizard

`Dumps` keeps the edition of each database on the source host and on this one, the dump in
progress, the dump in the snapshot, and the restore in progress. `SystemNames` stands for
`SYSTEM_DBS`: a target may name them to be dumped, a restore passes over their files
without an error.

`Alerts` counts time in slots; `loop` is the step of `run()` and the slots since the last
housekeeping; `outbox` what `check_jobs` found and has not told; the state files. Sending
an alert or a digest and recording that it was sent are two steps; a kill can come between
them. `faults` counts files that fail: a registry that cannot be saved (the verdicts are
told all the same), a state file that cannot be read or written, and a stale save of the
dashboard or the text UI that puts back a running entry. As history it keeps how often
each thing was told, how often an ended job stayed or became running (`again`), and which
records were missing (`lost`, `kept`).

`RcloneWizard` has rclone's sections (with the remote whose page asked for the token), the
wizard of the session, `_bg_tasks` and the page of each tab; what rclone answers is
nondeterministic.

## 3. Runs

| run | instance | shows |
|---|---|---|
| `daemon_locked` | 3 jobs, 3 pids, limit 2, no faults | `StartedOnce`, `VerdictIsTrue`, `QueueOrder`, and the refinement `ImplementsQueue` |
| `daemon_crash` | 2 jobs, 3 pids, limit 1, one crash under the unit, failing spawns | `TypeOK`, `LoadedIsCurrent`, `PidIsOfTheJob`, `LiveIsTracked`, `OneRunAtATime`, `WithinLimit`, `FinishedStays`, and liveness `QueuedIsServed` |
| `daemon_spawn_fails` | 2 jobs, limit 2, failing spawns | violation of `WithinLimit` |
| `web_alone` | 3 jobs, limit 1, one request at a time, no daemon | `WebLiveIsKnown`, `WebWithinLimit`, `WebVerdictIsTrue`, `WebFinishedStays`, `WebQueuedIsServed` |
| `front_ends` | 2 jobs, 2 pids, limit 1, the daemon beside one thread of the dashboard or beside the text UI; failing spawns, in the dashboard also saves | `TuiTypeOK`, `EveryPidIsOfItsJob`, `TuiLiveIsKnown`, `TuiWithinLimit` |
| `web_two_threads` | two threads, no daemon | violation of `WebWithinLimit` |
| `web_daemon_reopens` | one request at a time and the daemon, no faults | violation of `WebFinishedStays`: the two disagree about a run |
| `tui_doubles` | 1 job, the text UI and the daemon, no faults | violation of `OneRunAtATime`: both start what is queued |
| `snapshots` | 3 timestamps, 2 folders, 2 runs keeping 2 and 1, a retention keeping 1, 2 attempts; kills, timeouts, failing rm | `TypeOK`, `ListedIsWhole`, `OwnPartialIsSafe`, `KeepsNewest`, `SuccessIsListed`, `PinnedStays`, `BackupEnds`, `ImplementsCatalog` |
| `snapshots_pins` | 2 timestamps, reading the pins may fail | violation of `PinnedStays` |
| `snapshots_unreadable` | 2 timestamps, rsync may exit 23 | violation of `ListedIsWhole` |
| `components` | one component at a time, see below | `ComponentsTypeOK`, `RestoredIsWhole`, `SealedIsMirrored`, `RestoredIsNotOlder`, `CloudImplementsCatalog`, `RestoredIsDumped`, `ExitIsTrue`, `NoTempIsLeft`, `ToldAtMostOnce`, `NotTooOften`, `WizardIsOwn` |

`components` puts six components that share no state into one run: the variable `part`,
chosen initially, says which of them moves, the others keep their initial state. A
behaviour of the run is a behaviour of one component, so an invariant of one is checked on
exactly its own states. Its instances: a tree of 2 timestamps with two folders and one
dump, one run, one retention, one restore, kills, timeouts and failing rm; an rclone
destination of 3 timestamps, 2 folders in 2 versions, a run, a retention and a restore,
2 attempts, kills, failing listings and purges; three databases, one with a refused name,
of each kind and one of them a system database, on a remote source; three targets (one
two-hop, one disabled) and two remotes, two folders and two kinds of dumps, one dump
directory and one staging directory that cannot be removed, in each of the three modes;
two days of five slots, a job, a window of three slots, a cooldown of four, one restart
and one failing file; two remotes, two consents, one tab.

**Bounds.** `NumJobs`, `Pids`, `MaxCrashes`, `NumStamps`, `CloudStamps`, `CloudVersions`,
`Editions`, `Days`, `MaxRestarts`, `MaxFaults`, `Consents` bound things that are unbounded in the
program, and `Ends` restricts how processes end in `front_ends` and `tui_doubles`. Three
pids for two jobs allow a job to be started twice, which is what `OneRunAtATime` and
`StartedOnce` must exclude; three jobs with a limit of two or one leave one waiting while
others run and end, which queue order needs. Three timestamps with counts 1 and 2 are the
least with which two retentions disagree about a snapshot; two folders the least with
which one fails and a later one succeeds; two attempts the least with which a retry
happens. Three rclone timestamps are the least with which a later run cleans, or prunes,
beside a complete snapshot and the leftover of another. Two days tell "already today" from
"already yesterday", and five slots leave room for a window of three and a cooldown of four. One fault and
one restart give a day two missing records. Two consents are the least with which one is answered while another
is open. The theorems of §5 hold without these bounds.

**Deadlock** is checked in the job runs (the daemon never stops cycling). The `snapshots`
and `components` runs have `CHECK_DEADLOCK FALSE`: when all timestamps, days or consents
are used up, or nobody starts a backup, nothing has to happen. `BackupEnds` says that no
started backup is stuck. **Symmetry** on pids and threads is used only in runs without
liveness.

**Fairness.** The daemon's loop keeps turning and systemd restarts it (`WF` on
`DaemonStep`); every CLI process ends (`WF` on `ProcessStep`), for rsync, hooks and remote
commands end by themselves or by a timeout. In `daemon_crash` a spawn may fail any number
of times, which sends the job back to the queue; that it is served all the same needs
`SF` on `DispatchOne`: a `Popen` that is tried again and again succeeds at last, as
shortage of processes or memory passes. `WebQueuedIsServed` needs a request that was
begun to be finished (`WF`) and, because without a daemon the queue moves only when
`load_registry` notices an ended job, a dashboard page that keeps polling: `SF` on
`FlockRead`, as the server takes requests in turn and other requests do not keep this one
out for ever. A backup that has begun keeps running (`WF` per run); nothing makes anybody
start one. The modules `Restore`, `RcloneStore`, `Dumps`, `BackupAll`, `Alerts`,
`RcloneWizard` and `TuiJobs` state no fairness and no liveness: each of their loops is
over a finite set that only shrinks, or waits for a user.

## 4. Findings

Where the code and its documentation disagree, `PROJECT.json` quotes both. Shown by a run:

* `daemon_spawn_fails`: `dispatch_queue` saves after its loop, so a spawn that raises
  loses the starts before it in the same cycle, and those jobs run twice;
* `web_two_threads`: `load_registry` forgets a job another thread started meanwhile, so
  the limit is exceeded;
* `web_daemon_reopens`: the dashboard writes back what it loaded earlier. A child of it
  has ended well and was waited for; the daemon finds it gone, guesses failed from the log
  and saves that; the dashboard replaces this finished entry by its success;
* `tui_doubles`: the text UI locks a file of its own, so it can start a queued job of its
  dictionary while the daemon, under the other lock, starts the same job;
* `snapshots_pins`: a failure to read the pins counts as no pins;
* `snapshots_unreadable`: exit code 23 publishes an incomplete snapshot.

Seen while modelling, without a run of their own:

* retention: the daemon's `retention --all` works with the global count, which overrides
  the counts of schedules, and handles the first destination only;
* rclone: `_rclone_exists` answers no for every failure, so a network error on a marker
  makes the cleanup purge a complete snapshot (fault `"check"`, with which
  `CloudImplementsCatalog` is false); a restore copies `current/` whatever timestamp was asked for, and an explicit
  timestamp never resolves;
* dumps: for a remote source, MySQL databases are created on one host and imported on
  another; a failed fetch of dumps is reported as "no dumps" and as success; grants that
  time out take the dumps already made with them; the documented mode `selected` dumps
  everything; a system database that a target names is dumped, and passed over by a
  restore that reports success;
* telling: stale alerts compare names of sources with labels of jobs, so every source is
  stale; the digest's window can lie between two cycles, and its Sunday is never 0;
  a registry that cannot be saved makes the end of a job be mailed in every cycle;
  `NOTIFY_ON=failure` also suppresses the Healthchecks ping; a greedy pattern drops digits
  of the counts;
* verdicts: after a restart of the daemon one target's success in the log hides another's
  failure;
* wizard: a consent that came back by the callback ends in "Task not found"; the poll puts
  the next question under the remote of the session, which with two tabs is another one
  (`WizardIsOwn` holds for one tab).

## 5. Proofs

A theorem holds for every value of the constants that its module's ASSUME allows, so the
bounds of §3 play no part. Each rests on an inductive invariant, with a lemma per action.

### Jobs (`DaemonJobs_proofs`)

* Under every fault: `TypeCorrect`, `LoadedIsCurrentThm`, `PidIsOfTheJobThm`,
  `FinishedStaysThm`, `QueueOrderThm`.
* Under `NoRunIsLost` (spawns and saves do not fail, and if the daemon can crash, its unit
  kills its children): `LiveIsTrackedThm`, `OneRunAtATimeThm`, `WithinLimitThm`. The run
  `daemon_spawn_fails` shows that the assumption is needed.
* Under `NoFaults`: `StartedOnceThm`, `VerdictIsTrueThm`, `ImplementsQueueThm`. A crash
  between a start and its save leaves the job queued, to be started again; and a child of
  a daemon that died is judged by its log.

`IInv` adds to `TypeOK` and `LoadedIsCurrent` that ids not yet issued have no entry, that a
process has a job, that pids match in the file *and* in the loaded entries, and that a
shell run keeps its entry until it reports its end. The last two make it inductive: a
save replaces the file by `entries`, so whatever is said of the file must be said of
`entries` first, and between load and save only `LoadedIsCurrent` tells that they describe
the same world. `SaveStep` proves this once for any save. `TrackInv` adds that every live
process is the one named by the entry of its job (in `View`: what the daemon has started
counts before it is saved). From that, two live processes of one job are one process
(`TrackedOnce`), and the live runs map one to one to running entries (`RunsAreCounted`),
whose number `dispatch_queue` compares with the limit.

Order needs only `QueuedStep`: under every fault a queued job leaves the queue by
`DispatchOne` alone, which takes the oldest. Without faults nothing is queued again
(`NothingRequeued`), so what has had a process is never queued (`StartedLeaves`), and a
second process for it cannot start. `ChildrenInv` follows a child of the daemon from its
start: its entry is running with its pid until `check_jobs` waits for it, in the step in
which the entry gets the verdict. The refinement reads the stages off `View`: the
save of `dispatch_queue` then changes nothing, and each start is a `Dispatch` of its own.

### Front ends (`FrontEnds_proofs`)

* All writers at once, under every fault (`WritersSpec`: the daemon, any number of threads
  of the dashboard, the text UI, backups from a shell): `TuiTypeCorrect`,
  `EveryPidIsOfItsJobThm`, `TuiLiveIsKnownThm`, `TuiWithinLimitThm`. The run `front_ends`
  checks them with one front end beside the daemon; its behaviours are behaviours of
  `WritersSpec`.
* The dashboard, of any number of threads, as long as its requests do not overlap
  (`Serial`: at most one of them is on its way) and its own spawns and saves do not fail.
  Beside the daemon, which may crash and fail (`WebSpec`): `WebLiveIsKnownThm`,
  `WebWithinLimitThm`. As the only writer of the file (`WebAloneSpec`):
  `WebVerdictIsTrueThm`, `WebQueueOrderThm`, `WebStartedOnceThm`. The server serves with
  several threads, so `Serial` is about the requests, not about the code: nothing holds
  two of them apart, and the run `web_two_threads` shows what comes of it. That finished
  entries stay so is not among these: any second writer refutes it (`web_daemon_reopens`).

The writers overwrite each other's registry, so nothing that relates the file to a
dictionary survives. What does is said of each copy alone, and then of every copy.
`CopiesFit`: an entry, be it in the file, in what the daemon or a thread has loaded, or in
a dictionary, is of a job that was issued, and a pid in it is that of a process started
for this job. It is inductive because every step copies whole entries or writes the pid
of a process it has just started, and because processes keep their job (`ProcessesKeep`).
For the text UI, what is in the file is no help at all: a reload replaces its dictionary
by it, except where a task is at work. So `Watched` says that a live run of the session is
the one its task tails, and `Tasked` that tasks are for running entries. The limit counts
tasks that start or tail a process (`Slots`), which are at least the live runs; that
`_dispatch_queue` fills no more slots than are free is a fact about the first k of a
queue (`FirstOfQueue`).

Beside the daemon the file and the dictionary may differ in many ways, but not about a
run of the dashboard. `KeptInv` follows each such run (`Kept`): its entry is in the
dictionary with its pid, in what a request has read or is about to save, and in the file
unless the request that started it has still to save. The daemon cannot wait for it and
finds it alive, so no save of the daemon changes that entry, because a save of the daemon
starts from the file as it is (`LoadedIsCurrent`); and no request reads the file while
another has a start to save (`Serial`). Live runs then map one to one into running
entries, which are what is counted against the limit (`RunsAreInDictionary`).

As the only writer, the dashboard has an exact registry, up to a window: between a
callback and its save the dictionary is ahead of the file. `AloneInv` says where
(`Control`: at rest, and from the locked read to the dispatch, they agree; while
dispatching they differ in started jobs only), and follows each process (`Recorded`):
until it is waited for, its entry is running with its pid, from then on the entry has the
verdict of its exit code or was cleared.

`create_and_start` looks for a free slot and not at the queue. That it overtakes nobody
(`WebQueueOrder`) is due to `QueueWaits`: between requests nothing is queued while a slot
is free, because whatever frees a slot (a run found finished, killed or cleared) dispatches
before it returns; and a dispatch goes through all that is queued, oldest first.
`StartedOnce` follows from where starts come from (`AloneStarts`): a new job, or one that
is queued, which has had no process yet.

### Snapshots and restores (`Snapshots_proofs`, `Restore_proofs`)

* Under every fault: `TypeCorrect`, `RestoreTypeCorrect`, `RestoresDisturbNothing` (with
  restores beside them, runs and retentions still implement the specification they have
  alone, so the theorems of `Snapshots_proofs` hold there too).
* Under `AllIsReadable` (rsync does not exit 23): `ListedIsWholeThm`, `OwnPartialIsSafeThm`,
  `SuccessIsListedThm`, `KeepsNewestThm`, `RestoredIsWholeThm`. Kills, timeouts, failing
  `rm`, unreadable pins and a meta.json that cannot be written are all allowed. The run
  `snapshots_unreadable` shows that the assumption is needed.
* If besides every pin is read (`EveryPinIsRead`): `ImplementsCatalogThm`, and
  `PinnedStaysThm` if users set no pin while a retention deletes (`PinsAreRead`). The run
  `snapshots_pins` shows that pins must be read.

`ListedIsWhole` says nothing about a `.partial`, yet the rename turns one into a listed
snapshot; so the invariant must follow a run from its start. `ControlInv`: a run past the
lock holds it (hence the others are idle), has a timestamp, and reaches `finalize` only
with no folder left and none failed. `FreshUntilPartial`: until a run makes its `.partial`,
nothing has its timestamp, not even the memory of a retention. `OwnPartialIsSafe`: from
then on the `.partial` holds what was transferred. `PublishedShown`: after the rename the
snapshot is whole or condemned. `ChosenWasFinal`: what a retention listed or chose was
published, so no retention, however old its list, deletes a `.partial`. The proof
separates what a step does to directories (`SafeChange`: what is listed, whole or
condemned stays so; one lemma per kind of change) from what it does to the run in progress
(`RunOk`; `BystanderStep` for steps that do not touch its directory).

`KeepsNewest` with stale lists rests on one observation (`ChoiceKeeps`): look at the newest
snapshot ever chosen. If it was chosen before, what is newer than it was not touched; if
it is chosen now, the list the choice was made from had at least `Keep` newer ones, and
none of them is chosen. For the refinement (`ShelfStep`), `NewestIsLast` says that nothing
newer than the timestamp of the run in progress is published, so the rename is a `Take`,
and `PlainUntilPublished` that it enters without a pin; the choice of a retention is a
`Drop` by `KeepsNewest`; every other step leaves the shelf alone (`QuietStep`).

A restore adds one thing: what it resolved was published, and a published snapshot stays
published and whole unless a retention chose it (`PublishedStays`). So, unless chosen,
every folder already passed has been brought back (`Brings`).

### Rclone destinations (`RcloneStore_proofs`)

* Under every fault: `CloudTypeCorrect`, `SealedIsMirroredThm`.
* Under `MarkersAreSeen` (a test for a marker does not fail): `CloudKeepsNewestThm`,
  `CloudImplementsCatalogThm`, `RestoredIsNotOlderThm`. Without it a complete snapshot can be purged (§4).

That a marker stands for what its run mirrored needs no lock: whoever syncs a folder
copies the source, so versions in `current/` never go back (`VersionsInv`). What is purged
does need it. `VaultInv`: whoever runs holds the lock (`RunnerHasLock`); until a run seals its
directory nobody takes that for a snapshot (`OwnIsUnknown`); what is being purged has no
marker or was chosen by a retention (`PurgesAreSafe`); what a restore resolved is complete,
or was until a retention chose it (`FetchedIsKnown`); a marker is in a directory
(`MarkersAreInside`). For the refinement of `SnapshotCatalog`, `OwnIsNewest` adds that
nothing a user has seen is as new as the snapshot in the making, so the marker is a `Take`;
`CloudKeepsNewest`, that the choice of a retention is a `Drop`, by the argument of
`KeepsNewest`; and `WhatChanges` that only these two change the catalog. For restores, `sealed` of what was resolved does not change
(`SealedStays`), the mirror is at least as new, and so is each folder copied from it
(`FetchIsFresh`).

### The process of `gniza backup` (`BackupAll_proofs`)

`BatchTypeCorrect`, `ExitIsTrueThm` and `NoTempIsLeftThm`, without assumptions beyond those
on the constants. `TempInv` ties the temporary directories to the step: between pairs
there are none, inside one they are those its variables name, unless an exception ended
the process or `rm -rf` failed. These two exceptions are in `NoTempIsLeft` itself, because
the code cleans up on neither; to `ExitIsTrue` an exception is a failure with exit code 1
like any other. `BatchInv` relates the codes to what was published, says that disabled
targets are skipped and in which order the loops go, and what it means that a counter of
successes or failures is still zero. That the counters are bounded needs the place in the
loops: `--all` counts a target at most once, a schedule a pair at most once, so they are at
most the rank of the target or of the pair (`CountedSoFar`, with `RankOfPair`).

### Dumps, alerts, wizard

`Restore_proofs`, second part: `DumpsTypeCorrect` and `RestoredIsDumpedThm` (all but
`SystemNames`), from `DumpIsComplete` (what the dump in progress has dealt with is in it,
or the dump has failed), `ShelfIsComplete` (so is the dump that reached the snapshot) and
`OneDump` (none is made while one is on the shelf).

`Alerts_proofs`: `AlertsTypeCorrect`; `ToldAtMostOnceThm` from `EndsAreTold` (what was told
and what is about to be, the running entries that will be found again included, does not
exceed one plus the saves that failed or put the entry back); `NotTooOftenThm` from
`SentIsRecorded` (the digests of a day are recorded, but for the records that were lost)
and `AlertIsRecorded` (the state file has the last alert, if it was kept). Failing reads
and writes, stale saves and kills at any step are allowed, any number of them. Second
part: `WizardTypeCorrect`, `TokenIsOwnThm` for any number of tabs, and `WizardIsOwnThm`
under `OneTab`.

### Composition (`Components_proofs`)

`PartsAreUndisturbed`: the composition that the run `components` checks implements the
specification of each of its components, since a step of it is a step of one and leaves
the variables of the others alone. So every theorem about a component holds in the
composition; `ComponentsTypeCorrect` puts their type invariants together.

### Only model-checked

Liveness (`QueuedIsServed`, `WebQueuedIsServed`, `BackupEnds`), which is out of the
prover's reach: each needs fairness and ENABLED. And `WebFinishedStays`, which
`web_alone` checks of one request at a time: it fails as soon as anybody else writes the
file. Every other property of a passing run is a theorem.

## 6. Not modelled

* **Scheduling** (`lib/schedule.sh`): rewrites its block in a crontab in one pipeline; its
  state is text of an external program.
* **Configuration** (`lib/config.py`, `lib/models.py`): characters in, characters out, a
  call at a time, for which unit tests are the better tool.
* **Login and pages** of the dashboard, and the **screens** of the text UI other than the
  timers and buttons that touch jobs: they render configuration and call what is modelled.
  The login lockout is one counter per address.
* **Packaging and installation**: no behaviour at run time.
* **The Bash core**, other than `gniza retention` and `job_register.py`'s callers: the
  fallback implementation of the flows modelled from the Python core.
* **Clean-up of logs and of the work directory**: goes by the age of files, which nothing
  else depends on except as said in §7.
* **Channels and texts of notifications**: a channel that fails is logged and forgotten.
* **The building of rsync, ssh, rclone and dump commands**: data. Their results are
  nondeterministic.
* `restore_grants`, `restore_roles` and the `update_latest_symlink` of Python: called by
  nothing.

## 7. Plan

Done: jobs with their three programs, snapshots, restores, rclone destinations, the
backup process, dumps, alerts, the wizard; proofs about each of them.

Hazards without a property:

* process ids are handed out once in the models; nothing in the code tells a reused one,
  so every property about pids would be false with reuse;
* the verdict from the log after a restart (`lib/job_utils.py`): wrong for a run over
  several targets, so no property can promise it; `ExitIsTrue` and `VerdictIsTrue` cover
  the exit code and the children;
* a pin set while a retention deletes comes too late by design of the prefetch;
* a clock that goes back: the code orders by name, and `KeepsNewest` would hold by name
  only;
* dumps that cannot be fetched, and dumps of system databases: the code reports success;
* a temporary directory that `rm -rf` cannot remove: the code does not look;
* the clean-up of stale work directories may hit a staging directory in use; this needs
  the ages of files.

Next, in this order: that a dashboard alone implements an abstract queue (`JobQueue` has no
submission and no cancellation by a user); a model of the clean-up of work directories
beside a long backup, over a bounded clock; the writing and parsing of `.conf` files
against a reference definition.
