---------------------------------- MODULE Alerts ----------------------------------
(***************************************************************************)
(* What the health daemon tells its users (daemon/core.py, notify_py.py):  *)
(* a notification for each job it finds finished, alerts about sources     *)
(* without a recent backup, and digests, by a loop that also runs the      *)
(* retention and whose housekeeping comes round every ten minutes or later.*)
(* Other writers of the job registry finish jobs, too, or put back what    *)
(* they read earlier; the daemon is restarted now and then, and its reads  *)
(* and writes of its files may fail, which it only logs.                   *)
(*                                                                         *)
(* Time counts slots of five minutes, Slots to a (shortened) day.          *)
(***************************************************************************)
EXTENDS Naturals

CONSTANTS
  Watched,      \* the jobs of the registry
  NotifyOn,     \* NOTIFY_ON: "never", "failure" or "always"
  Slots,        \* how many slots a day has
  Days,         \* bound: how many days pass
  Window,       \* the slots after DIGEST_TIME in which a digest may be sent
  DigestDays,   \* the days of DIGEST_FREQUENCY and DIGEST_DAY
  CareEvery,    \* 60 cycles of the loop
  RetainMost,   \* the timeout of the retention
  StaleAfter,   \* STALE_ALERT_HOURS; 0 switches the alerts off
  MaxRestarts,  \* bound: how often the daemon is killed and started again
  MaxFaults     \* bound: how often a file of the daemon fails it, or is written stale

ASSUME AlertsAssumption ==
  /\ NotifyOn \in {"never", "failure", "always"}
  /\ Slots \in Nat \ {0}
  /\ Days \in Nat \ {0}
  /\ Window \subseteq 0..(Slots - 1)
  /\ DigestDays \subseteq 0..(Days - 1)
  /\ CareEvery \in Nat
  /\ RetainMost \in Nat
  /\ StaleAfter \in Nat
  /\ MaxRestarts \in Nat
  /\ MaxFaults \in Nat

VARIABLES
  now,       \* the clock
  loop,      \* where the loop is, and the slots since its last housekeeping
  exits,     \* what each job has come to: its process, then its entry
  outbox,    \* the verdicts check_jobs has reached and not told of yet
  told,      \* history: how often the end of each job was told
  again,     \* history: how often the entry of an ended job stayed, or became, running
  lastSent,  \* gniza-last-digest.txt: the day, Days if there is none
  digests,   \* history: how many digests were sent on each day
  lost,      \* history: how often the record of a day's digest was missing
  lastAlert, \* stale-alert.state: when the last alert was sent, Never if there is none
  alerts,    \* history: the last two alerts, and whether they were recorded
  restarts,  \* how often the daemon was restarted
  faults     \* how often a file has failed it

jobVars == <<exits, outbox, told, again>>
digestVars == <<lastSent, digests, lost>>
alertVars == <<lastAlert, alerts>>
alertsVars == <<now, loop, jobVars, digestVars, alertVars, restarts, faults>>

End == Slots * Days - 1
Never == End + 1
Today == now \div Slots

Verdicts == {"success", "failed"}
NoAlert == [at |-> Never, kept |-> FALSE]

AlertsInit ==
  /\ now = 0
  /\ loop = [step |-> "sleep", beat |-> 0]
  /\ exits = [j \in Watched |-> "running"]
  /\ outbox = [j \in Watched |-> "none"]
  /\ told = [j \in Watched |-> 0]
  /\ again = [j \in Watched |-> 0]
  /\ lastSent = Days
  /\ digests = [d \in 0..(Days - 1) |-> 0]
  /\ lost = [d \in 0..(Days - 1) |-> 0]
  /\ lastAlert = Never
  /\ alerts = <<NoAlert, NoAlert>>
  /\ restarts = 0
  /\ faults = 0

Go(step) == loop' = [loop EXCEPT !.step = step]

\* An OSError the code survives.
Fails == faults < MaxFaults /\ faults' = faults + 1

--------------------------------------------------------------------------------
(* check_jobs and send_job_notification. *)

\* A process ends, well or not.
JobEnds(j, code) ==
  /\ exits[j] = "running"
  /\ exits' = [exits EXCEPT ![j] = code]
  /\ UNCHANGED <<now, loop, outbox, told, again, digestVars, alertVars, restarts, faults>>

\* Its CLI, the dashboard or the text UI writes its entry before the daemon looks.
OtherFinishes(j) ==
  /\ exits[j] \in {"zero", "nonzero"}
  /\ exits' = [exits EXCEPT ![j] = "other"]
  /\ UNCHANGED <<now, loop, outbox, told, again, digestVars, alertVars, restarts, faults>>

\* The dashboard or the text UI saves what it read while the job was running: the entry
\* is running again, with the pid of a process that is gone.
OtherReopens(j, code) ==
  /\ exits[j] \in Verdicts \union {"other"}
  /\ Fails
  /\ exits' = [exits EXCEPT ![j] = code]
  /\ again' = [again EXCEPT ![j] = @ + 1]
  /\ UNCHANGED <<now, loop, outbox, told, digestVars, alertVars, restarts>>

Dead == {j \in Watched : exits[j] \in {"zero", "nonzero"}}

\* What check_jobs makes of the exit code of a dead job.
Verdict(j) == IF exits[j] = "zero" THEN "success" ELSE "failed"

\* Mutant of CheckJobs: the entries are not saved.
CheckJobsUnsaved ==
  /\ loop.step = "sleep"
  /\ outbox' = [j \in Watched |-> IF j \in Dead THEN Verdict(j) ELSE "none"]
  /\ Go("notify")
  /\ UNCHANGED <<now, exits, told, again, digestVars, alertVars, restarts, faults>>

\* The registry is saved before anything is sent.  A save that fails is only logged:
\* the copies of the entries are told all the same, and the dead jobs found once more.
CheckJobs ==
  /\ loop.step = "sleep"
  /\ outbox' = [j \in Watched |-> IF j \in Dead THEN Verdict(j) ELSE "none"]
  /\ \/ /\ exits' = [j \in Watched |-> IF j \in Dead THEN Verdict(j) ELSE exits[j]]
        /\ UNCHANGED <<again, faults>>
     \/ /\ Dead # {}
        /\ Fails
        /\ again' = [j \in Watched |-> IF j \in Dead THEN again[j] + 1 ELSE again[j]]
        /\ UNCHANGED exits
  /\ Go("notify")
  /\ UNCHANGED <<now, told, digestVars, alertVars, restarts>>

\* One notification, on every configured channel; which of them fail is only logged,
\* and nothing is sent again.
Notify(j) ==
  /\ loop.step = "notify"
  /\ outbox[j] # "none"
  /\ outbox' = [outbox EXCEPT ![j] = "none"]
  /\ told' = IF NotifyOn = "always" \/ (NotifyOn = "failure" /\ outbox[j] = "failed")
             THEN [told EXCEPT ![j] = @ + 1] ELSE told
  /\ UNCHANGED <<now, loop, exits, again, digestVars, alertVars, restarts, faults>>

\* The rest of the cycle; every CareEvery slots, or later, the housekeeping.
CycleEnds ==
  /\ loop.step = "notify"
  /\ \A j \in Watched : outbox[j] = "none"
  /\ \/ loop' = [loop EXCEPT !.step = "sleep"]
     \/ loop.beat >= CareEvery /\ loop' = [step |-> "retain", beat |-> 0]
  /\ UNCHANGED <<now, jobVars, digestVars, alertVars, restarts, faults>>

--------------------------------------------------------------------------------
(* The housekeeping. *)

\* An exception on the way ends the cycle.
RetentionEnds ==
  /\ loop.step = "retain"
  /\ Go("stale") \/ Go("sleep")
  /\ UNCHANGED <<now, jobVars, digestVars, alertVars, restarts, faults>>

\* Mutant of Cooling: the cooldown is over one slot early.
CoolingShort == lastAlert # Never /\ now - lastAlert + 1 < StaleAfter

\* The state file says that the last alert is not old enough.
Cooling == lastAlert # Never /\ now - lastAlert < StaleAfter

\* check_stale_backups sends.  It looks for the name of a source among the labels of the
\* successful jobs, but no label is just the name of a source ("Backup www", "Scheduled:
\* daily (www)"), so every enabled source is stale.  A state file that cannot be read
\* counts as none.
SendAlert ==
  /\ loop.step = "stale"
  /\ StaleAfter > 0
  /\ \/ /\ ~Cooling
        /\ alerts' = <<alerts[2], [at |-> now, kept |-> FALSE]>>
        /\ UNCHANGED faults
     \/ /\ Cooling
        /\ Fails
        /\ alerts' = <<[alerts[2] EXCEPT !.kept = FALSE], [at |-> now, kept |-> FALSE]>>
  /\ Go("mark")
  /\ UNCHANGED <<now, jobVars, digestVars, lastAlert, restarts>>

\* The time is recorded then, whatever came of the channels.  A failing write is only
\* logged; it leaves the old file, or an empty one.
RecordAlert ==
  /\ loop.step = "mark"
  /\ \/ /\ lastAlert' = now
        /\ alerts' = <<alerts[1], [alerts[2] EXCEPT !.kept = TRUE]>>
        /\ UNCHANGED faults
     \/ /\ Fails
        /\ lastAlert' \in {lastAlert, Never}
        /\ UNCHANGED alerts
  /\ Go("digest")
  /\ UNCHANGED <<now, jobVars, digestVars, restarts>>

NoStaleAlert ==
  /\ loop.step = "stale"
  /\ StaleAfter = 0 \/ Cooling
  /\ Go("digest")
  /\ UNCHANGED <<now, jobVars, digestVars, alertVars, restarts, faults>>

\* _should_send_digest: the window and the day.
DigestTime == now % Slots \in Window /\ Today \in DigestDays

\* Mutant of Due: it does not look at the record.
DueAgain == DigestTime

\* ... and not yet sent today.
Due == DigestTime /\ lastSent # Today

\* check_digest sends, again on all channels, also when the record cannot be read ...
SendDigest ==
  /\ loop.step = "digest"
  /\ \/ Due /\ UNCHANGED <<lost, faults>>
     \/ DigestTime /\ ~Due /\ Fails /\ lost' = [lost EXCEPT ![Today] = @ + 1]
  /\ digests' = [digests EXCEPT ![Today] = @ + 1]
  /\ Go("record")
  /\ UNCHANGED <<now, jobVars, lastSent, alertVars, restarts>>

\* ... and records that it did, also when every channel failed; a failing write is
\* only logged.
RecordDigest ==
  /\ loop.step = "record"
  /\ \/ lastSent' = Today /\ UNCHANGED <<lost, faults>>
     \/ /\ Fails
        /\ lastSent' \in {lastSent, Days}
        /\ lost' = [lost EXCEPT ![Today] = @ + 1]
  /\ Go("sleep")
  /\ UNCHANGED <<now, jobVars, digests, alertVars, restarts>>

NoDigest ==
  /\ loop.step = "digest"
  /\ ~Due
  /\ Go("sleep")
  /\ UNCHANGED <<now, jobVars, digestVars, alertVars, restarts, faults>>

--------------------------------------------------------------------------------

\* Time passes while the loop sleeps, and while the retention runs, up to its timeout.
Tick ==
  /\ now < End
  /\ loop.step = "sleep" \/ (loop.step = "retain" /\ loop.beat < RetainMost)
  /\ now' = now + 1
  /\ loop' = [loop EXCEPT !.beat = IF @ < CareEvery + RetainMost THEN @ + 1 ELSE @]
  /\ UNCHANGED <<jobVars, digestVars, alertVars, restarts, faults>>

\* The daemon is killed at any point, and starts with new counters; a file it was about
\* to write is the old one, or empty.
RestartDaemon ==
  /\ restarts < MaxRestarts
  /\ restarts' = restarts + 1
  /\ loop' = [step |-> "sleep", beat |-> 0]
  /\ outbox' = [j \in Watched |-> "none"]
  /\ IF loop.step = "record"
     THEN lost' = [lost EXCEPT ![Today] = @ + 1] /\ lastSent' \in {lastSent, Days}
     ELSE UNCHANGED <<lost, lastSent>>
  /\ IF loop.step = "mark" THEN lastAlert' \in {lastAlert, Never} ELSE UNCHANGED lastAlert
  /\ UNCHANGED <<now, exits, told, again, digests, alerts, faults>>

AlertsNext ==
  \/ \E j \in Watched :
       \/ \E code \in {"zero", "nonzero"} : JobEnds(j, code) \/ OtherReopens(j, code)
       \/ OtherFinishes(j)
       \/ Notify(j)
  \/ CheckJobs
  \/ CycleEnds
  \/ RetentionEnds
  \/ SendAlert
  \/ RecordAlert
  \/ NoStaleAlert
  \/ SendDigest
  \/ RecordDigest
  \/ NoDigest
  \/ Tick
  \/ RestartDaemon

AlertsSpec == AlertsInit /\ [][AlertsNext]_alertsVars

--------------------------------------------------------------------------------
(* Properties. *)

\* Type correctness of the daemon.
AlertsTypeOK ==
  /\ now \in 0..End
  /\ loop \in [step : {"sleep", "notify", "retain", "stale", "mark", "digest", "record"},
               beat : 0..(CareEvery + RetainMost)]
  /\ exits \in [Watched -> {"running", "zero", "nonzero", "other"} \union Verdicts]
  /\ outbox \in [Watched -> {"none"} \union Verdicts]
  /\ told \in [Watched -> Nat]
  /\ again \in [Watched -> Nat]
  /\ lastSent \in 0..Days
  /\ digests \in [0..(Days - 1) -> Nat]
  /\ lost \in [0..(Days - 1) -> Nat]
  /\ lastAlert \in 0..Never
  /\ alerts \in [at : 0..Never, kept : BOOLEAN] \X [at : 0..Never, kept : BOOLEAN]
  /\ restarts \in 0..MaxRestarts
  /\ faults \in 0..MaxFaults

\* However often the daemon is restarted between the registry and the mail, the end of
\* a job is told once, and never that of a job someone else finished; one time more only
\* for each time that its entry stayed running because the save failed, or was put back
\* by a stale save.
ToldAtMostOnce ==
  \A j \in Watched :
    /\ told[j] <= 1 + again[j]
    /\ exits[j] = "other" => told[j] <= again[j]

\* A day has one digest, whatever restarts the daemon in its window, and one more only
\* for each time that the record of one was missing: not written, or not readable.  Two
\* alerts are StaleAfter apart, unless the record of the earlier one was missing.
NotTooOften ==
  /\ \A d \in 0..(Days - 1) : digests[d] <= 1 + lost[d]
  /\ alerts[1].kept => alerts[2].at - alerts[1].at >= StaleAfter
================================================================================
