---------------------------- MODULE Snapshots_proofs ----------------------------
(***************************************************************************)
(* What holds of the snapshots of a target for every number of folders,    *)
(* timestamps, attempts and processes.                                     *)
(***************************************************************************)
EXTENDS Snapshots, TLAPS, WellFoundedInduction, FiniteSetTheorems

--------------------------------------------------------------------------------
(* Facts about the operators. *)

\* rm -rf, a rename and meta.json leave directories of snapshots.
LEMMA SnapsTypes ==
  ASSUME snaps \in [Stamps -> Snapshot]
  PROVE  /\ NoSnapshot \in Snapshot
         /\ \A gone : Without(gone) \in [Stamps -> Snapshot]
         /\ \A s : \A dir \in {"none", "partial", "final"} :
              WithDir(s, dir) \in [Stamps -> Snapshot]
         /\ \A s : \A meta \in {"none", "plain", "pinned"} :
              WithMeta(s, meta) \in [Stamps -> Snapshot]
         /\ \A s, has : (s \in Stamps => has \in SUBSET Folders) =>
              /\ WithHas(s, has) \in [Stamps -> Snapshot]
              /\ WithFolders(s, has) \in [Stamps -> Snapshot]
<1>1. NoSnapshot \in Snapshot
  BY DEF NoSnapshot, Snapshot
<1>2. \A gone : Without(gone) \in [Stamps -> Snapshot]
  BY <1>1 DEF Without
<1>3. \A s : \A dir \in {"none", "partial", "final"} :
        WithDir(s, dir) \in [Stamps -> Snapshot]
  BY DEF WithDir, Snapshot
<1>4. \A s : \A meta \in {"none", "plain", "pinned"} :
        WithMeta(s, meta) \in [Stamps -> Snapshot]
  BY DEF WithMeta, Snapshot
<1>5. \A s, has : (s \in Stamps => has \in SUBSET Folders) =>
        WithHas(s, has) \in [Stamps -> Snapshot]
  BY DEF WithHas, Snapshot
<1>6. \A s, has : (s \in Stamps => has \in SUBSET Folders) =>
        WithFolders(s, has) \in [Stamps -> Snapshot]
  BY DEF WithFolders, Snapshot
<1> QED BY <1>1, <1>2, <1>3, <1>4, <1>5, <1>6

LEMMA NoWorkType == NoWork \in Work
BY SnapshotsAssumption DEF NoWork, Work

\* The transfer goes on in the same timestamp, and within its bounds.
LEMMA NextFolderType ==
  ASSUME NEW w \in Work, w.folder # 0, NEW ok \in BOOLEAN
  PROVE  NextFolder(w, ok) \in Work /\ NextFolder(w, ok).ts = w.ts
<1> DEFINE next == IF w.folder < NumFolders THEN w.folder + 1 ELSE 0
           broken == w.failed \/ ~ok
<1>1. next \in 0..NumFolders /\ 0 \in 0..MaxRetries
  BY SnapshotsAssumption DEF Work
<1>2. broken \in BOOLEAN
  OBVIOUS
<1>3. NextFolder(w, ok) = [w EXCEPT !.folder = next, !.attempt = 0, !.again = FALSE,
                                    !.failed = broken]
  BY DEF NextFolder
<1> HIDE DEF next, broken
<1> QED BY <1>1, <1>2, <1>3 DEF Work

LEMMA GiveUpType ==
  ASSUME NEW w \in Work
  PROVE  [w EXCEPT !.folder = 0, !.failed = TRUE] \in Work
<1> DEFINE yes == TRUE
           none == 0
<1>1. none \in 0..NumFolders /\ yes \in BOOLEAN
  BY SnapshotsAssumption
<1> HIDE DEF yes, none
<1>2. [w EXCEPT !.folder = none, !.failed = yes] \in Work
  BY <1>1 DEF Work
<1> QED BY <1>2 DEF yes, none

LEMMA AfterRsyncType ==
  ASSUME NEW w \in Work, w.folder # 0, NEW code \in Code
  PROVE  AfterRsync(w, code) \in Work /\ AfterRsync(w, code).ts = w.ts
<1>1. NextFolder(w, TRUE) \in Work /\ NextFolder(w, TRUE).ts = w.ts
  BY NextFolderType
<1>2. NextFolder(w, FALSE) \in Work /\ NextFolder(w, FALSE).ts = w.ts
  BY NextFolderType
<1>3. [w EXCEPT !.again = TRUE] \in Work /\ [w EXCEPT !.again = TRUE].ts = w.ts
  BY DEF Work
<1>4. w.attempt + 1 < MaxRetries => /\ [w EXCEPT !.attempt = @ + 1] \in Work
                                    /\ [w EXCEPT !.attempt = @ + 1].ts = w.ts
  BY SnapshotsAssumption DEF Work
<1> QED BY <1>1, <1>2, <1>3, <1>4 DEF AfterRsync

--------------------------------------------------------------------------------
(* Type correctness. *)

\* A run that returns, with whatever code.
LEMMA ReturnType ==
  ASSUME TypeOK, NEW r \in Runs, NEW rc \in {"ok", "failed"}, Return(r, rc)
  PROVE  /\ tlock' \in Runs \union {NoRun}
         /\ pc' = [pc EXCEPT ![r] = "idle"]
         /\ work' \in [Runs -> Work]
         /\ result' \in [rc : {"none", "ok", "failed", "skipped"}, ts : 0..NumStamps]
<1>1. work[r].ts \in 0..NumStamps /\ 0 \in 0..NumStamps
  BY SnapshotsAssumption DEF TypeOK, Work
<1>2. result' = [rc |-> rc, ts |-> IF rc = "ok" THEN work[r].ts ELSE 0]
  BY DEF Return
<1>3. work' = [work EXCEPT ![r] = NoWork] /\ work' \in [Runs -> Work]
  BY NoWorkType DEF Return, TypeOK
<1> QED BY <1>1, <1>2, <1>3 DEF Return, Goto, TypeOK

LEMMA TypeInit == Init => TypeOK
<1> SUFFICES ASSUME Init PROVE TypeOK
  OBVIOUS
<1>1. snaps \in [Stamps -> Snapshot]
  BY DEF Init, NoSnapshot, Snapshot
<1>2. work \in [Runs -> Work]
  BY NoWorkType DEF Init
<1>3. result \in [rc : {"none", "ok", "failed", "skipped"}, ts : 0..NumStamps]
  BY SnapshotsAssumption DEF Init
<1> QED BY <1>1, <1>2, <1>3, SnapshotsAssumption DEF Init, TypeOK

\* The steps of a backup run up to its retention.
LEMMA BackupType ==
  ASSUME TypeOK, NEW r \in Runs, BackupStep(r)
  PROVE  TypeOK'
<1> USE DEF TypeOK, retentionVars
<1>0. r \in Actors /\ work[r] \in Work /\ work[r].ts \in 0..NumStamps
  BY DEF Actors, Work
<1>1. CASE ProbeFails(r)
  BY <1>0, <1>1, ReturnType DEF ProbeFails
<1>2. CASE ProbeOk(r)
  BY <1>0, <1>2 DEF ProbeOk, Goto
<1>3. CASE CleanPartials(r)
  BY <1>0, <1>3, SnapsTypes DEF CleanPartials, Goto
<1>4. CASE PrepareFails(r)
  BY <1>0, <1>4, ReturnType DEF PrepareFails
<1>5. CASE MakePartial(r)
  <2>1. work' \in [Runs -> Work]
    BY <1>0, <1>5, SnapshotsAssumption DEF MakePartial, Work
  <2> QED BY <1>0, <1>5, <2>1, SnapsTypes DEF MakePartial, Goto
<1>6. ASSUME NEW code \in Code, Rsync(r, code) PROVE TypeOK'
  <2>1. work' \in [Runs -> Work]
    BY <1>0, <1>6, AfterRsyncType DEF Rsync
  <2>2. snaps' = WithFolders(work[r].ts, Received(work[r], code))
    BY <1>6 DEF Rsync
  <2>3. work[r].ts \in Stamps => Received(work[r], code) \in SUBSET Folders
    BY <1>0, <1>6 DEF Rsync, Received, Work, Snapshot, Folders
  <2>4. snaps' \in [Stamps -> Snapshot]
    BY <2>2, <2>3, SnapsTypes
  <2>5. UNCHANGED <<latest, tlock, pc, result, retentionVars>>
    BY <1>6 DEF Rsync
  <2> QED BY <2>1, <2>4, <2>5
<1>7. CASE DiskFull(r)
  <2>1. CASE work' = [work EXCEPT ![r] = [work[r] EXCEPT !.folder = 0, !.failed = TRUE]]
    <3>1. [work[r] EXCEPT !.folder = 0, !.failed = TRUE] \in Work
      BY <1>0, GiveUpType
    <3> QED BY <1>7, <2>1, <3>1 DEF DiskFull
  <2>2. CASE work' = [work EXCEPT ![r] = NextFolder(work[r], FALSE)]
    <3>1. NextFolder(work[r], FALSE) \in Work
      BY <1>0, <1>7, NextFolderType DEF DiskFull
    <3> QED BY <1>7, <2>2, <3>1 DEF DiskFull
  <2> QED BY <1>7, <2>1, <2>2 DEF DiskFull
<1>8. CASE TransferFails(r)
  BY <1>0, <1>8, ReturnType DEF TransferFails
<1>9. CASE GenerateMeta(r)
  <2>1. PICK meta \in {"plain", "none"} : snaps' = WithMeta(work[r].ts, meta)
    BY <1>9 DEF GenerateMeta
  <2>2. snaps' \in [Stamps -> Snapshot]
    BY <2>1, SnapsTypes
  <2> QED BY <1>0, <1>9, <2>2 DEF GenerateMeta, Goto
<1>10. CASE Finalize(r)
  BY <1>0, <1>10, SnapsTypes DEF Finalize, Goto
<1>11. CASE FinalizeFails(r)
  BY <1>0, <1>11, ReturnType DEF FinalizeFails
<1>12. CASE UnlinkLatest(r)
  BY <1>0, <1>12, SnapshotsAssumption DEF UnlinkLatest, Goto
<1>13. CASE LinkLatest(r)
  BY <1>0, <1>13 DEF LinkLatest, Goto
<1>14. CASE RemoteTimesOut(r)
  <2>1. Effect(r) \in [Stamps -> Snapshot]
    BY SnapsTypes DEF Effect
  <2>2. snaps' \in [Stamps -> Snapshot] /\ latest' \in 0..NumStamps
    BY <1>0, <1>14, <2>1 DEF RemoteTimesOut
  <2> QED BY <1>0, <1>14, <2>2, ReturnType DEF RemoteTimesOut
<1> QED BY <1>1, <1>2, <1>3, <1>4, <1>5, <1>6, <1>7, <1>8, <1>9, <1>10, <1>11, <1>12,
           <1>13, <1>14 DEF BackupStep

\* The steps of a retention.
LEMMA RetentionType ==
  ASSUME TypeOK, NEW a \in Actors, RetentionStep(a)
  PROVE  TypeOK'
<1> USE DEF TypeOK
<1>1. CASE ListSnapshots(a)
  BY <1>1 DEF ListSnapshots, Goto, Finals
<1>2. CASE PrefetchPinned(a)
  <2>1. PICK pins \in {Pinned} \union {{}} :
          /\ doomed' = [doomed EXCEPT ![a] = Excess(listed[a], pins, Keep[a])]
          /\ condemned' = condemned \union Excess(listed[a], pins, Keep[a])
    BY <1>2 DEF PrefetchPinned
  <2>2. Excess(listed[a], pins, Keep[a]) \subseteq Stamps
    BY DEF Excess
  <2> QED BY <1>2, <2>1, <2>2 DEF PrefetchPinned, Goto
<1>3. CASE DeleteSome(a)
  BY <1>3, SnapsTypes DEF DeleteSome, retentionVars
<1>4. CASE DeleteSnapshot(a)
  BY <1>4, SnapsTypes DEF DeleteSnapshot
<1>5. CASE DeleteTimesOut(a)
  BY <1>5, SnapsTypes DEF DeleteTimesOut
<1>6. CASE RetentionDone(a)
  <2>1. CASE a \in Runs /\ Return(a, "ok")
    BY <1>6, <2>1, ReturnType DEF RetentionDone, retentionVars
  <2>2. CASE Goto(a, "idle") /\ UNCHANGED <<tlock, work, result>>
    BY <1>6, <2>2 DEF RetentionDone, retentionVars, Goto
  <2> QED BY <1>6, <2>1, <2>2 DEF RetentionDone
<1> QED BY <1>1, <1>2, <1>3, <1>4, <1>5, <1>6 DEF RetentionStep

LEMMA TypeStep == TypeOK /\ [Next]_vars => TypeOK'
<1> SUFFICES ASSUME TypeOK, [Next]_vars PROVE TypeOK'
  OBVIOUS
<1>1. ASSUME NEW r \in Runs, NEW s \in Stamps, Acquire(r, s) PROVE TypeOK'
  <2>1. [NoWork EXCEPT !.ts = s] \in Work
    BY NoWorkType DEF Work, Stamps
  <2> QED BY <1>1, <2>1 DEF Acquire, TypeOK, Goto, Actors, retentionVars
<1>2. ASSUME NEW r \in Runs, SkipBusy(r) PROVE TypeOK'
  BY <1>2, SnapshotsAssumption DEF SkipBusy, TypeOK, retentionVars
<1>3. ASSUME NEW r \in Runs, BackupStep(r) PROVE TypeOK'
  BY <1>3, BackupType
<1>4. ASSUME NEW a \in Actors, RetentionStep(a) PROVE TypeOK'
  BY <1>4, RetentionType
<1>5. ASSUME NEW a \in Actors, Killed(a) PROVE TypeOK'
  BY <1>5, NoWorkType DEF Killed, TypeOK, Goto
<1>6. ASSUME NEW s \in Stamps, Pin(s) PROVE TypeOK'
  <2>1. PICK meta \in {"plain", "pinned"} : snaps' = WithMeta(s, meta)
    BY <1>6 DEF Pin
  <2> QED BY <1>6, <2>1, SnapsTypes DEF Pin, TypeOK, retentionVars
<1>7. CASE UNCHANGED vars
  BY <1>7 DEF vars, TypeOK
<1> QED BY <1>1, <1>2, <1>3, <1>4, <1>5, <1>6, <1>7 DEF Next

\* The state of the destination and of every process stays well formed.
THEOREM TypeCorrect == Spec => []TypeOK
BY TypeInit, TypeStep, PTL DEF Spec

--------------------------------------------------------------------------------
(* The inductive invariant. *)

\* rsync reads every file of the sources: it never exits with 23.
AllIsReadable == "unreadable" \notin Faults

\* What a run has to do with the lock and with its timestamp.
HoldsLock == \A r \in Runs : pc[r] # "idle" => tlock = r

HasStamp == \A r \in Runs : pc[r] # "idle" => work[r].ts \in Stamps

NoSecondTry == \A r \in Runs : ~work[r].again

ReadyToPublish ==
  \A r \in Runs : pc[r] = "finalize" => work[r].folder = 0 /\ ~work[r].failed

ControlInv == TypeOK /\ HoldsLock /\ HasStamp /\ NoSecondTry /\ ReadyToPublish

\* A snapshot that is whole, or that a retention chose: all that may be listed.
Shown(s) == Whole(s) \/ s \in condemned

Early == {"probe", "clean", "prepare"}

Published == {"unlink", "link", "retain", "pins", "prune"}

\* Until a run makes its .partial, nothing has its timestamp.
FreshUntilPartial ==
  \A r \in Runs : pc[r] \in Early =>
    snaps[work[r].ts].dir = "none" /\ snaps[work[r].ts].has = {} /\ work[r].ts \notin condemned

FinalsShown == \A s \in Finals : Shown(s)

LatestShown == latest # 0 => latest \in Stamps /\ Shown(latest)

PublishedShown == \A r \in Runs : pc[r] \in Published => Shown(work[r].ts)

ResultShown == result.rc = "ok" => result.ts \in Stamps /\ Shown(result.ts)

\* Retention only has to do with what was published.
ChosenWasFinal ==
  /\ \A s \in condemned : snaps[s].dir # "partial"
  /\ \A a \in Actors : /\ \A s \in listed[a] : s \in Finals \/ s \in condemned
                       /\ doomed[a] \subseteq condemned

IInv ==
  /\ ControlInv
  /\ OwnPartialIsSafe
  /\ FreshUntilPartial
  /\ FinalsShown
  /\ LatestShown
  /\ PublishedShown
  /\ ResultShown
  /\ ChosenWasFinal

LEMMA ControlInit == Init => ControlInv
BY TypeInit DEF Init, ControlInv, HoldsLock, HasStamp, NoSecondTry, ReadyToPublish, Actors,
   NoWork

\* A run that returns leaves the lock; no other run is in progress.
LEMMA ReturnControl ==
  ASSUME ControlInv, TypeOK', NEW r \in Runs, pc[r] # "idle", NEW rc, Return(r, rc)
  PROVE  ControlInv'
<1> USE DEF ControlInv
<1>1. /\ pc' = [pc EXCEPT ![r] = "idle"]
      /\ work' = [work EXCEPT ![r] = NoWork]
  BY DEF Return, Goto
<1>2. \A q \in Runs : q # r => pc[q] = "idle"
  BY DEF HoldsLock
<1>3. \A q \in Runs : pc'[q] = "idle"
  BY <1>1, <1>2 DEF TypeOK, Actors
<1>4. HoldsLock' /\ HasStamp' /\ ReadyToPublish'
  BY <1>3 DEF HoldsLock, HasStamp, ReadyToPublish
<1>5. NoSecondTry'
  BY <1>1 DEF NoSecondTry, NoWork, TypeOK
<1> QED BY <1>4, <1>5

\* A run that goes on keeps the lock and its timestamp.
LEMMA GoOnControl ==
  ASSUME ControlInv, TypeOK', NEW r \in Runs, pc[r] # "idle", tlock' = tlock,
         NEW where, pc' = [pc EXCEPT ![r] = where],
         \A q \in Runs : work'[q].ts = work[q].ts /\ ~work'[q].again,
         where = "finalize" => work'[r].folder = 0 /\ ~work'[r].failed
  PROVE  ControlInv'
<1> USE DEF ControlInv
<1>1. \A q \in Runs : q # r => pc[q] = "idle"
  BY DEF HoldsLock
<1>2. \A q \in Runs : q # r => pc'[q] = "idle"
  BY <1>1
<1>3. pc'[r] = where
  BY DEF TypeOK, Actors
<1>4. HoldsLock' /\ HasStamp' /\ NoSecondTry'
  BY <1>2 DEF HoldsLock, HasStamp, NoSecondTry
<1>5. ReadyToPublish'
  BY <1>2, <1>3 DEF ReadyToPublish
<1> QED BY <1>4, <1>5

\* A step that leaves the runs alone.
LEMMA OthersControl ==
  ASSUME ControlInv, TypeOK', UNCHANGED <<tlock, work>>,
         \A r \in Runs : pc'[r] \in {pc[r], "idle"} \/ (pc[r] # "idle" /\ pc'[r] # "finalize")
  PROVE  ControlInv'
BY DEF ControlInv, HoldsLock, HasStamp, NoSecondTry, ReadyToPublish

\* Without exit code 23 the wrapper has three ways to go on.
LEMMA AfterRsyncCases ==
  ASSUME NEW w \in Work, ~w.again, NEW code \in Code, code # "23"
  PROVE  \/ code \in {"0", "24"} /\ AfterRsync(w, code) = NextFolder(w, TRUE)
         \/ AfterRsync(w, code) = NextFolder(w, FALSE)
         \/ AfterRsync(w, code) = [w EXCEPT !.attempt = @ + 1]
BY DEF AfterRsync, Code

LEMMA NextFolderFields ==
  ASSUME NEW w \in Work, NEW ok \in BOOLEAN
  PROVE  /\ NextFolder(w, ok).ts = w.ts
         /\ ~NextFolder(w, ok).again
         /\ NextFolder(w, ok).folder = IF w.folder < NumFolders THEN w.folder + 1 ELSE 0
         /\ NextFolder(w, ok).failed <=> w.failed \/ ~ok
BY DEF NextFolder, Work

LEMMA BackupControl ==
  ASSUME AllIsReadable, ControlInv, TypeOK', NEW r \in Runs, BackupStep(r)
  PROVE  ControlInv'
<1> USE DEF ControlInv
<1>0. work[r] \in Work /\ ~work[r].again /\ \A q \in Runs : ~work[q].again
  BY DEF TypeOK, NoSecondTry
<1>1. CASE ProbeFails(r) \/ PrepareFails(r) \/ TransferFails(r) \/ FinalizeFails(r)
  BY <1>1, ReturnControl DEF ProbeFails, PrepareFails, TransferFails, FinalizeFails
<1>2. CASE RemoteTimesOut(r)
  BY <1>2, ReturnControl DEF RemoteTimesOut
<1>3. CASE ProbeOk(r)
  BY <1>0, <1>3, GoOnControl DEF ProbeOk, Goto
<1>4. CASE CleanPartials(r)
  BY <1>0, <1>4, GoOnControl DEF CleanPartials, Goto
<1>5. CASE MakePartial(r)
  <2>1. \A q \in Runs : work'[q].ts = work[q].ts /\ ~work'[q].again
    BY <1>0, <1>5 DEF MakePartial, TypeOK, Work
  <2> QED BY <1>5, <2>1, GoOnControl DEF MakePartial, Goto
<1>6. ASSUME NEW code \in Code, Rsync(r, code) PROVE ControlInv'
  <2>1. code # "23" /\ pc[r] = "transfer" /\ UNCHANGED <<tlock, pc>>
        /\ work' = [work EXCEPT ![r] = AfterRsync(work[r], code)]
    BY <1>6 DEF Rsync, AllIsReadable
  <2>2. [work[r] EXCEPT !.attempt = @ + 1].ts = work[r].ts
        /\ ~[work[r] EXCEPT !.attempt = @ + 1].again
    BY <1>0 DEF Work
  <2>3. AfterRsync(work[r], code).ts = work[r].ts /\ ~AfterRsync(work[r], code).again
    BY <1>0, <2>1, <2>2, AfterRsyncCases, NextFolderFields
  <2>4. \A q \in Runs : work'[q].ts = work[q].ts /\ ~work'[q].again
    BY <1>0, <2>1, <2>3 DEF TypeOK
  <2>5. pc' = [pc EXCEPT ![r] = "transfer"]
    BY <2>1 DEF TypeOK
  <2> QED BY <2>1, <2>4, <2>5, GoOnControl
<1>7. CASE DiskFull(r)
  <2>1. pc[r] = "transfer" /\ UNCHANGED <<tlock, pc>>
        /\ \/ work' = [work EXCEPT ![r] = [work[r] EXCEPT !.folder = 0, !.failed = TRUE]]
           \/ work' = [work EXCEPT ![r] = NextFolder(work[r], FALSE)]
    BY <1>7 DEF DiskFull
  <2>2. [work[r] EXCEPT !.folder = 0, !.failed = TRUE].ts = work[r].ts
        /\ ~[work[r] EXCEPT !.folder = 0, !.failed = TRUE].again
    BY <1>0 DEF Work
  <2>3. NextFolder(work[r], FALSE).ts = work[r].ts /\ ~NextFolder(work[r], FALSE).again
    BY <1>0, NextFolderFields
  <2>4. \A q \in Runs : work'[q].ts = work[q].ts /\ ~work'[q].again
    BY <1>0, <2>1, <2>2, <2>3 DEF TypeOK
  <2>5. pc' = [pc EXCEPT ![r] = "transfer"]
    BY <2>1 DEF TypeOK
  <2> QED BY <2>1, <2>4, <2>5, GoOnControl
<1>8. CASE GenerateMeta(r)
  BY <1>0, <1>8, GoOnControl DEF GenerateMeta, Goto
<1>9. CASE Finalize(r) \/ UnlinkLatest(r) \/ LinkLatest(r)
  BY <1>0, <1>9, GoOnControl DEF Finalize, UnlinkLatest, LinkLatest, Goto
<1> QED BY <1>1, <1>2, <1>3, <1>4, <1>5, <1>6, <1>7, <1>8, <1>9 DEF BackupStep

LEMMA RetentionControl ==
  ASSUME ControlInv, TypeOK', NEW a \in Actors, RetentionStep(a)
  PROVE  ControlInv'
<1>1. CASE ListSnapshots(a)
  <2>1. a \in Runs => pc[a] # "idle"
    BY <1>1, SnapshotsAssumption DEF ListSnapshots
  <2> QED BY <1>1, <2>1, OthersControl DEF ListSnapshots, Goto, ControlInv, TypeOK, Actors
<1>2. CASE PrefetchPinned(a)
  BY <1>2, OthersControl DEF PrefetchPinned, Goto, ControlInv, TypeOK, Actors
<1>3. CASE DeleteSome(a) \/ DeleteSnapshot(a) \/ DeleteTimesOut(a)
  BY <1>3, OthersControl DEF DeleteSome, DeleteSnapshot, DeleteTimesOut
<1>4. CASE RetentionDone(a)
  <2>1. CASE a \in Runs /\ Return(a, "ok")
    BY <1>4, <2>1, ReturnControl DEF RetentionDone
  <2>2. CASE Goto(a, "idle") /\ UNCHANGED <<tlock, work, result>>
    BY <2>2, OthersControl DEF Goto, ControlInv, TypeOK, Actors
  <2> QED BY <1>4, <2>1, <2>2 DEF RetentionDone
<1> QED BY <1>1, <1>2, <1>3, <1>4 DEF RetentionStep

\* Another run excludes this one from the lock until it returns or is killed.
LEMMA ControlStep ==
  ASSUME AllIsReadable, ControlInv, [Next]_vars, TypeOK'
  PROVE  ControlInv'
<1> USE DEF ControlInv
<1>1. ASSUME NEW r \in Runs, NEW s \in Stamps, Acquire(r, s) PROVE ControlInv'
  <2>1. tlock = NoRun /\ tlock' = r /\ pc' = [pc EXCEPT ![r] = "probe"]
        /\ work' = [work EXCEPT ![r] = [NoWork EXCEPT !.ts = s]]
    BY <1>1 DEF Acquire, Goto
  <2>2. \A q \in Runs : pc[q] = "idle"
    BY <2>1, SnapshotsAssumption DEF HoldsLock
  <2>3. pc'[r] = "probe" /\ \A q \in Runs : q # r => pc'[q] = "idle"
    BY <2>1, <2>2 DEF TypeOK, Actors
  <2>4. work'[r].ts = s /\ \A q \in Runs : ~work'[q].again
    BY <2>1 DEF NoWork, TypeOK, NoSecondTry
  <2> QED BY <2>1, <2>3, <2>4 DEF HoldsLock, HasStamp, NoSecondTry, ReadyToPublish
<1>2. ASSUME NEW r \in Runs, SkipBusy(r) PROVE ControlInv'
  BY <1>2, OthersControl DEF SkipBusy
<1>3. ASSUME NEW r \in Runs, BackupStep(r) PROVE ControlInv'
  BY <1>3, BackupControl
<1>4. ASSUME NEW a \in Actors, RetentionStep(a) PROVE ControlInv'
  BY <1>4, RetentionControl
<1>5. ASSUME NEW a \in Actors, Killed(a) PROVE ControlInv'
  <2>1. /\ pc' = [pc EXCEPT ![a] = "idle"]
        /\ tlock' = IF tlock = a THEN NoRun ELSE tlock
        /\ work' = [r \in Runs |-> IF r = a THEN NoWork ELSE work[r]]
    BY <1>5 DEF Killed, Goto
  <2>2. \A r \in Runs : pc'[r] # "idle" => r # a /\ pc'[r] = pc[r] /\ work'[r] = work[r]
    BY <2>1 DEF TypeOK, Actors
  <2>3. HoldsLock' /\ HasStamp' /\ ReadyToPublish'
    BY <2>1, <2>2 DEF HoldsLock, HasStamp, ReadyToPublish
  <2>4. NoSecondTry'
    BY <2>1 DEF NoSecondTry, NoWork
  <2> QED BY <2>3, <2>4
<1>6. ASSUME NEW s \in Stamps, Pin(s) PROVE ControlInv'
  BY <1>6, OthersControl DEF Pin
<1>7. CASE UNCHANGED vars
  BY <1>7, OthersControl DEF vars
<1> QED BY <1>1, <1>2, <1>3, <1>4, <1>5, <1>6, <1>7 DEF Next

--------------------------------------------------------------------------------
(* What the steps do to the directories. *)

\* A change of the directory of s that leaves what is listed, whole or condemned so.
SafeChange(s) ==
  /\ Shown(s) => Shown(s)'
  /\ snaps'[s].dir = "final" => Shown(s)'
  /\ s \in Finals \/ s \in condemned => s \in Finals' \/ s \in condemned'
  /\ s \in condemned' => snaps'[s].dir # "partial"

\* rm -rf of .partial directories ...
LEMMA CleanIsSafe ==
  ASSUME IInv, NEW gone \in SUBSET Partials, snaps' = Without(gone), condemned' = condemned
  PROVE  \A s \in Stamps : SafeChange(s)
BY DEF IInv, ControlInv, TypeOK, SafeChange, Shown, Whole, Finals, Partials, Without,
       FinalsShown, ChosenWasFinal, NoSnapshot

\* ... and of snapshots a retention chose.
LEMMA DeleteIsSafe ==
  ASSUME IInv, NEW gone \in SUBSET condemned, condemned' = condemned,
         snaps' = Without(gone) \/ \E s \in gone : snaps' = WithHas(s, {})
  PROVE  \A s \in Stamps : SafeChange(s)
<1>1. \A s \in Stamps : s \notin gone => snaps'[s] = snaps[s]
  BY DEF IInv, ControlInv, TypeOK, Without, WithHas
<1>2. \A s \in Stamps : s \in gone => snaps'[s].dir # "partial"
  BY DEF IInv, ControlInv, TypeOK, Snapshot, Without, WithHas, NoSnapshot, ChosenWasFinal
<1> QED BY <1>1, <1>2 DEF IInv, ControlInv, TypeOK, SafeChange, Shown, Whole, Finals,
        FinalsShown, ChosenWasFinal

\* Creating .partial under a timestamp nothing has.
LEMMA MakeIsSafe ==
  ASSUME IInv, NEW t \in Stamps, t \notin condemned, snaps[t].dir = "none",
         snaps' = WithDir(t, "partial"), condemned' = condemned
  PROVE  \A s \in Stamps : SafeChange(s)
<1>1. \A s \in Stamps : s # t => snaps'[s] = snaps[s]
  BY DEF IInv, ControlInv, TypeOK, WithDir
<1>2. snaps'[t].dir = "partial"
  BY DEF IInv, ControlInv, TypeOK, Snapshot, WithDir
<1> QED BY <1>1, <1>2 DEF IInv, ControlInv, TypeOK, SafeChange, Shown, Whole, Finals,
        FinalsShown, ChosenWasFinal

\* Writing into a .partial.
LEMMA FillIsSafe ==
  ASSUME IInv, NEW t \in Stamps, snaps[t].dir = "partial", NEW has,
         snaps' = WithHas(t, has), condemned' = condemned
  PROVE  \A s \in Stamps : SafeChange(s)
<1>1. \A s \in Stamps : s # t => snaps'[s] = snaps[s]
  BY DEF IInv, ControlInv, TypeOK, WithHas
<1>2. snaps'[t].dir = "partial"
  BY DEF IInv, ControlInv, TypeOK, Snapshot, WithHas
<1> QED BY <1>1, <1>2 DEF IInv, ControlInv, TypeOK, SafeChange, Shown, Whole, Finals,
        FinalsShown, ChosenWasFinal

\* Writing meta.json.
LEMMA MetaIsSafe ==
  ASSUME IInv, NEW t \in Stamps, NEW meta, snaps' = WithMeta(t, meta),
         condemned' = condemned
  PROVE  \A s \in Stamps : SafeChange(s)
<1>1. \A s \in Stamps : snaps'[s].dir = snaps[s].dir /\ snaps'[s].has = snaps[s].has
  BY DEF IInv, ControlInv, TypeOK, Snapshot, WithMeta
<1> QED BY <1>1 DEF IInv, ControlInv, TypeOK, SafeChange, Shown, Whole, Finals,
        FinalsShown, ChosenWasFinal

\* The rename of a complete .partial.
LEMMA PublishIsSafe ==
  ASSUME IInv, NEW t \in Stamps, snaps[t].dir = "partial", snaps[t].has = Folders,
         snaps' = WithDir(t, "final"), condemned' = condemned
  PROVE  (\A s \in Stamps : SafeChange(s)) /\ Whole(t)'
<1>1. \A s \in Stamps : s # t => snaps'[s] = snaps[s]
  BY DEF IInv, ControlInv, TypeOK, WithDir
<1>2. snaps'[t].dir = "final" /\ snaps'[t].has = Folders
  BY DEF IInv, ControlInv, TypeOK, Snapshot, WithDir
<1> QED BY <1>1, <1>2 DEF IInv, ControlInv, TypeOK, SafeChange, Shown, Whole, Finals,
        FinalsShown, ChosenWasFinal

LEMMA NothingIsSafe ==
  ASSUME IInv, snaps' = snaps, condemned' = condemned
  PROVE  \A s \in Stamps : SafeChange(s)
BY DEF IInv, ControlInv, TypeOK, SafeChange, Shown, Whole, Finals, FinalsShown,
       ChosenWasFinal

\* After safe changes the destination is in order.
LEMMA DestinationStep ==
  ASSUME IInv, TypeOK', \A s \in Stamps : SafeChange(s),
         latest' = latest \/ latest' = 0 \/ \E s \in Stamps : latest' = s /\ Shown(s)',
         \/ result' = result
         \/ result'.rc # "ok"
         \/ \E s \in Stamps : result'.ts = s /\ Shown(s)',
         \A a \in Actors : /\ \/ listed'[a] \subseteq listed[a]
                              \/ listed'[a] \subseteq Finals
                           /\ doomed'[a] \subseteq doomed[a] \union condemned',
         condemned \subseteq condemned'
  PROVE  FinalsShown' /\ LatestShown' /\ ResultShown' /\ ChosenWasFinal'
<1> USE DEF IInv
<1>1. FinalsShown'
  BY DEF FinalsShown, Finals, SafeChange
<1>2. LatestShown'
  <2>1. CASE latest' = latest
    BY <2>1 DEF LatestShown, SafeChange, Shown, Whole
  <2>2. CASE latest' = 0
    BY <2>2 DEF LatestShown
  <2>3. ASSUME NEW s \in Stamps, latest' = s, Shown(s)' PROVE LatestShown'
    BY <2>3 DEF LatestShown, Shown, Whole
  <2> QED BY <2>1, <2>2, <2>3
<1>3. ResultShown'
  <2>1. ASSUME NEW s \in Stamps, result'.ts = s, Shown(s)' PROVE ResultShown'
    BY <2>1 DEF ResultShown, Shown, Whole
  <2>2. CASE result' = result /\ result.rc = "ok"
    <3>1. result.ts \in Stamps /\ Shown(result.ts)
      BY <2>2 DEF ResultShown
    <3>2. Shown(result.ts)'
      BY <2>2, <3>1 DEF SafeChange, Shown, Whole
    <3> QED BY <2>2, <3>1, <3>2 DEF ResultShown
  <2>3. CASE result'.rc # "ok"
    BY <2>3 DEF ResultShown
  <2> QED BY <2>1, <2>2, <2>3
<1>4. \A s \in condemned' : snaps'[s].dir # "partial"
  BY DEF SafeChange, ControlInv, TypeOK
<1>5. ASSUME NEW a \in Actors
      PROVE  /\ \A s \in listed'[a] : s \in Finals' \/ s \in condemned'
             /\ doomed'[a] \subseteq condemned'
  BY DEF SafeChange, ChosenWasFinal, ControlInv, TypeOK, Finals
<1> QED BY <1>1, <1>2, <1>3, <1>4, <1>5 DEF ChosenWasFinal

--------------------------------------------------------------------------------
(* What the steps do to the run in progress. *)

\* What OwnPartialIsSafe, FreshUntilPartial and PublishedShown say of one run.
RunOk(r) ==
  /\ pc[r] \in Early =>
       snaps[work[r].ts].dir = "none" /\ snaps[work[r].ts].has = {}
       /\ work[r].ts \notin condemned
  /\ pc[r] \in {"transfer", "finalize"} =>
       /\ snaps[work[r].ts].dir = "partial"
       /\ ~work[r].failed => {f \in Folders : work[r].folder = 0 \/ f < work[r].folder}
                                \subseteq snaps[work[r].ts].has
  /\ pc[r] \in Published => Shown(work[r].ts)

RunsOk == \A r \in Runs : RunOk(r)

LEMMA RunsOkParts == RunsOk <=> OwnPartialIsSafe /\ FreshUntilPartial /\ PublishedShown
BY DEF RunsOk, RunOk, OwnPartialIsSafe, FreshUntilPartial, PublishedShown

\* What is not published yet stays as it is.
Untouched(s) ==
  snaps[s].dir # "final" /\ s \notin condemned =>
    snaps'[s].dir = snaps[s].dir /\ snaps'[s].has = snaps[s].has /\ s \notin condemned'

\* A run whose directory is not touched goes on in the same phase, or ends.
LEMMA BystanderStep ==
  ASSUME IInv, NEW r \in Runs, \A s \in Stamps : SafeChange(s) /\ Untouched(s),
         \/ pc'[r] = "idle"
         \/ /\ work'[r] = work[r]
            /\ \/ pc'[r] = pc[r]
               \/ pc[r] \in Early /\ pc'[r] \in Early
               \/ pc[r] \in Published /\ pc'[r] \in Published
  PROVE  RunOk(r)'
<1>1. CASE pc'[r] = "idle"
  BY <1>1 DEF RunOk, Early, Published
<1>2. CASE /\ pc'[r] # "idle" /\ work'[r] = work[r]
           /\ \/ pc'[r] = pc[r]
              \/ pc[r] \in Early /\ pc'[r] \in Early
              \/ pc[r] \in Published /\ pc'[r] \in Published
  <2>1. pc[r] # "idle" /\ work[r].ts \in Stamps
    BY <1>2 DEF IInv, ControlInv, HasStamp, Early, Published
  <2>2. SafeChange(work[r].ts) /\ Untouched(work[r].ts)
    BY <2>1
  <2>3. CASE pc'[r] \in Early
    <3>1. /\ snaps[work[r].ts].dir = "none" /\ snaps[work[r].ts].has = {}
          /\ work[r].ts \notin condemned
      BY <1>2, <2>3 DEF IInv, FreshUntilPartial, Early, Published
    <3> QED BY <1>2, <2>2, <2>3, <3>1 DEF RunOk, Untouched, Early, Published
  <2>4. CASE pc'[r] \in {"transfer", "finalize"}
    <3>1. /\ snaps[work[r].ts].dir = "partial"
          /\ ~work[r].failed => {f \in Folders : work[r].folder = 0 \/ f < work[r].folder}
                                   \subseteq snaps[work[r].ts].has
      BY <1>2, <2>4 DEF IInv, OwnPartialIsSafe, Early, Published
    <3>2. work[r].ts \notin condemned
      BY <2>1, <3>1 DEF IInv, ChosenWasFinal
    <3> QED BY <1>2, <2>2, <2>4, <3>1, <3>2 DEF RunOk, Untouched, Early, Published
  <2>5. CASE pc'[r] \in Published
    <3>1. Shown(work[r].ts)
      BY <1>2, <2>5 DEF IInv, PublishedShown, Early, Published
    <3> QED BY <1>2, <2>2, <2>5, <3>1 DEF RunOk, SafeChange, Shown, Whole, Early, Published
  <2> QED BY <2>3, <2>4, <2>5 DEF RunOk
<1> QED BY <1>1, <1>2

\* The other runs are idle while one is in progress.
LEMMA OneRunStep ==
  ASSUME ControlInv', NEW r \in Runs, pc'[r] # "idle", RunOk(r)'
  PROVE  RunsOk'
<1>1. \A q \in Runs : q # r => pc'[q] = "idle"
  BY DEF ControlInv, HoldsLock
<1> QED BY <1>1 DEF RunsOk, RunOk, Early, Published

\* After the last run has returned nothing is left to be said.
LEMMA NoRunStep ==
  ASSUME ControlInv, NEW r \in Runs, pc[r] # "idle", pc' = [pc EXCEPT ![r] = "idle"]
  PROVE  RunsOk'
<1>1. \A q \in Runs : q # r => pc[q] = "idle"
  BY DEF ControlInv, HoldsLock
<1>2. \A q \in Runs : pc'[q] = "idle"
  BY <1>1 DEF ControlInv, TypeOK, Actors
<1> QED BY <1>2 DEF RunsOk, RunOk, Early, Published

LEMMA IInvParts ==
  ASSUME ControlInv', FinalsShown', LatestShown', ResultShown', ChosenWasFinal', RunsOk'
  PROVE  IInv'
BY DEF IInv, RunsOk, RunOk, OwnPartialIsSafe, FreshUntilPartial, PublishedShown

\* A step of a run that is still before its retention.
LEMMA BackupStepInv ==
  ASSUME IInv, TypeOK', ControlInv', NEW r \in Runs, \A s \in Stamps : SafeChange(s),
         RunsOk', UNCHANGED retentionVars,
         \/ latest' = latest
         \/ latest' = 0
         \/ pc[r] = "link" /\ latest' = work[r].ts,
         result' = result \/ result'.rc # "ok"
  PROVE  IInv'
<1>1. pc[r] = "link" => work[r].ts \in Stamps /\ Shown(work[r].ts)
  BY DEF IInv, ControlInv, HasStamp, PublishedShown, Published
<1>2. latest' = latest \/ latest' = 0 \/ \E s \in Stamps : latest' = s /\ Shown(s)'
  BY <1>1 DEF SafeChange
<1>3. \A a \in Actors : /\ listed'[a] \subseteq listed[a]
                       /\ doomed'[a] \subseteq doomed[a] \union condemned'
  BY DEF retentionVars
<1>4. condemned \subseteq condemned'
  BY DEF retentionVars
<1>5. FinalsShown' /\ LatestShown' /\ ResultShown' /\ ChosenWasFinal'
  BY <1>2, <1>3, <1>4, DestinationStep
<1> QED BY <1>5, IInvParts

\* Where a run is, and what that says of its directory.
LEMMA OwnDirectory ==
  ASSUME IInv, NEW r \in Runs, pc[r] # "idle"
  PROVE  /\ work[r] \in Work /\ work[r].ts \in Stamps
         /\ snaps[work[r].ts] \in Snapshot
         /\ ~work[r].again
         /\ pc[r] \in Early =>
              snaps[work[r].ts].dir = "none" /\ snaps[work[r].ts].has = {}
              /\ work[r].ts \notin condemned
         /\ pc[r] \in {"transfer", "finalize"} =>
              /\ snaps[work[r].ts].dir = "partial"
              /\ work[r].ts \notin condemned
              /\ ~work[r].failed => {f \in Folders : work[r].folder = 0 \/ f < work[r].folder}
                                       \subseteq snaps[work[r].ts].has
         /\ pc[r] = "finalize" => snaps[work[r].ts].has = Folders
<1>1. work[r] \in Work /\ work[r].ts \in Stamps /\ ~work[r].again
  BY DEF IInv, ControlInv, TypeOK, HasStamp, NoSecondTry
<1>2. snaps[work[r].ts] \in Snapshot
  BY <1>1 DEF IInv, ControlInv, TypeOK
<1>3. pc[r] \in Early => snaps[work[r].ts].dir = "none" /\ snaps[work[r].ts].has = {}
                         /\ work[r].ts \notin condemned
  BY DEF IInv, FreshUntilPartial
<1>4. pc[r] \in {"transfer", "finalize"} =>
        /\ snaps[work[r].ts].dir = "partial"
        /\ ~work[r].failed => {f \in Folders : work[r].folder = 0 \/ f < work[r].folder}
                                 \subseteq snaps[work[r].ts].has
  BY DEF IInv, OwnPartialIsSafe
<1>5. pc[r] \in {"transfer", "finalize"} => work[r].ts \notin condemned
  BY <1>1, <1>4 DEF IInv, ChosenWasFinal
<1>6. pc[r] = "finalize" => snaps[work[r].ts].has = Folders
  BY <1>2, <1>4 DEF IInv, ControlInv, ReadyToPublish, Snapshot
<1> QED BY <1>1, <1>2, <1>3, <1>4, <1>5, <1>6

\* What a remote command does is safe, whether or not it is waited for.
LEMMA EffectIsSafe ==
  ASSUME IInv, NEW r \in Runs, pc[r] # "idle", snaps' = Effect(r), condemned' = condemned
  PROVE  \A s \in Stamps : SafeChange(s)
<1>1. CASE pc[r] = "clean"
  BY <1>1, CleanIsSafe DEF Effect
<1>2. CASE pc[r] = "prepare"
  BY <1>2, OwnDirectory, MakeIsSafe DEF Effect, Early
<1>3. CASE pc[r] = "transfer"
  BY <1>3, OwnDirectory, MetaIsSafe DEF Effect
<1>4. CASE pc[r] = "finalize"
  BY <1>4, OwnDirectory, PublishIsSafe DEF Effect
<1>5. CASE pc[r] \notin {"clean", "prepare", "transfer", "finalize"}
  BY <1>5, NothingIsSafe DEF Effect
<1> QED BY <1>1, <1>2, <1>3, <1>4, <1>5

\* A backup that fails.
LEMMA FailureInv ==
  ASSUME IInv, TypeOK', ControlInv', NEW r \in Runs, pc[r] # "idle", Return(r, "failed"),
         \A s \in Stamps : SafeChange(s), UNCHANGED retentionVars,
         latest' = latest \/ (pc[r] = "link" /\ latest' = work[r].ts)
  PROVE  IInv'
<1>1. RunsOk'
  BY NoRunStep DEF Return, Goto, IInv
<1>2. result'.rc # "ok"
  BY DEF Return
<1> QED BY <1>1, <1>2, BackupStepInv

\* A run that goes on and leaves the directories alone.
LEMMA GoOnInv ==
  ASSUME IInv, TypeOK', ControlInv', NEW r \in Runs, UNCHANGED <<snaps, work, retentionVars>>,
         NEW where, pc' = [pc EXCEPT ![r] = where],
         \/ pc[r] \in Early /\ where \in Early
         \/ pc[r] \in Published /\ where \in Published,
         \/ latest' = latest
         \/ latest' = 0
         \/ pc[r] = "link" /\ latest' = work[r].ts,
         result' = result
  PROVE  IInv'
<1>1. condemned' = condemned
  BY DEF retentionVars
<1>2. \A s \in Stamps : SafeChange(s)
  BY <1>1, NothingIsSafe
<1>3. \A s \in Stamps : Untouched(s)
  BY <1>1 DEF Untouched
<1>4. pc'[r] = where
  BY DEF IInv, ControlInv, TypeOK, Actors
<1>5. RunOk(r)'
  BY <1>2, <1>3, <1>4, BystanderStep
<1>6. RunsOk'
  BY <1>4, <1>5, OneRunStep DEF Early, Published
<1> QED BY <1>2, <1>6, BackupStepInv

\* rsync of one folder: what is complete stays complete, and the wrapper goes on to
\* the next folder only with this one complete or the transfer failed.
LEMMA RsyncInv ==
  ASSUME AllIsReadable, IInv, TypeOK', ControlInv', NEW r \in Runs, NEW code \in Code,
         Rsync(r, code)
  PROVE  IInv'
<1> DEFINE w == work[r]
           next == AfterRsync(w, code)
<1>1. pc[r] = "transfer" /\ w.folder # 0 /\ code # "23"
      /\ UNCHANGED <<latest, pc, result, retentionVars>>
      /\ work' = [work EXCEPT ![r] = next]
  BY DEF Rsync, AllIsReadable
<1>2. /\ w \in Work /\ w.ts \in Stamps /\ ~w.again /\ snaps[w.ts] \in Snapshot
      /\ snaps[w.ts].dir = "partial"
      /\ ~w.failed => {f \in Folders : w.folder = 0 \/ f < w.folder} \subseteq snaps[w.ts].has
  BY <1>1, OwnDirectory
<1>3. snaps' = WithHas(w.ts, Received(w, code))
  <2>1. snaps' = WithFolders(w.ts, Received(w, code)) /\ snaps \in [Stamps -> Snapshot]
    BY DEF Rsync, IInv, ControlInv, TypeOK
  <2> QED BY <1>2, <2>1 DEF WithFolders, WithHas, Snapshot
<1>4. \A s \in Stamps : SafeChange(s)
  BY <1>1, <1>2, <1>3, FillIsSafe DEF retentionVars
<1>5. snaps'[w.ts].dir = "partial" /\ snaps'[w.ts].has = Received(w, code)
  BY <1>2, <1>3 DEF WithHas, Snapshot, IInv, ControlInv, TypeOK
<1>6. next.ts = w.ts
  BY <1>1, <1>2, AfterRsyncType
<1>7. ~next.failed => {f \in Folders : next.folder = 0 \/ f < next.folder}
                         \subseteq Received(w, code)
  <2>1. CASE code \in {"0", "24"} /\ next = NextFolder(w, TRUE)
    <3>0. /\ NextFolder(w, TRUE).folder = IF w.folder < NumFolders THEN w.folder + 1 ELSE 0
          /\ NextFolder(w, TRUE).failed <=> w.failed
      BY <1>2, NextFolderFields
    <3>1. /\ next.folder = IF w.folder < NumFolders THEN w.folder + 1 ELSE 0
          /\ next.failed <=> w.failed
      BY <2>1, <3>0, Zenon
    <3>2. Received(w, code) = snaps[w.ts].has \union {w.folder}
      BY <2>1 DEF Received
    <3>3. w.folder \in Nat /\ NumFolders \in Nat /\ w.folder <= NumFolders
      BY <1>2, SnapshotsAssumption DEF Work
    <3>4. \A f \in Folders : f \in Nat /\ f <= NumFolders
      BY <3>3 DEF Folders
    <3>5. \A f \in Folders : next.folder = 0 \/ f < next.folder => f < w.folder \/ f = w.folder
      BY <1>1, <3>1, <3>3, <3>4
    <3> QED BY <1>2, <3>1, <3>2, <3>5
  <2>2. CASE next = NextFolder(w, FALSE)
    <3>1. NextFolder(w, FALSE).failed
      BY <1>2, NextFolderFields
    <3> QED BY <2>2, <3>1, Zenon
  <2>3. CASE next = [w EXCEPT !.attempt = @ + 1]
    <3>1. next.folder = w.folder /\ next.failed = w.failed
      BY <1>2, <2>3 DEF Work
    <3> QED BY <1>2, <3>1 DEF Received
  <2> QED BY <1>1, <1>2, <2>1, <2>2, <2>3, AfterRsyncCases
<1> HIDE DEF next
<1>8. RunOk(r)'
  <2>1. work'[r] = next /\ pc'[r] = "transfer"
    BY <1>1 DEF IInv, ControlInv, TypeOK
  <2> QED BY <1>5, <1>6, <1>7, <2>1 DEF RunOk, Early, Published
<1>9. RunsOk'
  BY <1>1, <1>8, OneRunStep
<1> QED BY <1>1, <1>4, <1>9, BackupStepInv

\* A step of a backup run, or of the destination under it.
LEMMA BackupInv ==
  ASSUME AllIsReadable, IInv, TypeOK', ControlInv', NEW r \in Runs, BackupStep(r)
  PROVE  IInv'
<1>1. CASE ProbeFails(r) \/ PrepareFails(r) \/ TransferFails(r) \/ FinalizeFails(r)
  <2>1. pc[r] # "idle" /\ Return(r, "failed") /\ UNCHANGED <<snaps, latest, retentionVars>>
    BY <1>1 DEF ProbeFails, PrepareFails, TransferFails, FinalizeFails
  <2>2. \A s \in Stamps : SafeChange(s)
    BY <2>1, NothingIsSafe DEF retentionVars
  <2> QED BY <2>1, <2>2, FailureInv
<1>2. CASE RemoteTimesOut(r)
  <2>1. /\ pc[r] # "idle" /\ Return(r, "failed") /\ UNCHANGED retentionVars
        /\ snaps' = snaps \/ snaps' = Effect(r)
        /\ latest' = latest \/ (pc[r] = "link" /\ latest' = work[r].ts)
    BY <1>2 DEF RemoteTimesOut
  <2>2. \A s \in Stamps : SafeChange(s)
    BY <2>1, NothingIsSafe, EffectIsSafe DEF retentionVars
  <2> QED BY <2>1, <2>2, FailureInv
<1>3. CASE ProbeOk(r)
  BY <1>3, GoOnInv DEF ProbeOk, Goto, Early
<1>4. CASE CleanPartials(r)
  <2>1. PICK gone \in SUBSET Partials : snaps' = Without(gone)
    BY <1>4 DEF CleanPartials
  <2>2. pc[r] = "clean" /\ pc' = [pc EXCEPT ![r] = "prepare"]
        /\ UNCHANGED <<latest, work, result, retentionVars>>
    BY <1>4 DEF CleanPartials, Goto
  <2>3. \A s \in Stamps : SafeChange(s)
    BY <2>1, <2>2, CleanIsSafe DEF retentionVars
  <2>4. work[r].ts \in Stamps /\ snaps[work[r].ts].dir = "none"
        /\ snaps[work[r].ts].has = {} /\ work[r].ts \notin condemned
    BY <2>2, OwnDirectory DEF Early
  <2>5. snaps'[work[r].ts] = snaps[work[r].ts]
    BY <2>1, <2>4 DEF Without, Partials
  <2>6. pc'[r] = "prepare"
    BY <2>2 DEF IInv, ControlInv, TypeOK, Actors
  <2>7. RunOk(r)'
    BY <2>2, <2>4, <2>5, <2>6 DEF RunOk, Published, retentionVars
  <2> QED BY <2>2, <2>3, <2>6, <2>7, OneRunStep, BackupStepInv
<1>5. CASE MakePartial(r)
  <2>1. pc[r] = "prepare" /\ pc' = [pc EXCEPT ![r] = "transfer"]
        /\ snaps' = WithDir(work[r].ts, "partial")
        /\ work' = [work EXCEPT ![r].folder = 1]
        /\ UNCHANGED <<latest, result, retentionVars>>
    BY <1>5 DEF MakePartial, Goto
  <2>2. work[r] \in Work /\ work[r].ts \in Stamps /\ snaps[work[r].ts] \in Snapshot
        /\ snaps[work[r].ts].dir = "none" /\ work[r].ts \notin condemned
    BY <2>1, OwnDirectory DEF Early
  <2>3. \A s \in Stamps : SafeChange(s)
    BY <2>1, <2>2, MakeIsSafe DEF retentionVars
  <2>4. snaps'[work[r].ts].dir = "partial"
    BY <2>1, <2>2 DEF WithDir, Snapshot, IInv, ControlInv, TypeOK
  <2>5. pc'[r] = "transfer" /\ work'[r].ts = work[r].ts /\ work'[r].folder = 1
    BY <2>1, <2>2 DEF Work, IInv, ControlInv, TypeOK, Actors
  <2>6. {f \in Folders : 1 = 0 \/ f < 1} = {}
    BY SnapshotsAssumption DEF Folders
  <2>7. RunOk(r)'
    BY <2>4, <2>5, <2>6 DEF RunOk, Early, Published
  <2> QED BY <2>1, <2>3, <2>5, <2>7, OneRunStep, BackupStepInv
<1>6. ASSUME NEW code \in Code, Rsync(r, code) PROVE IInv'
  BY <1>6, RsyncInv
<1>7. CASE DiskFull(r)
  <2>1. pc[r] = "transfer" /\ UNCHANGED <<snaps, latest, pc, result, retentionVars>>
        /\ \/ work' = [work EXCEPT ![r] = [work[r] EXCEPT !.folder = 0, !.failed = TRUE]]
           \/ work' = [work EXCEPT ![r] = NextFolder(work[r], FALSE)]
    BY <1>7 DEF DiskFull
  <2>2. work[r] \in Work /\ snaps[work[r].ts].dir = "partial"
    BY <2>1, OwnDirectory
  <2>3. [work[r] EXCEPT !.folder = 0, !.failed = TRUE].ts = work[r].ts
        /\ [work[r] EXCEPT !.folder = 0, !.failed = TRUE].failed
    BY <2>2 DEF Work
  <2>4. NextFolder(work[r], FALSE).ts = work[r].ts /\ NextFolder(work[r], FALSE).failed
    BY <2>2, NextFolderFields
  <2>5. work'[r].ts = work[r].ts /\ work'[r].failed
    BY <2>1, <2>3, <2>4 DEF IInv, ControlInv, TypeOK
  <2>6. \A s \in Stamps : SafeChange(s)
    BY <2>1, NothingIsSafe DEF retentionVars
  <2>7. RunOk(r)'
    BY <2>1, <2>2, <2>5 DEF RunOk, Early, Published
  <2> QED BY <2>1, <2>6, <2>7, OneRunStep, BackupStepInv
<1>8. CASE GenerateMeta(r)
  <2>1. PICK meta \in {"plain", "none"} : snaps' = WithMeta(work[r].ts, meta)
    BY <1>8 DEF GenerateMeta
  <2>2. pc[r] = "transfer" /\ pc' = [pc EXCEPT ![r] = "finalize"]
        /\ UNCHANGED <<latest, work, result, retentionVars>>
    BY <1>8 DEF GenerateMeta, Goto
  <2>3. /\ work[r].ts \in Stamps /\ snaps[work[r].ts].dir = "partial"
        /\ ~work[r].failed => {f \in Folders : work[r].folder = 0 \/ f < work[r].folder}
                                 \subseteq snaps[work[r].ts].has
    BY <2>2, OwnDirectory
  <2>4. \A s \in Stamps : SafeChange(s)
    BY <2>1, <2>2, <2>3, MetaIsSafe DEF retentionVars
  <2>5. snaps'[work[r].ts].dir = snaps[work[r].ts].dir
        /\ snaps'[work[r].ts].has = snaps[work[r].ts].has
    BY <2>1, <2>3 DEF WithMeta, Snapshot, IInv, ControlInv, TypeOK
  <2>6. pc'[r] = "finalize"
    BY <2>2 DEF IInv, ControlInv, TypeOK, Actors
  <2>7. RunOk(r)'
    BY <2>2, <2>3, <2>5, <2>6 DEF RunOk, Early, Published
  <2> QED BY <2>2, <2>4, <2>6, <2>7, OneRunStep, BackupStepInv
<1>9. CASE Finalize(r)
  <2>1. pc[r] = "finalize" /\ pc' = [pc EXCEPT ![r] = "unlink"]
        /\ snaps' = WithDir(work[r].ts, "final")
        /\ UNCHANGED <<latest, work, result, retentionVars>>
    BY <1>9 DEF Finalize, Goto
  <2>2. work[r].ts \in Stamps /\ snaps[work[r].ts].dir = "partial"
        /\ snaps[work[r].ts].has = Folders
    BY <2>1, OwnDirectory
  <2>3. (\A s \in Stamps : SafeChange(s)) /\ Whole(work[r].ts)'
    BY <2>1, <2>2, PublishIsSafe DEF retentionVars, Whole
  <2>4. pc'[r] = "unlink"
    BY <2>1 DEF IInv, ControlInv, TypeOK, Actors
  <2>5. RunOk(r)'
    BY <2>1, <2>3, <2>4 DEF RunOk, Shown, Early
  <2> QED BY <2>1, <2>3, <2>4, <2>5, OneRunStep, BackupStepInv
<1>10. CASE UnlinkLatest(r)
  BY <1>10, GoOnInv DEF UnlinkLatest, Goto, Published
<1>11. CASE LinkLatest(r)
  BY <1>11, GoOnInv DEF LinkLatest, Goto, Published
<1> QED BY <1>1, <1>2, <1>3, <1>4, <1>5, <1>6, <1>7, <1>8, <1>9, <1>10, <1>11
        DEF BackupStep

--------------------------------------------------------------------------------
(* The steps of a retention. *)

\* Of some timestamps one is the newest.
LEMMA LatestIsOne ==
  ASSUME NEW S \in SUBSET Stamps, S # {}
  PROVE  Latest(S) \in S /\ \A t \in S : t <= Latest(S)
<1> DEFINE age(s) == NumStamps - s
           ages == {age(s) : s \in S}
           younger == OpToRel(<, Nat)
<1>1. \A s \in Stamps : s \in Nat /\ age(s) \in Nat
  BY SnapshotsAssumption DEF Stamps
<1>2. PICK x \in ages : \A y \in ages : <<y, x>> \notin younger
  <2>1. IsWellFoundedOn(younger, Nat)
    BY NatLessThanWellFounded
  <2>2. ages \subseteq Nat /\ ages # {}
    BY <1>1
  <2> HIDE DEF ages, younger
  <2> QED BY <2>1, <2>2, WFMin
<1>3. PICK s \in S : x = age(s)
  BY <1>2
<1>4. \A t \in S : ~(age(t) < age(s))
  BY <1>1, <1>2, <1>3 DEF OpToRel
<1>5. \A t \in S : t <= s
  BY <1>1, <1>3, <1>4, SnapshotsAssumption
<1> HIDE DEF age, ages, younger
<1> QED BY <1>3, <1>5 DEF Latest

\* A step that does not touch what is not published yet.
LEMMA OthersInv ==
  ASSUME IInv, TypeOK', ControlInv', \A s \in Stamps : SafeChange(s) /\ Untouched(s),
         latest' = latest,
         \/ result' = result
         \/ result'.rc # "ok"
         \/ \E s \in Stamps : result'.ts = s /\ Shown(s)',
         \A a \in Actors : /\ \/ listed'[a] \subseteq listed[a]
                              \/ listed'[a] \subseteq Finals
                           /\ doomed'[a] \subseteq doomed[a] \union condemned',
         condemned \subseteq condemned',
         \A r \in Runs : \/ pc'[r] = "idle"
                         \/ /\ work'[r] = work[r]
                            /\ \/ pc'[r] = pc[r]
                               \/ pc[r] \in Published /\ pc'[r] \in Published
  PROVE  IInv'
<1>1. FinalsShown' /\ LatestShown' /\ ResultShown' /\ ChosenWasFinal'
  BY DestinationStep
<1>2. \A r \in Runs : RunOk(r)'
  BY BystanderStep
<1>3. RunsOk'
  BY <1>2 DEF RunsOk
<1> QED BY <1>1, <1>3, IInvParts

\* Deleting what a retention chose.
LEMMA DeleteInv ==
  ASSUME IInv, TypeOK', ControlInv', NEW gone \in SUBSET condemned,
         \/ snaps' = snaps
         \/ snaps' = Without(gone)
         \/ \E s \in gone : snaps' = WithHas(s, {}),
         UNCHANGED <<latest, pc, work, result, listed, condemned>>,
         \A a \in Actors : doomed'[a] \subseteq doomed[a]
  PROVE  IInv'
<1>1. \A s \in Stamps : SafeChange(s)
  BY NothingIsSafe, DeleteIsSafe
<1>2. \A s \in Stamps : s \notin gone => snaps'[s] = snaps[s]
  BY DEF Without, WithHas, IInv, ControlInv, TypeOK
<1>3. \A s \in Stamps : Untouched(s)
  BY <1>2 DEF Untouched
<1> QED BY <1>1, <1>3, OthersInv

LEMMA RetentionInv ==
  ASSUME IInv, TypeOK', ControlInv', NEW a \in Actors, RetentionStep(a)
  PROVE  IInv'
<1> USE DEF IInv, ControlInv, TypeOK
<1>1. CASE ListSnapshots(a)
  <2>1. /\ pc' = [pc EXCEPT ![a] = "pins"]
        /\ a \in Runs => pc[a] = "retain"
        /\ UNCHANGED <<snaps, latest, work, result, doomed, condemned>>
    BY <1>1, SnapshotsAssumption DEF ListSnapshots, Goto
  <2>2. \A b \in Actors : listed'[b] \subseteq listed[b] \/ listed'[b] \subseteq Finals
    BY <1>1 DEF ListSnapshots
  <2>3. \A s \in Stamps : SafeChange(s) /\ Untouched(s)
    BY <2>1, NothingIsSafe DEF Untouched
  <2>4. ASSUME NEW r \in Runs
        PROVE  pc'[r] = pc[r] \/ (pc[r] \in Published /\ pc'[r] \in Published)
    <3>1. CASE r = a
      <4>1. pc[r] = "retain" /\ pc'[r] = "pins"
        BY <2>1, <3>1
      <4> QED BY <4>1 DEF Published
    <3>2. CASE r # a
      BY <2>1, <3>2
    <3> QED BY <3>1, <3>2
  <2> QED BY <2>1, <2>2, <2>3, <2>4, OthersInv
<1>2. CASE PrefetchPinned(a)
  <2>1. PICK pins \in {Pinned} \union {{}} :
          /\ doomed' = [doomed EXCEPT ![a] = Excess(listed[a], pins, Keep[a])]
          /\ condemned' = condemned \union Excess(listed[a], pins, Keep[a])
    BY <1>2 DEF PrefetchPinned
  <2>2. /\ pc[a] = "pins" /\ pc' = [pc EXCEPT ![a] = "prune"]
        /\ listed' = [listed EXCEPT ![a] = {}]
        /\ UNCHANGED <<snaps, latest, work, result>>
    BY <1>2 DEF PrefetchPinned, Goto
  <2>3. \A s \in Excess(listed[a], pins, Keep[a]) : s \in Finals \/ s \in condemned
    BY DEF Excess, ChosenWasFinal
  <2>4. \A s \in Stamps : Untouched(s)
    BY <2>1, <2>2, <2>3 DEF Untouched, Finals
  <2>5. \A s \in Stamps : SafeChange(s)
    BY <2>1, <2>2, <2>3 DEF SafeChange, Shown, Whole, Finals, FinalsShown, ChosenWasFinal
  <2>6. ASSUME NEW r \in Runs
        PROVE  pc'[r] = pc[r] \/ (pc[r] \in Published /\ pc'[r] \in Published)
    <3>1. CASE r = a
      <4>1. pc[r] = "pins" /\ pc'[r] = "prune"
        BY <2>2, <3>1
      <4> QED BY <4>1 DEF Published
    <3>2. CASE r # a
      BY <2>2, <3>2
    <3> QED BY <3>1, <3>2
  <2>7. \A b \in Actors : /\ listed'[b] \subseteq listed[b]
                          /\ doomed'[b] \subseteq doomed[b] \union condemned'
    BY <2>1, <2>2
  <2>8. condemned \subseteq condemned'
    BY <2>1
  <2> QED BY <2>2, <2>4, <2>5, <2>6, <2>7, <2>8, OthersInv
<1>3. CASE DeleteSome(a) \/ DeleteSnapshot(a) \/ DeleteTimesOut(a)
  <2> DEFINE s == Latest(doomed[a])
  <2>1. s \in condemned
    BY <1>3, LatestIsOne DEF DeleteSome, DeleteSnapshot, DeleteTimesOut, ChosenWasFinal
  <2>2. snaps' = snaps \/ snaps' = Without({s}) \/ \E t \in {s} : snaps' = WithHas(t, {})
    BY <1>3 DEF DeleteSome, DeleteSnapshot, DeleteTimesOut
  <2>3. UNCHANGED <<latest, pc, work, result, listed, condemned>>
    BY <1>3 DEF DeleteSome, DeleteSnapshot, DeleteTimesOut, retentionVars
  <2>4. \A b \in Actors : doomed'[b] \subseteq doomed[b]
    BY <1>3 DEF DeleteSome, DeleteSnapshot, DeleteTimesOut, retentionVars
  <2>5. {s} \in SUBSET condemned
    BY <2>1
  <2> HIDE DEF s, IInv, ControlInv, TypeOK
  <2> QED BY <2>2, <2>3, <2>4, <2>5, DeleteInv
<1>4. CASE RetentionDone(a)
  <2>1. pc[a] = "prune" /\ UNCHANGED <<snaps, latest, listed, doomed, condemned>>
        /\ pc' = [pc EXCEPT ![a] = "idle"]
    BY <1>4 DEF RetentionDone, Return, Goto, retentionVars
  <2>2. \A s \in Stamps : SafeChange(s) /\ Untouched(s)
    BY <2>1, NothingIsSafe DEF Untouched
  <2>3. \/ result' = result
        \/ \E s \in Stamps : result'.ts = s /\ Shown(s)'
    <3>1. CASE a \in Runs /\ Return(a, "ok")
      <4>1. work[a].ts \in Stamps /\ Shown(work[a].ts)
        BY <2>1, <3>1 DEF HasStamp, PublishedShown, Published
      <4>2. result'.ts = work[a].ts
        BY <3>1 DEF Return
      <4> QED BY <2>2, <4>1, <4>2 DEF SafeChange
    <3>2. CASE UNCHANGED result
      BY <3>2
    <3> QED BY <1>4, <3>1, <3>2 DEF RetentionDone
  <2>4. \A r \in Runs : pc'[r] = "idle" \/ (pc'[r] = pc[r] /\ work'[r] = work[r])
    BY <1>4, <2>1 DEF RetentionDone, Return, Actors
  <2> QED BY <2>1, <2>2, <2>3, <2>4, OthersInv
<1> QED BY <1>1, <1>2, <1>3, <1>4 DEF RetentionStep

--------------------------------------------------------------------------------
(* Invariance. *)

LEMMA InvInit == Init => IInv
<1> SUFFICES ASSUME Init PROVE IInv
  OBVIOUS
<1>1. ControlInv
  BY ControlInit
<1>2. /\ \A s \in Stamps : snaps[s].dir = "none"
      /\ \A a \in Actors : pc[a] = "idle" /\ listed[a] = {} /\ doomed[a] = {}
      /\ latest = 0 /\ result.rc = "none" /\ condemned = {}
  BY DEF Init, NoSnapshot
<1>3. RunsOk
  BY <1>2 DEF RunsOk, RunOk, Early, Published, Actors
<1> QED BY <1>1, <1>2, <1>3, RunsOkParts DEF IInv, FinalsShown, Finals, LatestShown,
        ResultShown, ChosenWasFinal

\* A run begins with a timestamp that nothing has.
LEMMA AcquireInv ==
  ASSUME IInv, TypeOK', ControlInv', NEW r \in Runs, NEW s \in Stamps, Acquire(r, s)
  PROVE  IInv'
<1>1. /\ pc' = [pc EXCEPT ![r] = "probe"]
      /\ work' = [work EXCEPT ![r] = [NoWork EXCEPT !.ts = s]]
      /\ UNCHANGED <<snaps, latest, result, listed, doomed, condemned>>
  BY DEF Acquire, Goto, retentionVars
<1>2. snaps[s] = NoSnapshot /\ s \notin condemned
  <2>1. s >= s
    BY SnapshotsAssumption DEF Stamps
  <2> QED BY <2>1 DEF Acquire, Fresh
<1>3. pc'[r] = "probe" /\ work'[r].ts = s
  BY <1>1 DEF IInv, ControlInv, TypeOK, Actors, NoWork
<1>4. RunOk(r)'
  BY <1>1, <1>2, <1>3 DEF RunOk, NoSnapshot, Published
<1>5. RunsOk'
  BY <1>3, <1>4, OneRunStep
<1>6. \A t \in Stamps : SafeChange(t)
  BY <1>1, NothingIsSafe
<1>7. FinalsShown' /\ LatestShown' /\ ResultShown' /\ ChosenWasFinal'
  BY <1>1, <1>6, DestinationStep
<1> QED BY <1>5, <1>7, IInvParts

LEMMA InvStep ==
  ASSUME AllIsReadable, IInv, [Next]_vars
  PROVE  IInv'
<1>1. TypeOK'
  BY TypeStep DEF IInv, ControlInv
<1>2. ControlInv'
  BY <1>1, ControlStep DEF IInv
<1>3. ASSUME NEW r \in Runs, NEW s \in Stamps, Acquire(r, s) PROVE IInv'
  BY <1>1, <1>2, <1>3, AcquireInv
<1>4. ASSUME NEW r \in Runs, SkipBusy(r) PROVE IInv'
  <2>1. \A s \in Stamps : SafeChange(s) /\ Untouched(s)
    BY <1>4, NothingIsSafe DEF SkipBusy, retentionVars, Untouched
  <2>2. result'.rc # "ok"
    BY <1>4 DEF SkipBusy
  <2> QED BY <1>1, <1>2, <1>4, <2>1, <2>2, OthersInv DEF SkipBusy, retentionVars
<1>5. ASSUME NEW r \in Runs, BackupStep(r) PROVE IInv'
  BY <1>1, <1>2, <1>5, BackupInv
<1>6. ASSUME NEW a \in Actors, RetentionStep(a) PROVE IInv'
  BY <1>1, <1>2, <1>6, RetentionInv
<1>7. ASSUME NEW a \in Actors, Killed(a) PROVE IInv'
  <2>1. /\ UNCHANGED <<snaps, latest, result, condemned>>
        /\ pc' = [pc EXCEPT ![a] = "idle"]
        /\ work' = [r \in Runs |-> IF r = a THEN NoWork ELSE work[r]]
        /\ listed' = [listed EXCEPT ![a] = {}]
        /\ doomed' = [doomed EXCEPT ![a] = {}]
    BY <1>7 DEF Killed, Goto
  <2>2. \A s \in Stamps : SafeChange(s) /\ Untouched(s)
    BY <2>1, NothingIsSafe DEF Untouched
  <2>3. \A r \in Runs : pc'[r] = "idle" \/ (pc'[r] = pc[r] /\ work'[r] = work[r])
    BY <2>1 DEF IInv, ControlInv, TypeOK, Actors
  <2>4. \A b \in Actors : listed'[b] \subseteq listed[b] /\ doomed'[b] \subseteq doomed[b]
    BY <2>1 DEF IInv, ControlInv, TypeOK
  <2> QED BY <1>1, <1>2, <2>1, <2>2, <2>3, <2>4, OthersInv
<1>8. ASSUME NEW s \in Stamps, Pin(s) PROVE IInv'
  <2>1. UNCHANGED <<latest, pc, work, result, listed, doomed, condemned>>
        /\ \E meta : snaps' = WithMeta(s, meta)
    BY <1>8 DEF Pin, retentionVars
  <2>2. \A t \in Stamps : SafeChange(t)
    BY <2>1, MetaIsSafe
  <2>3. \A t \in Stamps : Untouched(t)
    BY <2>1 DEF Untouched, WithMeta, Snapshot, IInv, ControlInv, TypeOK
  <2> QED BY <1>1, <1>2, <2>1, <2>2, <2>3, OthersInv
<1>9. CASE UNCHANGED vars
  <2>1. \A s \in Stamps : SafeChange(s) /\ Untouched(s)
    BY <1>9, NothingIsSafe DEF vars, Untouched
  <2> QED BY <1>1, <1>2, <1>9, <2>1, OthersInv DEF vars
<1> QED BY <1>3, <1>4, <1>5, <1>6, <1>7, <1>8, <1>9 DEF Next

\* The inductive invariant holds in every state, if rsync can read its sources.
THEOREM Invariance == ASSUME AllIsReadable PROVE Spec => []IInv
BY InvInit, InvStep, PTL DEF Spec

\* However many runs, retentions and folders there are, whatever fails or is killed
\* between any two steps of backup_target: a snapshot that list_snapshots shows, or
\* that the "latest" link names, holds every folder unless a retention chose it.
THEOREM ListedIsWholeThm == ASSUME AllIsReadable PROVE Spec => []ListedIsWhole
<1>1. IInv => ListedIsWhole
  BY DEF IInv, FinalsShown, LatestShown, Shown, ListedIsWhole
<1> QED BY <1>1, Invariance, PTL

\* The lock of the target keeps the .partial of a run, with all that was transferred
\* into it, from the clean_partial_snapshots of every other run.
THEOREM OwnPartialIsSafeThm == ASSUME AllIsReadable PROVE Spec => []OwnPartialIsSafe
<1>1. IInv => OwnPartialIsSafe
  BY DEF IInv
<1> QED BY <1>1, Invariance, PTL

\* Return code 0 of backup_target is never wrong: the snapshot is published, whole, or
\* has been given up to a retention since.
THEOREM SuccessIsListedThm == ASSUME AllIsReadable PROVE Spec => []SuccessIsListed
<1>1. IInv => SuccessIsListed
  BY DEF IInv, ResultShown, Shown, SuccessIsListed
<1> QED BY <1>1, Invariance, PTL

--------------------------------------------------------------------------------
(* Pinned snapshots. *)

\* Users set pins while no retention is deleting, and every pin can be read.
PinsAreRead == AllIsReadable /\ "pins" \notin Faults /\ ~LatePins

\* No retention is about to delete what is pinned.
PinInv ==
  \A a \in Actors : doomed[a] # {} => pc[a] = "prune" /\ doomed[a] \intersect Pinned = {}

StaysWhole(s) == snaps'[s].dir = "final" /\ snaps'[s].has = snaps[s].has

\* Before its retention a backup changes nothing that is published or that a retention
\* chose.
LEMMA BackupLeaves ==
  ASSUME IInv, NEW r \in Runs, BackupStep(r)
  PROVE  \A s \in Finals \union condemned : snaps'[s] = snaps[s]
<1> DEFINE theirs == Finals \union condemned
           mine == work[r].ts
<1>1. /\ \A s \in theirs : s \in Stamps /\ snaps[s].dir # "partial"
      /\ theirs \intersect Partials = {}
  BY DEF Finals, Partials, IInv, ChosenWasFinal, ControlInv, TypeOK
<1>2. pc[r] \in {"prepare", "transfer", "finalize"} => mine \notin theirs
  BY OwnDirectory DEF Finals, Early
<1>3. CASE snaps' = snaps
  BY <1>3
<1>4. CASE \E gone \in SUBSET Partials : snaps' = Without(gone)
  BY <1>1, <1>4 DEF Without
<1>5. CASE /\ pc[r] \in {"prepare", "transfer", "finalize"}
           /\ \/ \E dir : snaps' = WithDir(mine, dir)
              \/ \E has : snaps' = WithFolders(mine, has)
              \/ \E meta : snaps' = WithMeta(mine, meta)
  BY <1>1, <1>2, <1>5 DEF WithDir, WithFolders, WithMeta, IInv, ControlInv, TypeOK
<1>6. CASE RemoteTimesOut(r)
  <2>1. snaps' = snaps \/ snaps' = Effect(r)
    BY <1>6 DEF RemoteTimesOut
  <2> QED BY <1>3, <1>4, <1>5, <2>1 DEF Effect
<1>7. CASE ProbeFails(r) \/ ProbeOk(r) \/ PrepareFails(r) \/ DiskFull(r) \/ TransferFails(r)
           \/ FinalizeFails(r) \/ UnlinkLatest(r) \/ LinkLatest(r)
  BY <1>3, <1>7 DEF ProbeFails, ProbeOk, PrepareFails, DiskFull, TransferFails,
     FinalizeFails, UnlinkLatest, LinkLatest
<1>8. CASE CleanPartials(r)
  BY <1>4, <1>8 DEF CleanPartials
<1>9. ASSUME NEW code \in Code, Rsync(r, code)
      PROVE  \A s \in Finals \union condemned : snaps'[s] = snaps[s]
  BY <1>3, <1>5, <1>9 DEF Rsync
<1>10. CASE MakePartial(r) \/ GenerateMeta(r) \/ Finalize(r)
  BY <1>5, <1>10 DEF MakePartial, GenerateMeta, Finalize
<1> QED BY <1>6, <1>7, <1>8, <1>9, <1>10 DEF BackupStep

\* A step that leaves what is pinned or chosen.
LEMMA LeavesPins ==
  ASSUME IInv, PinInv, \A s \in Finals \union condemned : snaps'[s] = snaps[s],
         \A a \in Actors : \/ doomed'[a] = {}
                           \/ doomed'[a] = doomed[a] /\ pc'[a] = pc[a]
  PROVE  PinInv' /\ \A s \in Pinned : StaysWhole(s)
<1>1. \A s \in Pinned : StaysWhole(s)
  BY DEF Pinned, Finals, StaysWhole
<1>2. \A a \in Actors : \A s \in doomed[a] : s \in Pinned' => s \in Pinned
  BY DEF IInv, ChosenWasFinal, Pinned, Finals
<1>3. PinInv'
  BY <1>2 DEF PinInv
<1> QED BY <1>1, <1>3

LEMMA PinStep ==
  ASSUME PinsAreRead, IInv, PinInv, [Next]_vars
  PROVE  PinInv' /\ \A s \in Pinned : StaysWhole(s)
<1> DEFINE Goal == PinInv' /\ \A s \in Pinned : StaysWhole(s)
<1>0. /\ pc \in [Actors -> {"idle", "probe", "clean", "prepare", "transfer", "finalize",
                            "unlink", "link", "retain", "pins", "prune"}]
      /\ snaps \in [Stamps -> Snapshot]
      /\ doomed \in [Actors -> SUBSET Stamps]
      /\ Runs \subseteq Actors
      /\ \A a \in Actors : pc[a] # "prune" => doomed[a] = {}
  BY DEF IInv, ControlInv, TypeOK, PinInv, Actors
<1>1. ASSUME NEW r \in Runs, NEW s \in Stamps, Acquire(r, s) PROVE Goal
  BY <1>0, <1>1, LeavesPins DEF Acquire, Goto, retentionVars
<1>2. ASSUME NEW r \in Runs, SkipBusy(r) PROVE Goal
  BY <1>2, LeavesPins DEF SkipBusy, retentionVars
<1>3. ASSUME NEW r \in Runs, BackupStep(r) PROVE Goal
  <2>1. doomed' = doomed /\ pc[r] # "prune" /\ \E where : pc' = [pc EXCEPT ![r] = where]
    <3>1. CASE \E code \in Code : Rsync(r, code)
      BY <1>0, <3>1 DEF Rsync, retentionVars
    <3>2. CASE DiskFull(r)
      BY <1>0, <3>2 DEF DiskFull, retentionVars
    <3>3. CASE ~DiskFull(r) /\ ~\E code \in Code : Rsync(r, code)
      BY <1>3, <3>3 DEF BackupStep, ProbeFails, ProbeOk, CleanPartials, PrepareFails,
         MakePartial, TransferFails, GenerateMeta, Finalize, FinalizeFails, UnlinkLatest,
         LinkLatest, RemoteTimesOut, Return, Goto, retentionVars
    <3> QED BY <3>1, <3>2, <3>3
  <2>2. \A a \in Actors : doomed'[a] = {} \/ (doomed'[a] = doomed[a] /\ pc'[a] = pc[a])
    BY <1>0, <2>1
  <2> QED BY <1>3, <2>2, BackupLeaves, LeavesPins
<1>4. ASSUME NEW a \in Actors, ListSnapshots(a) PROVE Goal
  <2>1. pc[a] # "prune"
    BY <1>4 DEF ListSnapshots
  <2> QED BY <1>0, <1>4, <2>1, LeavesPins DEF ListSnapshots, Goto
<1>5. ASSUME NEW a \in Actors, PrefetchPinned(a) PROVE Goal
  <2>1. /\ doomed' = [doomed EXCEPT ![a] = Excess(listed[a], Pinned, Keep[a])]
        /\ pc' = [pc EXCEPT ![a] = "prune"]
        /\ snaps' = snaps
    BY <1>5 DEF PrefetchPinned, Goto, PinsAreRead
  <2>2. Excess(listed[a], Pinned, Keep[a]) \intersect Pinned = {}
    BY DEF Excess
  <2>3. Pinned' = Pinned
    BY <2>1 DEF Pinned, Finals
  <2>4. PinInv'
    BY <1>0, <2>1, <2>2, <2>3 DEF PinInv
  <2>5. \A s \in Pinned : StaysWhole(s)
    BY <2>1 DEF Pinned, Finals, StaysWhole
  <2> QED BY <2>4, <2>5
<1>6. ASSUME NEW a \in Actors, DeleteSome(a) \/ DeleteSnapshot(a) \/ DeleteTimesOut(a)
      PROVE  Goal
  <2> DEFINE s == Latest(doomed[a])
  <2>1. s \in doomed[a] /\ s \in Stamps /\ s \notin Pinned
    BY <1>0, <1>6, LatestIsOne DEF DeleteSome, DeleteSnapshot, DeleteTimesOut, PinInv
  <2>2. snaps' = snaps \/ snaps' = Without({s}) \/ snaps' = WithHas(s, {})
    BY <1>6 DEF DeleteSome, DeleteSnapshot, DeleteTimesOut
  <2>3. pc' = pc /\ \A b \in Actors : doomed'[b] \subseteq doomed[b]
    BY <1>0, <1>6 DEF DeleteSome, DeleteSnapshot, DeleteTimesOut, retentionVars
  <2> HIDE DEF s
  <2>4. \A t \in Stamps : t # s => snaps'[t] = snaps[t]
    BY <1>0, <2>2 DEF Without, WithHas
  <2>5. Pinned' \subseteq Pinned
    <3>1. s \notin Pinned'
      BY <1>0, <2>1, <2>2 DEF Pinned, Finals, Without, WithHas, NoSnapshot, Snapshot
    <3> QED BY <2>4, <3>1 DEF Pinned, Finals
  <2>6. PinInv'
    BY <2>3, <2>5 DEF PinInv
  <2>7. \A t \in Pinned : StaysWhole(t)
    BY <2>1, <2>4 DEF Pinned, Finals, StaysWhole
  <2> QED BY <2>6, <2>7
<1>7. ASSUME NEW a \in Actors, RetentionDone(a) PROVE Goal
  <2>1. doomed[a] = {} /\ doomed' = doomed /\ snaps' = snaps
        /\ pc' = [pc EXCEPT ![a] = "idle"]
    BY <1>7 DEF RetentionDone, Return, Goto, retentionVars
  <2> QED BY <1>0, <2>1, LeavesPins
<1>8. ASSUME NEW a \in Actors, Killed(a) PROVE Goal
  BY <1>0, <1>8, LeavesPins DEF Killed, Goto
<1>9. ASSUME NEW s \in Stamps, Pin(s) PROVE Goal
  <2>1. \A a \in Actors : doomed[a] = {}
    BY <1>0, <1>9 DEF Pin, PinsAreRead, Deleting
  <2>2. doomed' = doomed /\ \E meta : snaps' = WithMeta(s, meta)
    BY <1>9 DEF Pin, retentionVars
  <2>3. PinInv'
    BY <2>1, <2>2 DEF PinInv
  <2>4. \A t \in Pinned : StaysWhole(t)
    BY <1>0, <2>2 DEF Pinned, Finals, StaysWhole, WithMeta, Snapshot
  <2> QED BY <2>3, <2>4
<1>10. CASE UNCHANGED vars
  BY <1>10, LeavesPins DEF vars
<1> QED BY <1>1, <1>2, <1>3, <1>4, <1>5, <1>6, <1>7, <1>8, <1>9, <1>10
        DEF Next, RetentionStep

\* No retention, whatever its count and however old its list, deletes anything of a
\* pinned snapshot, if pins can be read and are set while none of them is deleting.
THEOREM PinnedStaysThm == ASSUME PinsAreRead PROVE Spec => PinnedStays
<1>1. Init => PinInv
  BY DEF Init, PinInv
<1>2. IInv /\ PinInv /\ [Next]_vars => PinInv'
  BY PinStep
<1>3. IInv /\ PinInv /\ [Next]_vars =>
        [\A s \in Pinned : snaps'[s].dir = "final" /\ snaps'[s].has = snaps[s].has]_vars
  BY PinStep DEF StaysWhole
<1>4. Spec => []IInv
  BY Invariance DEF PinsAreRead
<1> QED BY <1>1, <1>2, <1>3, <1>4, PTL DEF Spec, PinnedStays

--------------------------------------------------------------------------------
(* The newest snapshots. *)

LEMMA MinKeepIsLeast ==
  ASSUME NEW a \in Actors
  PROVE  MinKeep \in Nat /\ MinKeep <= Keep[a] /\ Keep[a] \in Nat
<1> DEFINE keeps == {Keep[b] : b \in Actors}
           younger == OpToRel(<, Nat)
<1>1. \A b \in Actors : Keep[b] \in Nat
  BY SnapshotsAssumption DEF Actors
<1>2. PICK k \in keeps : \A j \in keeps : <<j, k>> \notin younger
  <2>1. IsWellFoundedOn(younger, Nat)
    BY NatLessThanWellFounded
  <2>2. keeps \subseteq Nat /\ keeps # {}
    BY <1>1
  <2> HIDE DEF keeps, younger
  <2> QED BY <2>1, <2>2, WFMin
<1>3. k \in keeps /\ \A b \in Actors : k <= Keep[b]
  <2>1. k \in Nat
    BY <1>1
  <2>2. ASSUME NEW b \in Actors PROVE k <= Keep[b]
    <3>1. Keep[b] \in Nat /\ <<Keep[b], k>> \notin younger
      BY <1>1, <1>2
    <3>2. ~(Keep[b] < k)
      BY <2>1, <3>1 DEF OpToRel
    <3>3. \A m, n \in Nat : ~(m < n) => n <= m
      OBVIOUS
    <3> QED BY <2>1, <3>1, <3>2, <3>3, Zenon
  <2> QED BY <2>2
<1>4. MinKeep = CHOOSE j \in keeps : \A b \in Actors : j <= Keep[b]
  BY DEF MinKeep
<1>5. MinKeep \in keeps /\ \A b \in Actors : MinKeep <= Keep[b]
  <2> HIDE DEF keeps
  <2> QED BY <1>3, <1>4
<1> QED BY <1>1, <1>5

\* The snapshots newer than s that are published and that no retention chose.
Newer(s) == {t \in Finals \ condemned : t > s}

LEMMA StampsAreFinite ==
  ASSUME NEW S, NEW T \in SUBSET Stamps, S \subseteq T
  PROVE  /\ Cardinality(S) \in Nat /\ Cardinality(T) \in Nat
         /\ Cardinality(S) <= Cardinality(T)
<1>1. IsFiniteSet(Stamps)
  BY FS_Interval, SnapshotsAssumption DEF Stamps
<1>2. IsFiniteSet(T) /\ S \in SUBSET T
  BY <1>1, FS_Subset
<1>3. IsFiniteSet(S)
  BY <1>2, FS_Subset
<1> QED BY <1>2, <1>3, FS_Subset, FS_CardinalityType

\* All but the choice of a retention leave what is published and not chosen.
LEMMA StoreStays ==
  ASSUME IInv, [Next]_vars, ~\E a \in Actors : PrefetchPinned(a)
  PROVE  condemned' = condemned /\ Finals \ condemned \subseteq Finals'
<1> USE DEF retentionVars, Finals
<1>1. CASE condemned' = condemned /\ snaps' = snaps
  BY <1>1
<1>2. ASSUME NEW r \in Runs, BackupStep(r)
      PROVE  condemned' = condemned /\ Finals \ condemned \subseteq Finals'
  <2>1. condemned' = condemned
    BY <1>2 DEF BackupStep, ProbeFails, ProbeOk, CleanPartials, PrepareFails, MakePartial,
       Rsync, DiskFull, TransferFails, GenerateMeta, Finalize, FinalizeFails, UnlinkLatest,
       LinkLatest, RemoteTimesOut
  <2> QED BY <1>2, <2>1, BackupLeaves
<1>3. ASSUME NEW a \in Actors, DeleteSome(a) \/ DeleteSnapshot(a) \/ DeleteTimesOut(a)
      PROVE  condemned' = condemned /\ Finals \ condemned \subseteq Finals'
  <2> DEFINE s == Latest(doomed[a])
  <2>1. s \in condemned
    BY <1>3, LatestIsOne DEF DeleteSome, DeleteSnapshot, DeleteTimesOut, ChosenWasFinal,
       IInv, ControlInv, TypeOK
  <2>2. /\ condemned' = condemned
        /\ snaps' = snaps \/ snaps' = Without({s}) \/ snaps' = WithHas(s, {})
    BY <1>3 DEF DeleteSome, DeleteSnapshot, DeleteTimesOut
  <2> HIDE DEF s
  <2>3. \A t \in Stamps : t # s => snaps'[t] = snaps[t]
    BY <2>2 DEF Without, WithHas, IInv, ControlInv, TypeOK
  <2> QED BY <2>1, <2>2, <2>3
<1>4. ASSUME NEW s \in Stamps, Pin(s)
      PROVE  condemned' = condemned /\ Finals \ condemned \subseteq Finals'
  BY <1>4 DEF Pin, WithMeta, Snapshot, IInv, ControlInv, TypeOK
<1>5. CASE \/ \E r \in Runs, s \in Stamps : Acquire(r, s)
           \/ \E r \in Runs : SkipBusy(r)
           \/ \E a \in Actors : ListSnapshots(a) \/ RetentionDone(a) \/ Killed(a)
           \/ UNCHANGED vars
  BY <1>1, <1>5 DEF Acquire, SkipBusy, ListSnapshots, RetentionDone, Killed, vars
<1> QED BY <1>2, <1>3, <1>4, <1>5 DEF Next, RetentionStep

\* The newest of all that was ever chosen decides: what is newer than it is newer than
\* the others, and is not chosen.
LEMMA ChoiceKeeps ==
  ASSUME IInv, KeepsNewest, NEW a \in Actors, PrefetchPinned(a)
  PROVE  KeepsNewest'
<1> USE DEF IInv, ControlInv, TypeOK
<1>1. PICK pins \in {Pinned} \union {{}} :
        condemned' = condemned \union Excess(listed[a], pins, Keep[a])
  BY DEF PrefetchPinned
<1> DEFINE excess == Excess(listed[a], pins, Keep[a])
           s == Latest(condemned')
<1>2. snaps' = snaps /\ Finals' = Finals
  BY DEF PrefetchPinned, Finals
<1>3. condemned' \in SUBSET Stamps
  BY <1>1 DEF Excess
<1>4. /\ \A t \in excess : /\ t \in Stamps
                           /\ t \in Finals \/ t \in condemned
                           /\ Cardinality({u \in listed[a] \ pins : u > t}) >= Keep[a]
      /\ \A u \in listed[a] : u \in Stamps /\ (u \in Finals \/ u \in condemned)
      /\ \A u \in listed[a] \ pins : u \in Stamps
  BY DEF Excess, ChosenWasFinal
<1>5. SUFFICES ASSUME NEW t \in condemned'
               PROVE  Cardinality(Newer(t)') >= MinKeep
  BY DEF KeepsNewest, Newer
<1>6. s \in condemned' /\ t <= s /\ \A u \in condemned' : u <= s
  BY <1>3, LatestIsOne
<1> HIDE DEF s
<1>7. s \in Stamps /\ s \in Nat /\ t \in Nat
  BY <1>3, <1>6, SnapshotsAssumption DEF Stamps
<1>8. \A u \in Stamps : u > s => u \notin condemned' /\ u > t
  BY <1>6, <1>7, SnapshotsAssumption DEF Stamps
<1>9. MinKeep \in Nat /\ MinKeep <= Keep[a] /\ Keep[a] \in Nat
  BY MinKeepIsLeast
<1>10. Newer(t)' \in SUBSET Stamps
  BY <1>2 DEF Newer, Finals
<1>11. CASE s \in condemned
  <2>1. Cardinality(Newer(s)) >= MinKeep
    BY <1>11 DEF KeepsNewest, Newer
  <2>2. Newer(s) \subseteq Newer(t)'
    BY <1>2, <1>8 DEF Newer, Finals
  <2> QED BY <1>9, <1>10, <2>1, <2>2, StampsAreFinite
<1>12. CASE s \in excess
  <2> DEFINE chosenFrom == {u \in listed[a] \ pins : u > s}
  <2>1. Cardinality(chosenFrom) >= Keep[a]
    BY <1>4, <1>12
  <2>2. chosenFrom \subseteq Newer(t)'
    BY <1>1, <1>2, <1>4, <1>8 DEF Newer
  <2> HIDE DEF chosenFrom
  <2> QED BY <1>9, <1>10, <2>1, <2>2, StampsAreFinite
<1> QED BY <1>1, <1>6, <1>11, <1>12

LEMMA KeepsStep ==
  ASSUME IInv, KeepsNewest, [Next]_vars
  PROVE  KeepsNewest'
<1>1. CASE \E a \in Actors : PrefetchPinned(a)
  BY <1>1, ChoiceKeeps
<1>2. CASE ~\E a \in Actors : PrefetchPinned(a)
  <2>1. condemned' = condemned /\ Finals \ condemned \subseteq Finals'
    BY <1>2, StoreStays
  <2>2. SUFFICES ASSUME NEW s \in condemned
                 PROVE  Cardinality(Newer(s)') >= MinKeep
    BY <2>1 DEF KeepsNewest, Newer
  <2>3. Newer(s) \subseteq Newer(s)'
    BY <2>1 DEF Newer
  <2>4. Newer(s)' \in SUBSET Stamps
    BY DEF Newer, Finals
  <2>5. Cardinality(Newer(s)) >= MinKeep
    BY DEF KeepsNewest, Newer
  <2>6. Cardinality(Newer(s)') >= Cardinality(Newer(s))
        /\ Cardinality(Newer(s)) \in Nat /\ Cardinality(Newer(s)') \in Nat
    BY <2>3, <2>4, StampsAreFinite
  <2>7. CASE Actors # {}
    BY <2>5, <2>6, <2>7, MinKeepIsLeast
  <2>8. CASE Actors = {}
    <3>1. snaps' = snaps \/ \E t \in Stamps : \E meta : snaps' = WithMeta(t, meta)
      BY <2>8 DEF Next, Pin, vars, Actors
    <3>2. Finals' = Finals
      BY <3>1 DEF Finals, WithMeta, Snapshot, IInv, ControlInv, TypeOK
    <3> QED BY <2>1, <2>5, <3>2 DEF Newer
  <2> QED BY <2>7, <2>8
<1> QED BY <1>1, <1>2

\* However many retentions run at the same time, with whatever counts and however old
\* their lists: enforce_retention never chooses one of the newest MinKeep snapshots that
\* no retention chose.
THEOREM KeepsNewestThm == ASSUME AllIsReadable PROVE Spec => []KeepsNewest
<1>1. Init => KeepsNewest
  BY DEF Init, KeepsNewest
<1>2. IInv /\ KeepsNewest /\ [Next]_vars => KeepsNewest'
  BY KeepsStep
<1> QED BY <1>1, <1>2, Invariance, PTL DEF Spec

--------------------------------------------------------------------------------
(* The destination implements the catalog. *)

\* No pin is overlooked.
EveryPinIsRead == AllIsReadable /\ "pins" \notin Faults

Unpublished == {s \in Stamps : snaps[s].dir # "final" /\ s \notin condemned}

\* Until it is published a snapshot has no pin, and nothing newer than that of the run in
\* progress is published.
PlainUntilPublished == \A s \in Unpublished : snaps[s].meta # "pinned"

NewestIsLast ==
  \A r \in Runs : pc[r] \in Early \union {"transfer", "finalize"} =>
    \A t \in Stamps : t > work[r].ts => t \in Unpublished

ShelfInv == KeepsNewest /\ PlainUntilPublished /\ NewestIsLast

\* What a backup does to what is not published: it stays so, without a pin, or it is the
\* rename.
Publishes(r) ==
  /\ pc[r] = "finalize" /\ pc'[r] \notin Early \union {"transfer", "finalize"}
  /\ snaps[work[r].ts].dir = "partial"
  /\ snaps' = WithDir(work[r].ts, "final")

LEMMA BackupPublishes ==
  ASSUME IInv, PlainUntilPublished, NEW r \in Runs, BackupStep(r)
  PROVE  \/ Publishes(r)
         \/ \A s \in Unpublished : snaps'[s].dir # "final" /\ snaps'[s].meta # "pinned"
<1> USE DEF IInv, ControlInv, TypeOK
<1> DEFINE t == work[r].ts
           Goal == \A s \in Unpublished : snaps'[s].dir # "final" /\ snaps'[s].meta # "pinned"
<1>0. /\ \A s \in Unpublished : /\ s \in Stamps /\ snaps[s] \in Snapshot
                                /\ snaps[s].dir # "final" /\ snaps[s].meta # "pinned"
      /\ pc \in [Actors -> {"idle", "probe", "clean", "prepare", "transfer", "finalize",
                            "unlink", "link", "retain", "pins", "prune"}]
      /\ r \in Actors
  BY DEF Unpublished, PlainUntilPublished, Actors
<1>1. ASSUME snaps' = snaps PROVE Goal
  BY <1>0, <1>1
<1>2. ASSUME NEW gone, snaps' = Without(gone) PROVE Goal
  BY <1>0, <1>2 DEF Without, NoSnapshot
<1>3. ASSUME snaps' = WithDir(t, "partial") PROVE Goal
  BY <1>0, <1>3 DEF WithDir, Snapshot
<1>4. ASSUME NEW has, snaps' = WithFolders(t, has) PROVE Goal
  BY <1>0, <1>4 DEF WithFolders, Snapshot
<1>5. ASSUME NEW meta \in {"none", "plain"}, snaps' = WithMeta(t, meta) PROVE Goal
  BY <1>0, <1>5 DEF WithMeta, Snapshot
<1>6. CASE RemoteTimesOut(r)
  <2>1. (snaps' = snaps \/ snaps' = Effect(r)) /\ pc'[r] = "idle"
    BY <1>0, <1>6 DEF RemoteTimesOut, Return, Goto
  <2>2. CASE pc[r] = "finalize" /\ snaps[t].dir = "partial" /\ snaps' = Effect(r)
    BY <2>1, <2>2 DEF Publishes, Effect, Early
  <2> QED BY <1>1, <1>2, <1>3, <1>5, <2>1, <2>2 DEF Effect
<1>7. CASE ProbeFails(r) \/ ProbeOk(r) \/ PrepareFails(r) \/ DiskFull(r) \/ TransferFails(r)
           \/ FinalizeFails(r) \/ UnlinkLatest(r) \/ LinkLatest(r)
  BY <1>1, <1>7 DEF ProbeFails, ProbeOk, PrepareFails, DiskFull, TransferFails,
     FinalizeFails, UnlinkLatest, LinkLatest
<1>8. CASE CleanPartials(r) \/ MakePartial(r)
  BY <1>2, <1>3, <1>8 DEF CleanPartials, MakePartial
<1>9. ASSUME NEW code \in Code, Rsync(r, code) PROVE Goal
  <2>1. snaps' = WithFolders(t, Received(work[r], code))
    BY <1>9 DEF Rsync
  <2> QED BY <1>4, <2>1
<1>10. CASE GenerateMeta(r)
  BY <1>5, <1>10 DEF GenerateMeta
<1>11. CASE Finalize(r)
  <2>1. pc'[r] = "unlink"
    BY <1>0, <1>11 DEF Finalize, Goto
  <2> QED BY <1>11, <2>1 DEF Finalize, Publishes, Early
<1> QED BY <1>6, <1>7, <1>8, <1>9, <1>10, <1>11 DEF BackupStep

Shelf == [s \in Stamps |-> ShelfOf(s)]

Active == Early \union {"transfer", "finalize"}

\* A step that publishes nothing and changes no pin is a stutter of the catalog.
LEMMA QuietStep ==
  ASSUME IInv, PlainUntilPublished, condemned' = condemned,
         \A s \in Finals \ condemned : snaps'[s] = snaps[s],
         \A s \in Unpublished : snaps'[s].dir # "final" /\ snaps'[s].meta # "pinned"
  PROVE  Shelf' = Shelf /\ Unpublished' = Unpublished /\ PlainUntilPublished'
<1>1. \A s \in Stamps : s \in Unpublished \/ s \in Finals \ condemned \/ s \in condemned
  BY DEF Unpublished, Finals
<1>2. Unpublished' = Unpublished
  BY <1>1 DEF Unpublished, Finals
<1>3. PlainUntilPublished'
  BY <1>2 DEF PlainUntilPublished
<1>4. \A s \in Stamps : ShelfOf(s)' = ShelfOf(s)
  BY <1>1 DEF ShelfOf, Unpublished, Finals
<1> QED BY <1>2, <1>3, <1>4 DEF Shelf

\* The runs in progress keep their timestamps.
LEMMA NewestStays ==
  ASSUME NewestIsLast, Unpublished' = Unpublished,
         \A r \in Runs : pc'[r] \in Active => pc[r] \in Active /\ work'[r].ts = work[r].ts
  PROVE  NewestIsLast'
BY DEF NewestIsLast, Active

LEMMA BackupGoesOn ==
  ASSUME AllIsReadable, IInv, NEW r \in Runs, BackupStep(r), NEW q \in Runs, pc'[q] \in Active
  PROVE  pc[q] \in Active /\ work'[q].ts = work[q].ts
<1> USE DEF IInv, ControlInv, TypeOK, Active, Early
<1>0. pc[r] # "idle"
  BY DEF BackupStep, ProbeFails, ProbeOk, CleanPartials, PrepareFails, MakePartial, Rsync,
     DiskFull, TransferFails, GenerateMeta, Finalize, FinalizeFails, UnlinkLatest,
     LinkLatest, RemoteTimesOut
<1>1. r \in Actors /\ q \in Actors
      /\ work \in [Runs -> Work] /\ work[r] \in Work /\ ~work[r].again
  BY DEF Actors, NoSecondTry
<1>2. \A p \in Runs : p # r => pc[p] = "idle"
  BY <1>0 DEF HoldsLock
<1>3. CASE \E rc : Return(r, rc)
  BY <1>1, <1>2, <1>3 DEF Return, Goto
<1>4. CASE ProbeOk(r) \/ CleanPartials(r) \/ GenerateMeta(r)
  BY <1>1, <1>2, <1>4 DEF ProbeOk, CleanPartials, GenerateMeta, Goto
<1>5. CASE MakePartial(r)
  BY <1>1, <1>2, <1>5 DEF MakePartial, Goto, Work
<1>6. ASSUME NEW code \in Code, Rsync(r, code)
      PROVE  pc[q] \in Active /\ work'[q].ts = work[q].ts
  <2>1. pc[r] = "transfer" /\ work[r].folder # 0 /\ pc' = pc
        /\ work' = [work EXCEPT ![r] = AfterRsync(work[r], code)]
    BY <1>6 DEF Rsync
  <2>2. AfterRsync(work[r], code).ts = work[r].ts
    BY <1>1, <2>1, AfterRsyncType
  <2> QED BY <1>1, <1>2, <2>1, <2>2
<1>7. CASE DiskFull(r)
  <2>1. pc[r] = "transfer" /\ pc' = pc
        /\ \/ work' = [work EXCEPT ![r] = [work[r] EXCEPT !.folder = 0, !.failed = TRUE]]
           \/ work' = [work EXCEPT ![r] = NextFolder(work[r], FALSE)]
    BY <1>7 DEF DiskFull
  <2>2. [work[r] EXCEPT !.folder = 0, !.failed = TRUE].ts = work[r].ts
    BY <1>1 DEF Work
  <2>3. NextFolder(work[r], FALSE).ts = work[r].ts
    BY <1>1, NextFolderFields
  <2> QED BY <1>1, <1>2, <2>1, <2>2, <2>3
<1>8. CASE Finalize(r) \/ UnlinkLatest(r) \/ LinkLatest(r)
  BY <1>1, <1>2, <1>8 DEF Finalize, UnlinkLatest, LinkLatest, Goto
<1> QED BY <1>3, <1>4, <1>5, <1>6, <1>7, <1>8 DEF BackupStep, ProbeFails, PrepareFails,
        TransferFails, FinalizeFails, RemoteTimesOut

LEMMA BackupImplements ==
  ASSUME AllIsReadable, IInv, ShelfInv, NEW r \in Runs, BackupStep(r)
  PROVE  (Catalog!Next \/ Shelf' = Shelf) /\ PlainUntilPublished' /\ NewestIsLast'
<1> USE DEF ShelfInv
<1>1. /\ condemned' = condemned
      /\ \A s \in Finals \ condemned : snaps'[s] = snaps[s]
  <2>1. condemned' = condemned
    BY DEF BackupStep, ProbeFails, ProbeOk, CleanPartials, PrepareFails, MakePartial,
       Rsync, DiskFull, TransferFails, GenerateMeta, Finalize, FinalizeFails, UnlinkLatest,
       LinkLatest, RemoteTimesOut, retentionVars
  <2> QED BY <2>1, BackupLeaves
<1>2. CASE \A s \in Unpublished : snaps'[s].dir # "final" /\ snaps'[s].meta # "pinned"
  <2>1. Shelf' = Shelf /\ Unpublished' = Unpublished /\ PlainUntilPublished'
    BY <1>1, <1>2, QuietStep
  <2>2. NewestIsLast'
    BY <2>1, BackupGoesOn, NewestStays
  <2> QED BY <2>1, <2>2
<1>3. CASE Publishes(r)
  <2>0. PICK t \in Stamps : t = work[r].ts
    BY <1>3, OwnDirectory DEF Publishes
  <2>1. /\ t \in Stamps /\ snaps \in [Stamps -> Snapshot]
        /\ snaps[t] \in Snapshot /\ snaps[t].dir = "partial" /\ t \notin condemned
        /\ \A s \in Stamps : s > t => s \in Unpublished
        /\ snaps[t].meta # "pinned"
    <3>1. t \in Stamps /\ snaps[t].dir = "partial" /\ t \notin condemned
      BY <1>3, <2>0, OwnDirectory DEF Publishes
    <3>2. \A s \in Stamps : s > t => s \in Unpublished
      BY <1>3, <2>0 DEF Publishes, NewestIsLast
    <3>3. t \in Unpublished
      BY <3>1 DEF Unpublished
    <3> QED BY <3>1, <3>2, <3>3 DEF PlainUntilPublished, IInv, ControlInv, TypeOK
  <2>2. /\ \A s \in Stamps : s # t => snaps'[s] = snaps[s]
        /\ snaps'[t].dir = "final" /\ snaps'[t].meta = snaps[t].meta
    BY <1>3, <2>0, <2>1 DEF Publishes, WithDir, Snapshot
  <2>3. \A s \in Stamps : s # t => ShelfOf(s)' = ShelfOf(s)
    BY <1>1, <2>2 DEF ShelfOf
  <2>4. ShelfOf(t)' = "kept"
    BY <1>1, <2>1, <2>2 DEF ShelfOf
  <2>5. Shelf' = [Shelf EXCEPT ![t] = "kept"]
    BY <2>1, <2>3, <2>4 DEF Shelf
  <2>6. \A s \in Stamps : s >= t => Shelf[s] = "none"
    <3>1. ASSUME NEW s \in Stamps, s >= t PROVE s \in Unpublished
      <4>1. s = t \/ s > t
        BY <2>1, <3>1, SnapshotsAssumption DEF Stamps
      <4> QED BY <2>1, <4>1 DEF Unpublished
    <3> QED BY <3>1 DEF Unpublished, Shelf, ShelfOf
  <2>7. Catalog!Take(t)
    BY <2>5, <2>6 DEF Catalog!Take, Catalog!Stamps, Stamps, Shelf
  <2>8. Catalog!Next
    BY <2>1, <2>7 DEF Catalog!Next, Catalog!Stamps, Stamps
  <2>9. PlainUntilPublished'
    BY <1>1, <2>1, <2>2 DEF PlainUntilPublished, Unpublished
  <2>10. NewestIsLast'
    <3>1. \A q \in Runs : pc'[q] \in Active => q = r
      <4>1. \A q \in Runs : q # r => pc[q] = "idle"
        BY <1>3 DEF Publishes, IInv, ControlInv, HoldsLock
      <4> QED BY <4>1, BackupGoesOn DEF Active, Early
    <3> QED BY <1>3, <3>1 DEF Publishes, NewestIsLast, Active
  <2> QED BY <2>8, <2>9, <2>10
<1> QED BY <1>2, <1>3, BackupPublishes

\* The catalog counts as the destination does.
LEMMA SameCardinality == \A S : Catalog!Cardinality(S) = Cardinality(S)
BY DEF Catalog!Cardinality, Cardinality

\* What a retention chooses is kept, and never one of the newest.
LEMMA ChoiceImplements ==
  ASSUME EveryPinIsRead, IInv, ShelfInv, NEW a \in Actors, PrefetchPinned(a)
  PROVE  /\ Catalog!Next \/ Shelf' = Shelf
         /\ PlainUntilPublished' /\ NewestIsLast'
<1> USE DEF ShelfInv
<1> DEFINE excess == Excess(listed[a], Pinned, Keep[a])
           old == excess \ condemned
<1>1. /\ condemned' = condemned \union excess
      /\ UNCHANGED <<snaps, work>>
      /\ pc' = [pc EXCEPT ![a] = "prune"]
  BY DEF PrefetchPinned, EveryPinIsRead, Goto
<1>2. \A s \in old : s \in Stamps /\ s \in Finals /\ s \notin condemned /\ s \notin Pinned
  BY DEF Excess, ChosenWasFinal, IInv, ControlInv, TypeOK, Finals
<1>3. Unpublished' = Unpublished
  BY <1>1, <1>2 DEF Unpublished, Finals
<1>4. PlainUntilPublished'
  BY <1>1, <1>3 DEF PlainUntilPublished
<1>5. NewestIsLast'
  <2>1. \A r \in Runs : pc'[r] \in Active => pc[r] \in Active /\ work'[r].ts = work[r].ts
    BY <1>1 DEF IInv, ControlInv, TypeOK, Active, Early, Actors
  <2> QED BY <1>3, <2>1, NewestStays
<1>6. \A s \in Stamps : ShelfOf(s)' = IF s \in old THEN "dropped" ELSE ShelfOf(s)
  BY <1>1 DEF ShelfOf
<1>7. Shelf' = [s \in Stamps |-> IF s \in old THEN "dropped" ELSE Shelf[s]]
  BY <1>6 DEF Shelf
<1>8. CASE old = {}
  <2>1. Shelf' = Shelf
    BY <1>7, <1>8 DEF Shelf
  <2> QED BY <1>4, <1>5, <2>1
<1>9. CASE old # {}
  <2>1. \A s \in old : Shelf[s] = "kept"
    BY <1>2 DEF Shelf, ShelfOf, Pinned, Finals
  <2>2. {t \in Stamps : Shelf[t] \in {"kept", "pinned"}} = Finals \ condemned
    BY DEF Shelf, ShelfOf, Finals
  <2>3. Finals' \ condemned' = {t \in Stamps : Shelf[t] \in {"kept", "pinned"}} \ old
    BY <1>1, <2>2 DEF Finals
  <2>4. KeepsNewest'
    BY ChoiceKeeps
  <2>5. \A s \in old :
          Cardinality({t \in Catalog!In({"kept", "pinned"}) \ old : t > s}) >= MinKeep
    <3>1. Catalog!In({"kept", "pinned"}) \ old = Finals' \ condemned'
      BY <2>3 DEF Catalog!In, Catalog!Stamps, Stamps, Shelf
    <3>2. \A s \in condemned' : Cardinality({t \in Finals' \ condemned' : t > s}) >= MinKeep
      BY <2>4 DEF KeepsNewest
    <3> QED BY <1>1, <3>1, <3>2
  <2>6. Catalog!Drop(old)
    <3> HIDE DEF old
    <3> QED BY <1>7, <1>9, <2>1, <2>5, SameCardinality
            DEF Catalog!Drop, Catalog!Stamps, Stamps, Shelf
  <2> QED BY <1>2, <1>4, <1>5, <2>6 DEF Catalog!Next, Catalog!Stamps, Stamps
<1> QED BY <1>4, <1>5, <1>8, <1>9

LEMMA ShelfInit == Init => ShelfInv /\ Catalog!Init
<1> SUFFICES ASSUME Init PROVE ShelfInv /\ Catalog!Init
  OBVIOUS
<1>1. /\ \A s \in Stamps : snaps[s].dir = "none" /\ snaps[s].meta = "none"
      /\ condemned = {}
      /\ \A a \in Actors : pc[a] = "idle"
  BY DEF Init, NoSnapshot
<1>2. ShelfInv
  BY <1>1 DEF ShelfInv, KeepsNewest, PlainUntilPublished, Unpublished, NewestIsLast, Early,
     Actors
<1>3. \A s \in Stamps : ShelfOf(s) = "none"
  BY <1>1 DEF ShelfOf
<1>4. Catalog!Init
  BY <1>3 DEF Catalog!Init, Catalog!Stamps, Stamps
<1> QED BY <1>2, <1>4

\* Every step of the destination is a step of the catalog, or none.
LEMMA ShelfStep ==
  ASSUME EveryPinIsRead, IInv, ShelfInv, [Next]_vars
  PROVE  ShelfInv' /\ [Catalog!Next]_Shelf
<1> USE DEF ShelfInv
<1> DEFINE Goal == (Catalog!Next \/ Shelf' = Shelf) /\ PlainUntilPublished' /\ NewestIsLast'
<1>0. AllIsReadable /\ KeepsNewest'
  BY KeepsStep DEF EveryPinIsRead
<1>1. ASSUME NEW r \in Runs, NEW s \in Stamps, Acquire(r, s) PROVE Goal
  <2>1. /\ pc' = [pc EXCEPT ![r] = "probe"]
        /\ work' = [work EXCEPT ![r] = [NoWork EXCEPT !.ts = s]]
        /\ tlock = NoRun /\ Fresh(s)
        /\ UNCHANGED <<snaps, condemned>>
    BY <1>1 DEF Acquire, Goto, retentionVars
  <2>2. Shelf' = Shelf /\ Unpublished' = Unpublished /\ PlainUntilPublished'
    BY <2>1, QuietStep DEF Unpublished, PlainUntilPublished
  <2>3. \A q \in Runs : q # r => pc'[q] = "idle"
    BY <2>1, SnapshotsAssumption DEF IInv, ControlInv, TypeOK, HoldsLock, Actors
  <2>4. work'[r].ts = s
    BY <2>1 DEF NoWork, IInv, ControlInv, TypeOK
  <2>5. \A t \in Stamps : t > s => t \in Unpublished
    <3>1. \A t \in Stamps : t > s => snaps[t] = NoSnapshot /\ t \notin condemned
      <4>1. \A t \in Stamps : t > s => t >= s
        BY SnapshotsAssumption DEF Stamps
      <4> QED BY <2>1, <4>1 DEF Fresh
    <3> QED BY <3>1 DEF Unpublished, NoSnapshot
  <2>6. NewestIsLast'
    BY <2>2, <2>3, <2>4, <2>5 DEF NewestIsLast, Early
  <2> QED BY <2>2, <2>6
<1>2. ASSUME UNCHANGED <<snaps, condemned>>,
             \A r \in Runs : \/ pc'[r] \notin Active
                             \/ pc'[r] = pc[r] /\ work'[r] = work[r]
      PROVE  Goal
  <2>1. Shelf' = Shelf /\ Unpublished' = Unpublished /\ PlainUntilPublished'
    BY <1>2, QuietStep DEF Unpublished, PlainUntilPublished
  <2>2. NewestIsLast'
    BY <1>2, <2>1, NewestStays
  <2> QED BY <2>1, <2>2
<1>3. ASSUME NEW r \in Runs, SkipBusy(r) PROVE Goal
  BY <1>2, <1>3 DEF SkipBusy, retentionVars
<1>4. ASSUME NEW r \in Runs, BackupStep(r) PROVE Goal
  BY <1>0, <1>4, BackupImplements
<1>5. ASSUME NEW a \in Actors, ListSnapshots(a) \/ RetentionDone(a) \/ Killed(a) PROVE Goal
  <2>1. UNCHANGED <<snaps, condemned>>
    BY <1>5 DEF ListSnapshots, RetentionDone, Killed, retentionVars
  <2>2. \A r \in Runs : \/ pc'[r] \notin Active
                        \/ pc'[r] = pc[r] /\ work'[r] = work[r]
    BY <1>5 DEF ListSnapshots, RetentionDone, Killed, Return, Goto, IInv, ControlInv, TypeOK,
       Actors, Active, Early
  <2> QED BY <1>2, <2>1, <2>2
<1>6. ASSUME NEW a \in Actors, PrefetchPinned(a) PROVE Goal
  BY <1>6, ChoiceImplements
<1>7. ASSUME NEW a \in Actors, DeleteSome(a) \/ DeleteSnapshot(a) \/ DeleteTimesOut(a)
      PROVE  Goal
  <2> DEFINE s == Latest(doomed[a])
  <2>1. s \in condemned
    BY <1>7, LatestIsOne DEF DeleteSome, DeleteSnapshot, DeleteTimesOut, ChosenWasFinal,
       IInv, ControlInv, TypeOK
  <2>2. /\ UNCHANGED <<condemned, pc, work>>
        /\ snaps' = snaps \/ snaps' = Without({s}) \/ snaps' = WithHas(s, {})
    BY <1>7 DEF DeleteSome, DeleteSnapshot, DeleteTimesOut, retentionVars
  <2> HIDE DEF s
  <2>3. \A t \in Stamps : t # s => snaps'[t] = snaps[t]
    BY <2>2 DEF Without, WithHas, IInv, ControlInv, TypeOK
  <2>4. Shelf' = Shelf /\ Unpublished' = Unpublished /\ PlainUntilPublished'
    BY <2>1, <2>2, <2>3, QuietStep DEF Finals, Unpublished, PlainUntilPublished
  <2>5. NewestIsLast'
    BY <2>2, <2>4, NewestStays
  <2> QED BY <2>4, <2>5
<1>8. ASSUME NEW s \in Stamps, Pin(s) PROVE Goal
  <2> DEFINE meta == IF snaps[s].meta = "pinned" THEN "plain" ELSE "pinned"
  <2>1. s \in Finals /\ snaps' = WithMeta(s, meta) /\ UNCHANGED <<condemned, pc, work>>
    BY <1>8 DEF Pin, retentionVars
  <2>2. /\ \A t \in Stamps : t # s => snaps'[t] = snaps[t]
        /\ snaps'[s].dir = "final" /\ snaps'[s].meta = meta
    BY <2>1 DEF WithMeta, Finals, Snapshot, IInv, ControlInv, TypeOK
  <2>3. Unpublished' = Unpublished
    BY <2>1, <2>2 DEF Unpublished, Finals
  <2>4. PlainUntilPublished'
    BY <2>1, <2>2, <2>3 DEF PlainUntilPublished, Unpublished
  <2>5. NewestIsLast'
    BY <2>1, <2>3, NewestStays
  <2>6. \A t \in Stamps : t # s => ShelfOf(t)' = ShelfOf(t)
    BY <2>1, <2>2 DEF ShelfOf
  <2>7. CASE s \in condemned
    <3>1. ShelfOf(s)' = ShelfOf(s)
      BY <2>1, <2>7 DEF ShelfOf
    <3>2. Shelf' = Shelf
      BY <2>6, <3>1 DEF Shelf
    <3> QED BY <2>4, <2>5, <3>2
  <2>8. CASE s \notin condemned
    <3>1. ShelfOf(s) \in {"kept", "pinned"}
          /\ ShelfOf(s)' = IF ShelfOf(s) = "pinned" THEN "kept" ELSE "pinned"
      BY <2>1, <2>2, <2>8 DEF ShelfOf, Finals
    <3>2. Shelf' = [Shelf EXCEPT ![s] = IF @ = "pinned" THEN "kept" ELSE "pinned"]
      BY <2>6, <3>1 DEF Shelf
    <3>3. Catalog!Pin(s)
      BY <3>1, <3>2 DEF Catalog!Pin, Shelf
    <3> QED BY <2>4, <2>5, <3>3 DEF Catalog!Next, Catalog!Stamps, Stamps
  <2> QED BY <2>7, <2>8
<1>9. ASSUME UNCHANGED vars PROVE Goal
  BY <1>2, <1>9 DEF vars
<1>10. Goal
  BY <1>1, <1>3, <1>4, <1>5, <1>6, <1>7, <1>8, <1>9 DEF Next, RetentionStep
<1> QED BY <1>0, <1>10

\* The destination implements SnapshotCatalog: backups of any number of processes, with
\* kills, timeouts and retries, and retentions without a lock do no more than to add
\* whole snapshots in order and to give up old ones that are not pinned.
THEOREM ImplementsCatalogThm == ASSUME EveryPinIsRead PROVE Spec => ImplementsCatalog
<1>1. Init => ShelfInv /\ Catalog!Init
  BY ShelfInit
<1>2. IInv /\ ShelfInv /\ [Next]_vars => ShelfInv' /\ [Catalog!Next]_Shelf
  BY ShelfStep
<1>3. Spec => []IInv
  BY Invariance DEF EveryPinIsRead
<1> QED BY <1>1, <1>2, <1>3, PTL DEF Spec, ImplementsCatalog, Catalog!Spec, Shelf

================================================================================
