--------------------------- MODULE RcloneStore_proofs ---------------------------
(***************************************************************************)
(* What holds of an rclone destination for every number of folders,        *)
(* versions, timestamps and processes.                                     *)
(*                                                                         *)
(* That a marker means a mirror of this run rests on current/ never going  *)
(* back (VersionsInv), and needs no lock.  That the destination implements *)
(* the catalog of snapshots, and that a restore gives nothing older than   *)
(* what it resolved, also need the lock of the target, under which nobody  *)
(* else seals a directory while a run purges leftovers, and a test for     *)
(* markers that never fails (MarkersAreSeen).                              *)
(***************************************************************************)
EXTENDS RcloneStore, FiniteSetTheorems, TLAPS, WellFoundedInduction

\* _rclone_exists tells what is there.
MarkersAreSeen == "check" \notin CloudFaults

Content == [CFolders -> Versions]
VaultDir == [dir : BOOLEAN, complete : BOOLEAN, old : Content]
Job == [ts : 0..CloudStamps, folder : 0..CloudFolders, attempt : 0..CloudRetries,
        failed : BOOLEAN, seen : Content]
Fetch == [step : {"idle", "copy", "done"}, ts : 0..CloudStamps, folder : 0..CloudFolders,
          ok : BOOLEAN, got : Content]
Places == {"idle", "connect", "clean", "hook", "sync", "seal", "retain", "prune"}

--------------------------------------------------------------------------------
(* Facts about the operators. *)

LEMMA ConstantsAreTyped ==
  /\ Nothing \in Content
  /\ Absent \in VaultDir
  /\ NoJob \in Job
  /\ NoFetch \in Fetch
  /\ NoFetch.step = "idle"
<1>1. 0 \in Versions /\ 0 \in 0..CloudStamps /\ 0 \in 0..CloudFolders /\ 0 \in 0..CloudRetries
  BY RcloneAssumption DEF Versions
<1>2. Nothing \in Content
  BY <1>1 DEF Nothing, Content
<1> QED BY <1>1, <1>2 DEF Absent, VaultDir, NoJob, Job, NoFetch, Fetch

\* Of some timestamps one is the newest.
LEMMA NewestIsOne ==
  ASSUME NEW S \in SUBSET CStamps, S # {}
  PROVE  Newest(S) \in S /\ \A t \in S : t <= Newest(S)
<1> DEFINE age(s) == CloudStamps - s
           ages == {age(s) : s \in S}
           younger == OpToRel(<, Nat)
<1>1. \A s \in CStamps : s \in Nat /\ age(s) \in Nat
  BY RcloneAssumption DEF CStamps
<1>2. PICK x \in ages : \A y \in ages : <<y, x>> \notin younger
  <2>1. IsWellFoundedOn(younger, Nat)
    BY NatLessThanWellFounded
  <2>2. ages \subseteq Nat /\ ages # {}
    BY <1>1
  <2> HIDE DEF ages, younger
  <2> QED BY <2>1, <2>2, WFMin
<1>3. PICK s \in S : x = age(s)
  BY <1>2
<1>4. \A t \in S : ~(age(t) < age(s))
  BY <1>1, <1>2, <1>3 DEF OpToRel
<1>5. \A t \in S : t <= s
  BY <1>1, <1>3, <1>4, RcloneAssumption
<1> HIDE DEF age, ages, younger
<1> QED BY <1>3, <1>5 DEF Newest

\* An attempt on a folder leaves a job within its bounds, and what it saw.
LEMMA AfterSyncIsTyped ==
  ASSUME NEW w \in Job, w.folder # 0, NEW ok \in BOOLEAN
  PROVE  LET v == AfterSync(w, ok) IN
         /\ v \in Job /\ v.ts = w.ts /\ v.seen = w.seen
         /\ ~v.failed => ~w.failed
         /\ \/ v.folder = w.folder /\ v.failed = w.failed
            \/ /\ v.folder = IF w.folder < CloudFolders THEN w.folder + 1 ELSE 0
               /\ ~v.failed => ok
<1> DEFINE next == IF w.folder < CloudFolders THEN w.folder + 1 ELSE 0
           broken == w.failed \/ ~ok
           first == 0
<1>1. CASE ~ok /\ w.attempt + 1 < CloudRetries
  <2>1. AfterSync(w, ok) = [w EXCEPT !.attempt = w.attempt + 1]
    BY <1>1 DEF AfterSync, Job
  <2>2. w.attempt + 1 \in 0..CloudRetries
    BY <1>1, RcloneAssumption DEF Job
  <2> QED BY <2>1, <2>2 DEF Job
<1>2. CASE ~(~ok /\ w.attempt + 1 < CloudRetries)
  <2>1. AfterSync(w, ok) = [w EXCEPT !.folder = next, !.attempt = first, !.failed = broken]
    BY <1>2 DEF AfterSync, Job
  <2>2. next \in 0..CloudFolders /\ broken \in BOOLEAN /\ first \in 0..CloudRetries
    BY RcloneAssumption DEF Job
  <2>3. ~broken => ok /\ ~w.failed
    OBVIOUS
  <2> HIDE DEF next, broken, first
  <2>4. LET v == AfterSync(w, ok) IN
        v \in Job /\ v.ts = w.ts /\ v.seen = w.seen /\ v.failed = broken /\ v.folder = next
    BY <2>1, <2>2 DEF Job
  <2> QED BY <2>3, <2>4 DEF next
<1> QED BY <1>1, <1>2

\* What the commands make of the directories.
LEMMA RemovalIsTyped ==
  ASSUME vault \in [CStamps -> VaultDir],
         \/ vault' = vault
         \/ \E s : \/ vault' = [vault EXCEPT ![s] = Absent]
                  \/ vault' = [vault EXCEPT ![s].old = Nothing]
  PROVE  vault' \in [CStamps -> VaultDir]
BY ConstantsAreTyped DEF VaultDir

LEMMA SealIsTyped ==
  ASSUME vault \in [CStamps -> VaultDir],
         \/ vault' = vault
         \/ \E s : \/ vault' = [vault EXCEPT ![s].dir = TRUE]
                  \/ vault' = [vault EXCEPT ![s].dir = TRUE, ![s].complete = TRUE]
  PROVE  vault' \in [CStamps -> VaultDir]
BY DEF VaultDir

LEMMA SyncEffectIsTyped ==
  ASSUME origin \in Content, mirror \in Content, vault \in [CStamps -> VaultDir],
         NEW s, NEW f \in CFolders, SyncEffect(s, f)
  PROVE  mirror' \in Content /\ vault' \in [CStamps -> VaultDir]
<1>1. mirror' \in Content
  BY DEF SyncEffect, Content
<1>2. mirror[f] \in Versions
  BY DEF Content
<1>3. [vault EXCEPT ![s].dir = TRUE, ![s].old[f] = mirror[f]] \in [CStamps -> VaultDir]
  BY <1>2 DEF VaultDir, Content
<1> QED BY <1>1, <1>3 DEF SyncEffect

--------------------------------------------------------------------------------
(* Types. *)

\* CloudTypeOK, in the names of this module.
CloudTyped ==
  /\ origin \in Content
  /\ mirror \in Content
  /\ vault \in [CStamps -> VaultDir]
  /\ holder \in CloudRuns \union {NoCloudRun}
  /\ at \in [Writers -> Places]
  /\ job \in [CloudRuns -> Job]
  /\ purging \in [Writers -> SUBSET CStamps]
  /\ fetch \in [Restorers -> Fetch]
  /\ sealed \in [CStamps -> Content]
  /\ dropped \subseteq CStamps

LEMMA TypedIsTypeOK == CloudTyped <=> CloudTypeOK
BY DEF CloudTyped, CloudTypeOK, Content, VaultDir, Places, Job, Fetch

LEMMA LeaveIsTyped ==
  ASSUME CloudTyped, NEW r \in CloudRuns, Leave(r)
  PROVE  /\ holder' = NoCloudRun
         /\ at' = [at EXCEPT ![r] = "idle"] /\ at' \in [Writers -> Places]
         /\ job' = [job EXCEPT ![r] = NoJob] /\ job' \in [CloudRuns -> Job]
BY ConstantsAreTyped DEF CloudTyped, Leave, Step, Places

LEMMA CloudTypeInit == CloudInit => CloudTyped
<1>1. 1 \in Versions
  BY RcloneAssumption DEF Versions
<1> QED BY <1>1, ConstantsAreTyped DEF CloudTyped, CloudInit, Content, Places

LEMMA RunTypes ==
  ASSUME CloudTyped, NEW r \in CloudRuns, CloudRunStep(r)
  PROVE  CloudTyped'
<1> USE ConstantsAreTyped DEF CloudTyped, Step, Places
<1>0. r \in Writers /\ job[r] \in Job
  BY DEF Writers
<1>1. CASE FindPartials(r)
  <2>1. \E gone \in SUBSET Dirs : purging' = [purging EXCEPT ![r] = gone]
    BY <1>1 DEF FindPartials, Listings
  <2>2. Dirs \subseteq CStamps
    BY DEF Dirs
  <2> QED BY <1>0, <1>1, <2>1, <2>2 DEF FindPartials
<1>2. CASE GiveUp(r)
  BY <1>2, LeaveIsTyped DEF GiveUp
<1>3. CASE PurgeTimesOut(r)
  <2>1. vault' \in [CStamps -> VaultDir]
    <3>1. \/ vault' = vault
          \/ \E s : \/ vault' = [vault EXCEPT ![s] = Absent]
                   \/ vault' = [vault EXCEPT ![s].old = Nothing]
      BY <1>3 DEF PurgeTimesOut
    <3> QED BY <3>1, RemovalIsTyped
  <2>2. purging' \in [Writers -> SUBSET CStamps]
    BY <1>0, <1>3 DEF PurgeTimesOut
  <2> QED BY <1>3, <2>1, <2>2, LeaveIsTyped DEF PurgeTimesOut, runVars
<1>4. CASE CleanDone(r)
  BY <1>0, <1>4 DEF CleanDone
<1>5. CASE HookOk(r)
  <2>1. 1 \in 0..CloudFolders
    BY RcloneAssumption
  <2>2. [job[r] EXCEPT !.folder = 1] \in Job
    BY <1>0, <2>1 DEF Job
  <2> QED BY <1>0, <1>5, <2>2 DEF HookOk
<1>6. ASSUME NEW ok \in BOOLEAN, NEW done \in BOOLEAN, Sync(r, ok, done) PROVE CloudTyped'
  <2>1. job[r].folder \in CFolders
    BY <1>0, <1>6 DEF Sync, Job, CFolders
  <2>2. mirror' \in Content /\ vault' \in [CStamps -> VaultDir]
    BY <1>6, <2>1, SyncEffectIsTyped DEF Sync
  <2>3. AfterSync(job[r], ok) \in Job
    BY <1>0, <1>6, AfterSyncIsTyped DEF Sync
  <2> QED BY <1>6, <2>2, <2>3 DEF Sync
<1>7. ASSUME NEW done \in BOOLEAN, SyncTimesOut(r, done) PROVE CloudTyped'
  <2>1. job[r].folder \in CFolders
    BY <1>0, <1>7 DEF SyncTimesOut, Job, CFolders
  <2>2. mirror' \in Content /\ vault' \in [CStamps -> VaultDir]
    BY <1>7, <2>1, SyncEffectIsTyped DEF SyncTimesOut
  <2> QED BY <1>7, <2>2, LeaveIsTyped DEF SyncTimesOut
<1>8. CASE SyncFails(r)
  BY <1>8, LeaveIsTyped DEF SyncFails
<1>9. ASSUME NEW written \in BOOLEAN, WriteMeta(r, written) PROVE CloudTyped'
  <2>1. vault' \in [CStamps -> VaultDir]
    BY <1>9, SealIsTyped DEF WriteMeta
  <2> QED BY <1>0, <1>9, <2>1 DEF WriteMeta
<1>10. CASE Seal(r)
  <2>1. vault' \in [CStamps -> VaultDir]
    BY <1>10, SealIsTyped DEF Seal
  <2> QED BY <1>0, <1>10, <2>1 DEF Seal
<1>11. CASE SealFails(r)
  <2>1. \/ UNCHANGED <<vault, sealed>>
        \/ \E s : /\ vault' = [vault EXCEPT ![s].dir = TRUE, ![s].complete = TRUE]
                 /\ sealed' = [sealed EXCEPT ![s] = mirror]
    BY <1>11 DEF SealFails
  <2>2. vault' \in [CStamps -> VaultDir] /\ sealed' \in [CStamps -> Content]
    BY <2>1, SealIsTyped
  <2> QED BY <1>11, <2>2, LeaveIsTyped DEF SealFails
<1> QED
  BY <1>1, <1>2, <1>3, <1>4, <1>5, <1>6, <1>7, <1>8, <1>9, <1>10, <1>11 DEF CloudRunStep

LEMMA OtherTypes ==
  ASSUME CloudTyped, NEW a \in Writers, Choose(a) \/ Purge(a) \/ ChooseDone(a) \/ Stop(a)
  PROVE  CloudTyped'
<1> USE ConstantsAreTyped DEF CloudTyped, Step, Places
<1>1. CASE Choose(a)
  <2>1. PICK gone \in SUBSET CStamps : /\ purging' = [purging EXCEPT ![a] = gone]
                                       /\ dropped' = dropped \union gone
    BY <1>1 DEF Choose, Listings, Marked, Surplus, Dirs, Complete
  <2> QED BY <1>1, <2>1 DEF Choose
<1>2. CASE Purge(a)
  <2>1. vault' \in [CStamps -> VaultDir]
    <3>1. \/ vault' = vault
          \/ \E s : \/ vault' = [vault EXCEPT ![s] = Absent]
                   \/ vault' = [vault EXCEPT ![s].old = Nothing]
      BY <1>2 DEF Purge
    <3> QED BY <3>1, RemovalIsTyped
  <2> QED BY <1>2, <2>1 DEF Purge, runVars
<1>3. CASE ChooseDone(a)
  BY <1>3, LeaveIsTyped DEF ChooseDone
<1>4. CASE Stop(a)
  <2>1. vault' \in [CStamps -> VaultDir]
    <3>1. vault' = vault \/ \E s : vault' = [vault EXCEPT ![s].old = Nothing]
      BY <1>4 DEF Stop
    <3> QED BY <3>1, RemovalIsTyped
  <2> QED BY <1>4, <2>1 DEF Stop
<1> QED BY <1>1, <1>2, <1>3, <1>4

LEMMA FetchTypes ==
  ASSUME CloudTyped, NEW x \in Restorers,
         Resolve(x) \/ (\E ok \in BOOLEAN : Copy(x, ok)) \/ RestoreEnds(x)
  PROVE  CloudTyped'
<1> USE ConstantsAreTyped DEF CloudTyped
<1>1. CASE Resolve(x)
  <2>1. PICK s \in CStamps :
          fetch' = [fetch EXCEPT ![x] = [NoFetch EXCEPT !.step = "copy", !.folder = 1, !.ts = s]]
    BY <1>1, NewestIsOne DEF Resolve, Listings, Marked, Dirs, Complete
  <2>2. 1 \in 0..CloudFolders /\ s \in 0..CloudStamps
    BY RcloneAssumption DEF CStamps
  <2>3. [NoFetch EXCEPT !.step = "copy", !.folder = 1, !.ts = s] \in Fetch
    BY <2>2 DEF Fetch
  <2> QED BY <1>1, <2>1, <2>3 DEF Resolve, runVars
<1>2. ASSUME NEW ok \in BOOLEAN, Copy(x, ok) PROVE CloudTyped'
  <2> DEFINE w == fetch[x]
             n == IF w.folder < CloudFolders THEN w.folder + 1 ELSE 0
             version == IF ok THEN Source(x) ELSE 0
             fine == w.ok /\ ok
             step == IF n = 0 THEN "done" ELSE "copy"
             v == [w EXCEPT !.got = [w.got EXCEPT ![w.folder] = version], !.ok = fine,
                            !.folder = n, !.step = step]
  <2>1. w \in Fetch /\ n \in 0..CloudFolders
    BY RcloneAssumption DEF Fetch
  <2>2. w.folder \in CFolders => version \in Versions
    BY RcloneAssumption DEF Source, Content, Versions
  <2>3. fine \in BOOLEAN /\ step \in {"copy", "done"}
    OBVIOUS
  <2>4. fetch' = [fetch EXCEPT ![x] = v]
    BY <1>2, <2>1 DEF Copy, Fetch
  <2> HIDE DEF n, version, fine, step
  <2>5. v \in Fetch
    BY <2>1, <2>2, <2>3 DEF Fetch, Content
  <2>6. UNCHANGED <<origin, mirror, vault, runVars, purging, sealed, dropped>>
    BY <1>2 DEF Copy
  <2> HIDE DEF v
  <2> QED BY <2>4, <2>5, <2>6 DEF runVars
<1>3. CASE RestoreEnds(x)
  BY <1>3 DEF RestoreEnds, runVars
<1> QED BY <1>1, <1>2, <1>3

LEMMA CloudTypeStep == CloudTyped /\ [CloudNext]_cloudVars => CloudTyped'
<1> SUFFICES ASSUME CloudTyped, [CloudNext]_cloudVars PROVE CloudTyped'
  OBVIOUS
<1>1. ASSUME NEW r \in CloudRuns, NEW s \in CStamps, Begin(r, s) PROVE CloudTyped'
  <2>1. s \in 0..CloudStamps
    BY DEF CStamps
  <2>2. [NoJob EXCEPT !.ts = s, !.seen = origin] \in Job
    BY <2>1, ConstantsAreTyped DEF CloudTyped, Job
  <2> QED BY <1>1, <2>2 DEF CloudTyped, Begin, Step, Places
<1>2. ASSUME NEW f \in CFolders, Edit(f) PROVE CloudTyped'
  <2>1. origin[f] + 1 \in Versions
    BY <1>2, RcloneAssumption DEF CloudTyped, Edit, Versions, Content
  <2> QED BY <1>2, <2>1 DEF CloudTyped, Edit, Content, runVars
<1>3. CASE UNCHANGED cloudVars
  BY <1>3 DEF CloudTyped, cloudVars
<1> QED BY <1>1, <1>2, <1>3, RunTypes, OtherTypes, FetchTypes DEF CloudNext

\* Type correctness of the destination and of everybody who works on it.
THEOREM CloudTypeCorrect == CloudSpec => []CloudTypeOK
<1>1. CloudInit => CloudTyped
  BY CloudTypeInit
<1>2. CloudTyped /\ [CloudNext]_cloudVars => CloudTyped'
  BY CloudTypeStep
<1> QED BY <1>1, <1>2, TypedIsTypeOK, PTL DEF CloudSpec

--------------------------------------------------------------------------------
(* Versions. *)

\* What a run knows: the source is no older than when the run began, and neither are the
\* folders it has mirrored.
Progress(r) ==
  /\ at[r] # "idle" => \A f \in CFolders : job[r].seen[f] <= origin[f]
  /\ at[r] = "sync" /\ ~job[r].failed =>
       \A f \in CFolders : job[r].folder = 0 \/ f < job[r].folder => job[r].seen[f] <= mirror[f]
  /\ at[r] \in {"seal", "retain", "prune"} => \A f \in CFolders : job[r].seen[f] <= mirror[f]

VersionsInv ==
  /\ \A f \in CFolders : mirror[f] <= origin[f]
  /\ \A s \in CStamps, f \in CFolders : sealed[s][f] <= mirror[f]
  /\ \A r \in CloudRuns : Progress(r)

\* No step makes a version older.
VersionsGrow ==
  /\ \A f \in CFolders : origin[f] <= origin'[f] /\ mirror[f] <= mirror'[f]
  /\ \A f \in CFolders : mirror'[f] <= origin'[f]
  /\ \A s \in CStamps, f \in CFolders : sealed'[s][f] <= mirror'[f]

LEMMA ContentIsNat ==
  ASSUME CloudTyped
  PROVE  /\ \A f \in CFolders : origin[f] \in Nat /\ mirror[f] \in Nat
         /\ \A s \in CStamps, f \in CFolders : sealed[s][f] \in Nat
         /\ \A r \in CloudRuns, f \in CFolders : job[r].seen[f] \in Nat
BY RcloneAssumption DEF CloudTyped, Content, Versions, Job

LEMMA GrowStep ==
  ASSUME CloudTyped, VersionsInv, [CloudNext]_cloudVars
  PROVE  VersionsGrow
<1> USE ContentIsNat DEF VersionsInv, VersionsGrow
<1>1. ASSUME UNCHANGED <<origin, mirror, sealed>> PROVE VersionsGrow
  BY <1>1
<1>2. ASSUME UNCHANGED <<origin, sealed>>, NEW f \in CFolders,
             mirror' = [mirror EXCEPT ![f] = origin[f]]
      PROVE  VersionsGrow
  <2>1. \A g \in CFolders : mirror'[g] = IF g = f THEN origin[f] ELSE mirror[g]
    BY <1>2 DEF CloudTyped, Content
  <2>2. \A g \in CFolders : mirror[g] <= mirror'[g] /\ mirror'[g] <= origin[g]
    BY <2>1
  <2>3. \A t \in CStamps, g \in CFolders : sealed[t][g] <= mirror'[g]
    BY <2>1, <2>2
  <2> QED BY <1>2, <2>2, <2>3
<1>3. ASSUME NEW r \in CloudRuns, CloudRunStep(r) PROVE VersionsGrow
  <2>1. CASE FindPartials(r) \/ GiveUp(r) \/ PurgeTimesOut(r) \/ CleanDone(r) \/ HookOk(r)
             \/ SyncFails(r) \/ (\E written \in BOOLEAN : WriteMeta(r, written))
    BY <1>1, <2>1 DEF FindPartials, GiveUp, PurgeTimesOut, CleanDone, HookOk, SyncFails, WriteMeta
  <2>2. CASE \/ \E ok, done \in BOOLEAN : Sync(r, ok, done)
             \/ \E done \in BOOLEAN : SyncTimesOut(r, done)
    <3>1. /\ UNCHANGED <<origin, sealed>>
          /\ \/ mirror' = mirror
             \/ mirror' = [mirror EXCEPT ![job[r].folder] = origin[job[r].folder]]
          /\ job[r].folder # 0
      BY <2>2 DEF Sync, SyncTimesOut, SyncEffect
    <3>2. job[r].folder \in CFolders
      BY <3>1 DEF CloudTyped, Job, CFolders
    <3> QED BY <1>1, <1>2, <3>1, <3>2
  <2>3. CASE Seal(r) \/ SealFails(r)
    <3>1. /\ UNCHANGED <<origin, mirror>>
          /\ \/ sealed' = sealed
             \/ sealed' = [sealed EXCEPT ![job[r].ts] = mirror]
      BY <2>3 DEF Seal, SealFails
    <3>2. \A t \in CStamps : sealed'[t] = sealed[t] \/ sealed'[t] = mirror
      BY <3>1 DEF CloudTyped
    <3> QED BY <3>1, <3>2
  <2> QED BY <1>3, <2>1, <2>2, <2>3 DEF CloudRunStep
<1>4. ASSUME NEW f \in CFolders, Edit(f) PROVE VersionsGrow
  <2>1. /\ UNCHANGED <<mirror, sealed>>
        /\ \A g \in CFolders : origin'[g] = IF g = f THEN origin[f] + 1 ELSE origin[g]
    BY <1>4 DEF Edit, CloudTyped, Content
  <2> QED BY <2>1
<1>5. ASSUME NEW a \in Writers, Choose(a) \/ Purge(a) \/ ChooseDone(a) \/ Stop(a)
      PROVE  VersionsGrow
  BY <1>1, <1>5 DEF Choose, Purge, ChooseDone, Stop
<1>6. ASSUME NEW x \in Restorers,
             Resolve(x) \/ (\E ok \in BOOLEAN : Copy(x, ok)) \/ RestoreEnds(x)
      PROVE  VersionsGrow
  BY <1>1, <1>6 DEF Resolve, Copy, RestoreEnds
<1>7. ASSUME NEW r \in CloudRuns, NEW s \in CStamps, Begin(r, s) PROVE VersionsGrow
  BY <1>1, <1>7 DEF Begin
<1>8. CASE UNCHANGED cloudVars
  BY <1>1, <1>8 DEF cloudVars
<1> QED BY <1>3, <1>4, <1>5, <1>6, <1>7, <1>8 DEF CloudNext

\* What a run knows stays true, as long as it only goes on to a step that needs no more.
LEMMA ProgressStays ==
  ASSUME CloudTyped, CloudTyped', VersionsInv, VersionsGrow, NEW r \in CloudRuns,
         \/ at'[r] = "idle"
         \/ /\ job'[r] = job[r]
            /\ \/ at'[r] = at[r]
               \/ at[r] # "idle" /\ at'[r] \in {"clean", "hook"}
               \/ /\ at[r] = "sync" /\ job[r].folder = 0 /\ ~job[r].failed
                  /\ at'[r] = "seal"
               \/ /\ at[r] \in {"seal", "retain", "prune"}
                  /\ at'[r] \in {"retain", "prune"}
  PROVE  Progress(r)'
<1>1. /\ \A f \in CFolders : /\ origin[f] \in Nat /\ origin'[f] \in Nat
                             /\ mirror[f] \in Nat /\ mirror'[f] \in Nat
                             /\ job[r].seen[f] \in Nat
                             /\ origin[f] <= origin'[f] /\ mirror[f] <= mirror'[f]
  BY RcloneAssumption DEF CloudTyped, Content, Versions, Job, VersionsGrow
<1>2. CASE at'[r] = "idle"
  BY <1>2 DEF Progress
<1>3. CASE at'[r] # "idle"
  <2>1. job'[r] = job[r] /\ at[r] # "idle" /\ Progress(r)
    BY <1>3 DEF VersionsInv
  <2>2. /\ \A f \in CFolders : job[r].seen[f] <= origin'[f]
        /\ \A f \in CFolders : job[r].seen[f] <= mirror[f] => job[r].seen[f] <= mirror'[f]
    <3>1. \A f \in CFolders : job[r].seen[f] <= origin[f]
      BY <2>1 DEF Progress
    <3> QED BY <1>1, <3>1
  <2>3. \A f \in CFolders : job'[r].seen[f] <= origin'[f]
    <3>1. job'[r].seen = job[r].seen
      BY <2>1
    <3>2. \A f \in CFolders : job[r].seen[f] <= origin'[f]
      BY <2>2
    <3> QED BY <3>1, <3>2
  <2>4. at'[r] = "sync" /\ ~job'[r].failed =>
          \A f \in CFolders : job'[r].folder = 0 \/ f < job'[r].folder =>
            job'[r].seen[f] <= mirror'[f]
    <3>1. at'[r] = "sync" => at[r] = "sync"
      BY <1>3
    <3> QED BY <1>1, <2>1, <2>2, <3>1 DEF Progress
  <2>5. at'[r] \in {"seal", "retain", "prune"} =>
          \A f \in CFolders : job'[r].seen[f] <= mirror'[f]
    <3>1. at'[r] \in {"seal", "retain", "prune"} =>
            \/ at[r] \in {"seal", "retain", "prune"}
            \/ at[r] = "sync" /\ job[r].folder = 0 /\ ~job[r].failed
      BY <1>3
    <3> QED BY <1>1, <2>1, <2>2, <3>1 DEF Progress
  <2> QED BY <2>3, <2>4, <2>5 DEF Progress
<1> QED BY <1>2, <1>3

LEMMA VersionsStep ==
  ASSUME CloudTyped, VersionsInv, [CloudNext]_cloudVars
  PROVE  VersionsInv'
<1>1. CloudTyped' /\ VersionsGrow
  BY CloudTypeStep, GrowStep
<1>2. SUFFICES ASSUME NEW q \in CloudRuns PROVE Progress(q)'
  BY <1>1 DEF VersionsInv, VersionsGrow
<1>3. q \in Writers /\ job[q] \in Job
  BY DEF Writers, CloudTyped
<1>4. ASSUME NEW r \in CloudRuns, NEW s \in CStamps, Begin(r, s) PROVE Progress(q)'
  <2>1. /\ at' = [at EXCEPT ![r] = "connect"] /\ origin' = origin
        /\ job' = [job EXCEPT ![r] = [NoJob EXCEPT !.ts = s, !.seen = origin]]
    BY <1>4 DEF Begin, Step
  <2>2. CASE q = r
    <3>1. at'[q] = "connect" /\ job'[q].seen = origin
      BY <1>3, <2>1, <2>2 DEF CloudTyped, NoJob
    <3> QED BY <2>1, <3>1, ContentIsNat DEF Progress
  <2>3. CASE q # r
    BY <1>1, <1>3, <2>1, <2>3, ProgressStays DEF CloudTyped
  <2> QED BY <2>2, <2>3
<1>5. ASSUME NEW r \in CloudRuns, CloudRunStep(r) PROVE Progress(q)'
  <2>1. CASE q # r
    <3>1. at'[q] = at[q] /\ job'[q] = job[q]
      BY <1>3, <1>5, <2>1
      DEF CloudRunStep, FindPartials, GiveUp, PurgeTimesOut, CleanDone, HookOk, Sync,
          SyncTimesOut, SyncFails, WriteMeta, Seal, SealFails, Leave, Step, CloudTyped, runVars
    <3> QED BY <1>1, <3>1, ProgressStays
  <2>2. CASE q = r
    <3>1. CASE HookOk(r)
      <4>1. /\ at[q] # "idle" /\ at'[q] = "sync" /\ job'[q].folder = 1
            /\ job'[q].seen = job[q].seen /\ origin' = origin
        BY <1>3, <2>2, <3>1 DEF HookOk, Step, CloudTyped, Job
      <4>2. \A f \in CFolders : ~(f < 1)
        BY DEF CFolders
      <4> QED BY <4>1, <4>2 DEF Progress, VersionsInv
    <3>2. ASSUME NEW ok \in BOOLEAN, NEW done \in BOOLEAN, Sync(r, ok, done) PROVE Progress(q)'
      <4> DEFINE w == job[q]
                 v == AfterSync(w, ok)
      <4>1. /\ at[q] = "sync" /\ at' = at /\ origin' = origin
            /\ w.folder # 0 /\ w.folder \in CFolders
            /\ job'[q] = v
            /\ ok => mirror' = [mirror EXCEPT ![w.folder] = origin[w.folder]]
        BY <1>3, <2>2, <3>2 DEF Sync, SyncEffect, Job, CFolders, CloudTyped
      <4>2. /\ v.seen = w.seen
            /\ ~v.failed => ~w.failed
            /\ \/ v.folder = w.folder /\ v.failed = w.failed
               \/ /\ v.folder = IF w.folder < CloudFolders THEN w.folder + 1 ELSE 0
                  /\ ~v.failed => ok
        BY <1>3, <4>1, AfterSyncIsTyped
      <4> HIDE DEF v
      <4>3. /\ \A f \in CFolders : /\ w.seen[f] <= origin[f]
                                   /\ w.seen[f] <= mirror[f] => w.seen[f] <= mirror'[f]
            /\ ~w.failed => \A f \in CFolders : f < w.folder => w.seen[f] <= mirror'[f]
        <5>1. /\ \A f \in CFolders : /\ mirror[f] \in Nat /\ mirror'[f] \in Nat
                                     /\ w.seen[f] \in Nat /\ mirror[f] <= mirror'[f]
          BY <1>1, RcloneAssumption DEF CloudTyped, Content, Versions, Job, VersionsGrow
        <5>2. Progress(q)
          BY DEF VersionsInv
        <5> QED BY <4>1, <5>1, <5>2 DEF Progress
      <4>4. ok => w.seen[w.folder] <= mirror'[w.folder]
        BY <4>1, <4>3 DEF CloudTyped, Content
      <4>5. ~v.failed => \A f \in CFolders : v.folder = 0 \/ f < v.folder => w.seen[f] <= mirror'[f]
        <5>1. CASE v.folder = w.folder
          BY <4>1, <4>2, <4>3, <5>1
        <5>2. CASE v.folder = IF w.folder < CloudFolders THEN w.folder + 1 ELSE 0
          <6>1. \A f \in CFolders : v.folder = 0 \/ f < v.folder => f < w.folder \/ f = w.folder
            BY <4>1, <5>2, RcloneAssumption DEF CFolders
          <6> QED BY <4>1, <4>2, <4>3, <4>4, <5>2, <6>1
        <5> QED BY <4>2, <5>1, <5>2
      <4> QED BY <4>1, <4>2, <4>3, <4>5 DEF Progress
    <3>3. CASE ~HookOk(r) /\ ~\E ok, done \in BOOLEAN : Sync(r, ok, done)
      <4>1. \/ at'[q] = "idle"
            \/ /\ job'[q] = job[q]
               /\ \/ at'[q] = at[q]
                  \/ at[q] # "idle" /\ at'[q] \in {"clean", "hook"}
                  \/ /\ at[q] = "sync" /\ job[q].folder = 0 /\ ~job[q].failed
                     /\ at'[q] = "seal"
                  \/ at[q] = "seal" /\ at'[q] = "retain"
        BY <1>3, <1>5, <2>2, <3>3
        DEF CloudRunStep, FindPartials, GiveUp, PurgeTimesOut, CleanDone, SyncTimesOut,
            SyncFails, WriteMeta, Seal, SealFails, Leave, Step, CloudTyped, runVars
      <4> QED BY <1>1, <4>1, ProgressStays
    <3> QED BY <3>1, <3>2, <3>3
  <2> QED BY <2>1, <2>2
<1>6. ASSUME NEW a \in Writers, Choose(a) \/ Purge(a) \/ ChooseDone(a) \/ Stop(a)
      PROVE  Progress(q)'
  <2>1. CASE Purge(a)
    BY <1>1, <2>1, ProgressStays DEF Purge, runVars
  <2>2. CASE Choose(a)
    <3>1. /\ at' = [at EXCEPT ![a] = "prune"] /\ job' = job
          /\ a \in CloudRuns => at[a] = "retain"
      BY <2>2, RcloneAssumption DEF Choose, Step
    <3>2. at'[q] = at[q] \/ (at[q] = "retain" /\ at'[q] = "prune")
      BY <1>3, <3>1 DEF CloudTyped
    <3> QED BY <1>1, <3>1, <3>2, ProgressStays
  <2>3. CASE ChooseDone(a) \/ Stop(a)
    <3>1. /\ at' = [at EXCEPT ![a] = "idle"]
          /\ q # a => job'[q] = job[q]
      BY <2>3 DEF ChooseDone, Stop, Leave, Step, CloudTyped
    <3>2. at'[q] = "idle" \/ (at'[q] = at[q] /\ job'[q] = job[q])
      BY <1>3, <3>1 DEF CloudTyped
    <3> QED BY <1>1, <3>2, ProgressStays
  <2> QED BY <1>6, <2>1, <2>2, <2>3
<1>7. ASSUME NEW x \in Restorers,
             Resolve(x) \/ (\E ok \in BOOLEAN : Copy(x, ok)) \/ RestoreEnds(x)
      PROVE  Progress(q)'
  BY <1>1, <1>7, ProgressStays DEF Resolve, Copy, RestoreEnds, runVars
<1>8. ASSUME NEW f \in CFolders, Edit(f) PROVE Progress(q)'
  BY <1>1, <1>8, ProgressStays DEF Edit, runVars
<1>9. CASE UNCHANGED cloudVars
  BY <1>1, <1>9, ProgressStays DEF cloudVars
<1> QED BY <1>4, <1>5, <1>6, <1>7, <1>8, <1>9 DEF CloudNext

LEMMA VersionsInit == CloudInit => VersionsInv
<1> SUFFICES ASSUME CloudInit PROVE VersionsInv
  OBVIOUS
<1>1. /\ \A f \in CFolders : origin[f] = 1 /\ mirror[f] = 0
      /\ \A s \in CStamps, f \in CFolders : sealed[s][f] = 0
      /\ \A r \in CloudRuns : at[r] = "idle"
  BY DEF CloudInit, Nothing, Writers
<1> QED BY <1>1 DEF VersionsInv, Progress

LEMMA VersionsInvariance == CloudSpec => [](CloudTyped /\ VersionsInv)
BY CloudTypeInit, CloudTypeStep, VersionsInit, VersionsStep, PTL DEF CloudSpec

\* However often attempts, runs and purges fail or are killed: a run only writes the
\* marker of a snapshot when every folder in current/ is at least what the source had
\* when the run began.
THEOREM SealedIsMirroredThm == CloudSpec => []SealedIsMirrored
<1>1. CloudTyped /\ VersionsInv => SealedIsMirrored
  <2> SUFFICES ASSUME CloudTyped, VersionsInv, NEW r \in CloudRuns,
                      at[r] \in {"seal", "retain", "prune"}, NEW f \in CFolders
               PROVE  mirror[f] >= job[r].seen[f]
    BY DEF SealedIsMirrored
  <2>1. job[r].seen[f] <= mirror[f]
    BY DEF VersionsInv, Progress
  <2> QED BY <2>1, ContentIsNat
<1> QED BY <1>1, VersionsInvariance, PTL

--------------------------------------------------------------------------------
(* Complete directories. *)

\* Everything that is complete, or was until a retention chose it.
Known == Complete \union dropped

RunnerHasLock == \A r \in CloudRuns : at[r] # "idle" => holder = r

\* Until a run seals its directory nobody takes that for a snapshot.
OwnIsUnknown ==
  \A r \in CloudRuns : at[r] \in {"connect", "clean", "hook", "sync", "seal"} =>
    job[r].ts \in CStamps /\ job[r].ts \notin Known

\* A cleanup is after what is not complete, a retention after what it chose.
PurgesAreSafe ==
  \A a \in Writers :
    /\ purging[a] # {} => at[a] \in {"clean", "prune"}
    /\ at[a] = "clean" => purging[a] \intersect Complete = {}
    /\ at[a] = "prune" => purging[a] \subseteq dropped
    /\ a \in CloudPruners => at[a] \in {"idle", "prune"}

FetchedIsKnown == \A x \in Restorers : fetch[x].step # "idle" => fetch[x].ts \in Known

MarkersAreInside == \A s \in CStamps : vault[s].complete => vault[s].dir

VaultInv ==
  /\ RunnerHasLock
  /\ OwnIsUnknown
  /\ PurgesAreSafe
  /\ FetchedIsKnown
  /\ MarkersAreInside

\* What a step may do to the directories: only the run that is at it seals one.
VaultChange ==
  /\ MarkersAreInside'
  /\ dropped \subseteq dropped'
  /\ \A s \in Complete : s \in Complete' \/ s \in dropped
  /\ \A s \in Complete' : \/ s \in Complete
                          \/ \E r \in CloudRuns : at[r] = "seal" /\ job[r].ts = s

LEMMA NothingChanges ==
  ASSUME VaultInv, vault' = vault, dropped \subseteq dropped'
  PROVE  VaultChange /\ Complete' = Complete
BY DEF VaultInv, VaultChange, Complete, Dirs, MarkersAreInside

\* A purge of what is not complete, or was chosen.
LEMMA PurgeChange ==
  ASSUME CloudTyped, VaultInv, NEW a \in Writers, NEW s \in purging[a], dropped' = dropped,
         \/ vault' = vault
         \/ vault' = [vault EXCEPT ![s] = Absent]
         \/ vault' = [vault EXCEPT ![s].old = Nothing]
  PROVE  VaultChange /\ Complete' \subseteq Complete
<1>1. s \in purging[a] /\ s \in CStamps
  BY DEF CloudTyped
<1>2. s \in dropped \/ s \notin Complete
  BY <1>1 DEF VaultInv, PurgesAreSafe
<1>3. \/ vault' = vault
      \/ vault' = [vault EXCEPT ![s] = Absent]
      \/ vault' = [vault EXCEPT ![s].old = Nothing]
  OBVIOUS
<1>4. \A t \in CStamps :
        /\ t # s => vault'[t] = vault[t]
        /\ vault'[t].dir = vault[t].dir \/ vault'[t] = Absent
        /\ vault'[t].complete = vault[t].complete \/ vault'[t] = Absent
  BY <1>3 DEF CloudTyped, VaultDir
<1>5. MarkersAreInside'
  BY <1>4 DEF VaultInv, MarkersAreInside, Absent
<1> QED BY <1>2, <1>4, <1>5 DEF VaultChange, Complete, Dirs, Absent

\* A transfer, and meta.json, leave the markers alone.
LEMMA MarkersStay ==
  ASSUME CloudTyped, VaultInv, dropped' = dropped, NEW s, NEW f,
         \/ vault' = vault
         \/ vault' = [vault EXCEPT ![s].dir = TRUE]
         \/ vault' = [vault EXCEPT ![s].dir = TRUE, ![s].old[f] = mirror[f]]
  PROVE  VaultChange /\ Complete' = Complete
<1>1. \A t \in CStamps : /\ vault[t].dir => vault'[t].dir
                         /\ vault'[t].complete = vault[t].complete
  BY DEF CloudTyped, VaultDir
<1> QED BY <1>1 DEF VaultInv, VaultChange, Complete, Dirs, MarkersAreInside

LEMMA SealChange ==
  ASSUME CloudTyped, VaultInv, dropped' = dropped, NEW r \in CloudRuns, at[r] = "seal",
         vault' = [vault EXCEPT ![job[r].ts].dir = TRUE, ![job[r].ts].complete = TRUE]
  PROVE  VaultChange /\ Complete' = Complete \union {job[r].ts}
<1> DEFINE s == job[r].ts
<1>1. s \in CStamps
  BY DEF VaultInv, OwnIsUnknown
<1> HIDE DEF s
<1>2. /\ \A t \in CStamps : t # s => vault'[t] = vault[t]
      /\ vault'[s].dir /\ vault'[s].complete
  BY <1>1 DEF CloudTyped, VaultDir, s
<1> QED BY <1>1, <1>2 DEF VaultInv, VaultChange, Complete, Dirs, MarkersAreInside, s

\* The parts of VaultInv that a step of one process leaves to prove.
LEMMA VaultParts ==
  ASSUME CloudTyped, CloudTyped', VaultInv, VaultChange,
         \A r \in CloudRuns : at'[r] # "idle" => holder' = r,
         \A r \in CloudRuns : at'[r] \in {"connect", "clean", "hook", "sync", "seal"} =>
           job'[r].ts \in CStamps /\ job'[r].ts \notin Known',
         \A a \in Writers :
           /\ purging'[a] # {} => at'[a] \in {"clean", "prune"}
           /\ at'[a] = "clean" => purging'[a] \intersect Complete' = {}
           /\ at'[a] = "prune" => purging'[a] \subseteq dropped'
           /\ a \in CloudPruners => at'[a] \in {"idle", "prune"},
         \A x \in Restorers : fetch'[x].step # "idle" =>
           \/ fetch[x].step # "idle" /\ fetch'[x].ts = fetch[x].ts
           \/ fetch'[x].ts \in Complete
  PROVE  VaultInv'
<1>1. \A s \in Known : s \in Known'
  BY DEF VaultChange, Known
<1>2. FetchedIsKnown'
  BY <1>1 DEF VaultInv, FetchedIsKnown, Known
<1> QED BY <1>2 DEF VaultInv, VaultChange, RunnerHasLock, OwnIsUnknown, PurgesAreSafe

\* The run that holds the lock is the only one that does anything.
LEMMA OthersRest ==
  ASSUME VaultInv, NEW r \in CloudRuns, at[r] # "idle"
  PROVE  holder = r /\ \A q \in CloudRuns : q # r => at[q] = "idle"
BY DEF VaultInv, RunnerHasLock

LEMMA RunParts ==
  ASSUME CloudTyped, CloudTyped', VaultInv, VaultChange, NEW r \in CloudRuns, at[r] # "idle",
         \A a \in Writers : a # r => at'[a] = at[a] /\ purging'[a] = purging[a],
         fetch' = fetch,
         at'[r] = "idle" \/ holder' = holder,
         at'[r] \in {"connect", "clean", "hook", "sync", "seal"} =>
           job'[r].ts = job[r].ts /\ job[r].ts \notin Known' /\ at[r] \notin {"retain", "prune"},
         purging'[r] # {} => at'[r] \in {"clean", "prune"},
         at'[r] = "clean" => purging'[r] \intersect Complete' = {},
         at'[r] = "prune" => purging'[r] \subseteq dropped'
  PROVE  VaultInv'
<1>1. holder = r /\ \A q \in CloudRuns : q # r => at[q] = "idle"
  BY OthersRest
<1>2. \A q \in CloudRuns : q \in Writers /\ (q # r => at'[q] = "idle")
  BY <1>1 DEF Writers
<1>3. job[r].ts \in CStamps \/ at[r] \notin {"connect", "clean", "hook", "sync", "seal"}
  BY DEF VaultInv, OwnIsUnknown
<1>4. at[r] \in Places
  BY <1>2 DEF CloudTyped
<1>5. \A q \in CloudRuns : at'[q] # "idle" => holder' = q
  BY <1>1, <1>2
<1>6. \A q \in CloudRuns : at'[q] \in {"connect", "clean", "hook", "sync", "seal"} =>
        job'[q].ts \in CStamps /\ job'[q].ts \notin Known'
  BY <1>2, <1>3, <1>4 DEF Places
<1>7. \A a \in Writers :
        /\ purging'[a] # {} => at'[a] \in {"clean", "prune"}
        /\ at'[a] = "clean" => purging'[a] \intersect Complete' = {}
        /\ at'[a] = "prune" => purging'[a] \subseteq dropped'
        /\ a \in CloudPruners => at'[a] \in {"idle", "prune"}
  <2> SUFFICES ASSUME NEW a \in Writers
               PROVE  /\ purging'[a] # {} => at'[a] \in {"clean", "prune"}
                      /\ at'[a] = "clean" => purging'[a] \intersect Complete' = {}
                      /\ at'[a] = "prune" => purging'[a] \subseteq dropped'
                      /\ a \in CloudPruners => at'[a] \in {"idle", "prune"}
    OBVIOUS
  <2>1. CASE a = r
    BY <2>1, RcloneAssumption
  <2>2. CASE a # r
    <3>1. at'[a] = at[a] /\ purging'[a] = purging[a] /\ dropped \subseteq dropped'
      BY <2>2 DEF VaultChange
    <3>2. at[a] # "clean"
      BY <1>1, <2>2 DEF Writers, VaultInv, PurgesAreSafe
    <3> QED BY <3>1, <3>2 DEF VaultInv, PurgesAreSafe
  <2> QED BY <2>1, <2>2
<1> QED BY <1>5, <1>6, <1>7, VaultParts

LEMMA RunVault ==
  ASSUME MarkersAreSeen, CloudTyped, CloudTyped', VaultInv, NEW r \in CloudRuns, CloudRunStep(r)
  PROVE  VaultChange /\ VaultInv'
<1>0. r \in Writers /\ at[r] \in Places /\ job[r] \in Job
  BY DEF Writers, CloudTyped
<1> USE DEF Step
<1>1. CASE FindPartials(r)
  <2>1. at[r] = "connect" /\ VaultChange /\ Complete' = Complete
    BY <1>1, NothingChanges DEF FindPartials
  <2>2. PICK gone \in SUBSET Dirs : /\ gone \intersect Complete = {}
                                   /\ purging' = [purging EXCEPT ![r] = gone]
    BY <1>1 DEF FindPartials, Listings, Marked, MarkersAreSeen
  <2>3. at'[r] = "clean" /\ purging'[r] = gone
    BY <1>0, <1>1, <2>2 DEF FindPartials, CloudTyped
  <2>4. \A a \in Writers : a # r => at'[a] = at[a] /\ purging'[a] = purging[a]
    BY <1>1, <2>2 DEF FindPartials, CloudTyped
  <2>5. UNCHANGED <<fetch, holder, job, dropped>>
    BY <1>1 DEF FindPartials
  <2>6. job[r].ts \notin Known'
    BY <2>1, <2>5 DEF VaultInv, OwnIsUnknown, Known
  <2> QED BY <2>1, <2>2, <2>3, <2>4, <2>5, <2>6, RunParts
<1>2. CASE GiveUp(r) \/ SyncFails(r)
  <2>1. /\ at[r] \in {"connect", "hook", "sync"} /\ UNCHANGED <<vault, fetch, purging, dropped>>
        /\ at' = [at EXCEPT ![r] = "idle"]
    BY <1>2 DEF GiveUp, SyncFails, Leave
  <2>2. VaultChange
    BY <2>1, NothingChanges
  <2>3. at'[r] = "idle" /\ \A a \in Writers : a # r => at'[a] = at[a]
    BY <1>0, <2>1 DEF CloudTyped
  <2>4. purging[r] = {}
    BY <1>0, <2>1 DEF VaultInv, PurgesAreSafe
  <2> QED BY <2>1, <2>2, <2>3, <2>4, RunParts
<1>3. CASE PurgeTimesOut(r)
  <2>1. /\ purging[r] # {} /\ purging' = [purging EXCEPT ![r] = {}]
        /\ UNCHANGED <<fetch, dropped>>
        /\ \/ at[r] = "clean" /\ at' = [at EXCEPT ![r] = "idle"]
           \/ at[r] = "prune" /\ at' = at /\ holder' = holder
    BY <1>3 DEF PurgeTimesOut, Leave, runVars
  <2>2. VaultChange
    <3>1. PICK s \in purging[r] :
          \/ vault' = vault
          \/ vault' = [vault EXCEPT ![s] = Absent]
          \/ vault' = [vault EXCEPT ![s].old = Nothing]
      BY <1>3 DEF PurgeTimesOut
    <3> QED BY <1>0, <2>1, <3>1, PurgeChange
  <2>3. /\ at'[r] = "idle" \/ (at'[r] = "prune" /\ holder' = holder)
        /\ purging'[r] = {}
        /\ \A a \in Writers : a # r => at'[a] = at[a] /\ purging'[a] = purging[a]
    BY <1>0, <2>1 DEF CloudTyped
  <2> QED BY <2>1, <2>2, <2>3, RunParts
<1>4. CASE CleanDone(r) \/ HookOk(r)
  <2>1. /\ at[r] \in {"clean", "hook"} /\ UNCHANGED <<vault, fetch, purging, dropped, holder>>
        /\ \E where \in {"hook", "sync"} : at' = [at EXCEPT ![r] = where]
        /\ job'[r].ts = job[r].ts
        /\ at[r] = "clean" => purging[r] = {}
    BY <1>0, <1>4 DEF CleanDone, HookOk, CloudTyped, Job
  <2>2. VaultChange /\ Complete' = Complete
    BY <2>1, NothingChanges
  <2>3. at'[r] \in {"hook", "sync"} /\ \A a \in Writers : a # r => at'[a] = at[a]
    BY <1>0, <2>1 DEF CloudTyped
  <2>4. job[r].ts \notin Known' /\ purging[r] = {}
    BY <1>0, <2>1, <2>2 DEF VaultInv, OwnIsUnknown, Known, PurgesAreSafe
  <2> QED BY <2>1, <2>2, <2>3, <2>4, RunParts
<1>5. ASSUME NEW ok \in BOOLEAN, NEW done \in BOOLEAN, Sync(r, ok, done)
      PROVE  VaultChange /\ VaultInv'
  <2>1. /\ at[r] = "sync" /\ UNCHANGED <<at, fetch, purging, dropped, holder>>
        /\ job'[r] = AfterSync(job[r], ok) /\ job[r].folder # 0
    BY <1>5 DEF Sync, CloudTyped
  <2>2. job'[r].ts = job[r].ts
    BY <1>0, <2>1, AfterSyncIsTyped
  <2>3. \/ vault' = vault
        \/ vault' = [vault EXCEPT ![job[r].ts].dir = TRUE,
                                 ![job[r].ts].old[job[r].folder] = mirror[job[r].folder]]
    BY <1>5 DEF Sync, SyncEffect
  <2>4. VaultChange /\ Complete' = Complete
    BY <2>1, <2>3, MarkersStay
  <2>5. job[r].ts \notin Known' /\ purging[r] = {}
    BY <1>0, <2>1, <2>4 DEF VaultInv, OwnIsUnknown, Known, PurgesAreSafe
  <2> QED BY <2>1, <2>2, <2>4, <2>5, RunParts
<1>6. ASSUME NEW done \in BOOLEAN, SyncTimesOut(r, done) PROVE VaultChange /\ VaultInv'
  <2>1. /\ at[r] = "sync" /\ UNCHANGED <<fetch, purging, dropped>>
        /\ at' = [at EXCEPT ![r] = "idle"]
    BY <1>6 DEF SyncTimesOut, Leave
  <2>2. \/ vault' = vault
        \/ vault' = [vault EXCEPT ![job[r].ts].dir = TRUE,
                                 ![job[r].ts].old[job[r].folder] = mirror[job[r].folder]]
    BY <1>6 DEF SyncTimesOut, SyncEffect
  <2>3. VaultChange
    BY <2>1, <2>2, MarkersStay
  <2>4. at'[r] = "idle" /\ \A a \in Writers : a # r => at'[a] = at[a]
    BY <1>0, <2>1 DEF CloudTyped
  <2>5. purging[r] = {}
    BY <1>0, <2>1 DEF VaultInv, PurgesAreSafe
  <2> QED BY <2>1, <2>3, <2>4, <2>5, RunParts
<1>7. ASSUME NEW written \in BOOLEAN, WriteMeta(r, written) PROVE VaultChange /\ VaultInv'
  <2>1. /\ at[r] = "sync" /\ UNCHANGED <<fetch, purging, dropped, holder, job>>
        /\ at' = [at EXCEPT ![r] = "seal"]
        /\ vault' = vault \/ vault' = [vault EXCEPT ![job[r].ts].dir = TRUE]
    BY <1>7 DEF WriteMeta
  <2>2. VaultChange /\ Complete' = Complete
    BY <2>1, MarkersStay
  <2>3. at'[r] = "seal" /\ \A a \in Writers : a # r => at'[a] = at[a]
    BY <1>0, <2>1 DEF CloudTyped
  <2>4. job[r].ts \notin Known' /\ purging[r] = {}
    BY <1>0, <2>1, <2>2 DEF VaultInv, OwnIsUnknown, Known, PurgesAreSafe
  <2> QED BY <2>1, <2>2, <2>3, <2>4, RunParts
<1>8. CASE Seal(r) \/ SealFails(r)
  <2>1. /\ at[r] \in {"sync", "seal"} /\ UNCHANGED <<fetch, purging, dropped>>
        /\ \/ at' = [at EXCEPT ![r] = "retain"] /\ holder' = holder
           \/ at' = [at EXCEPT ![r] = "idle"]
        /\ \/ vault' = vault
           \/ /\ at[r] = "seal"
              /\ vault' = [vault EXCEPT ![job[r].ts].dir = TRUE, ![job[r].ts].complete = TRUE]
    BY <1>8 DEF Seal, SealFails, Leave
  <2>2. VaultChange
    BY <2>1, NothingChanges, SealChange
  <2>3. /\ at'[r] = "idle" \/ (at'[r] = "retain" /\ holder' = holder)
        /\ \A a \in Writers : a # r => at'[a] = at[a]
    BY <1>0, <2>1 DEF CloudTyped
  <2>4. purging[r] = {}
    BY <1>0, <2>1 DEF VaultInv, PurgesAreSafe
  <2> QED BY <2>1, <2>2, <2>3, <2>4, RunParts
<1> QED BY <1>1, <1>2, <1>3, <1>4, <1>5, <1>6, <1>7, <1>8 DEF CloudRunStep

\* The choice of a retention is among what is complete.
LEMMA ChoiceIsComplete ==
  ASSUME MarkersAreSeen, CloudTyped, NEW a \in Writers, Choose(a)
  PROVE  \E gone \in SUBSET Complete : /\ purging' = [purging EXCEPT ![a] = gone]
                                       /\ dropped' = dropped \union gone
<1>1. PICK seen \in Listings : \E marked \in Marked(seen) :
         /\ purging' = [purging EXCEPT ![a] = Surplus(marked)]
         /\ dropped' = dropped \union Surplus(marked)
  BY DEF Choose
<1>2. PICK marked \in Marked(seen) :
         /\ purging' = [purging EXCEPT ![a] = Surplus(marked)]
         /\ dropped' = dropped \union Surplus(marked)
  BY <1>1
<1>3. marked \subseteq Complete /\ Surplus(marked) \subseteq marked
  BY <1>2 DEF Marked, MarkersAreSeen, Surplus
<1> QED BY <1>2, <1>3

LEMMA OtherVault ==
  ASSUME MarkersAreSeen, CloudTyped, CloudTyped', VaultInv, NEW a \in Writers,
         Choose(a) \/ Purge(a) \/ ChooseDone(a) \/ Stop(a)
  PROVE  VaultChange /\ VaultInv'
<1>0. at[a] \in Places /\ \A r \in CloudRuns : r \in Writers
  BY DEF Writers, CloudTyped
<1> USE DEF Step
<1>1. CASE Choose(a)
  <2>1. PICK gone \in SUBSET Complete : /\ purging' = [purging EXCEPT ![a] = gone]
                                       /\ dropped' = dropped \union gone
    BY <1>1, ChoiceIsComplete
  <2>2. UNCHANGED <<vault, holder, job, fetch>> /\ at' = [at EXCEPT ![a] = "prune"]
    BY <1>1 DEF Choose
  <2>3. VaultChange /\ Complete' = Complete
    BY <2>1, <2>2, NothingChanges
  <2>4. \A b \in Writers : /\ b # a => at'[b] = at[b] /\ purging'[b] = purging[b]
                           /\ b = a => at'[b] = "prune" /\ purging'[b] = gone
    BY <2>1, <2>2 DEF CloudTyped
  <2>5. a \in CloudRuns => at[a] # "idle"
    BY <1>1, RcloneAssumption DEF Choose
  <2>6. \A r \in CloudRuns : at'[r] # "idle" => holder' = r
    BY <1>0, <2>2, <2>4, <2>5 DEF VaultInv, RunnerHasLock
  <2>7. \A r \in CloudRuns : at'[r] \in {"connect", "clean", "hook", "sync", "seal"} =>
          job'[r].ts \in CStamps /\ job'[r].ts \notin Known'
    BY <1>0, <2>1, <2>2, <2>3, <2>4 DEF VaultInv, OwnIsUnknown, Known
  <2>8. \A b \in Writers :
          /\ purging'[b] # {} => at'[b] \in {"clean", "prune"}
          /\ at'[b] = "clean" => purging'[b] \intersect Complete' = {}
          /\ at'[b] = "prune" => purging'[b] \subseteq dropped'
          /\ b \in CloudPruners => at'[b] \in {"idle", "prune"}
    BY <2>1, <2>3, <2>4 DEF VaultInv, PurgesAreSafe
  <2>9. \A x \in Restorers : fetch'[x].step # "idle" =>
          fetch[x].step # "idle" /\ fetch'[x].ts = fetch[x].ts
    BY <2>2
  <2> QED BY <2>3, <2>6, <2>7, <2>8, <2>9, VaultParts
<1>2. CASE Purge(a)
  <2>1. /\ \E s \in purging[a] : purging' = [purging EXCEPT ![a] = @ \ {s}]
        /\ UNCHANGED <<holder, at, job, fetch, dropped>>
    BY <1>2 DEF Purge, runVars
  <2>2. VaultChange /\ Complete' \subseteq Complete
    <3>1. PICK s \in purging[a] :
          \/ vault' = vault
          \/ vault' = [vault EXCEPT ![s] = Absent]
          \/ vault' = [vault EXCEPT ![s].old = Nothing]
      BY <1>2 DEF Purge
    <3> QED BY <2>1, <3>1, PurgeChange
  <2>3. \A b \in Writers : purging'[b] \subseteq purging[b]
    BY <2>1 DEF CloudTyped
  <2>4. \A r \in CloudRuns : at'[r] # "idle" => holder' = r
    BY <2>1 DEF VaultInv, RunnerHasLock
  <2>5. \A r \in CloudRuns : at'[r] \in {"connect", "clean", "hook", "sync", "seal"} =>
          job'[r].ts \in CStamps /\ job'[r].ts \notin Known'
    BY <2>1, <2>2 DEF VaultInv, OwnIsUnknown, Known
  <2>6. \A b \in Writers :
          /\ purging'[b] # {} => at'[b] \in {"clean", "prune"}
          /\ at'[b] = "clean" => purging'[b] \intersect Complete' = {}
          /\ at'[b] = "prune" => purging'[b] \subseteq dropped'
          /\ b \in CloudPruners => at'[b] \in {"idle", "prune"}
    BY <2>1, <2>2, <2>3 DEF VaultInv, PurgesAreSafe
  <2>7. \A x \in Restorers : fetch'[x].step # "idle" =>
          fetch[x].step # "idle" /\ fetch'[x].ts = fetch[x].ts
    BY <2>1
  <2> QED BY <2>2, <2>4, <2>5, <2>6, <2>7, VaultParts
<1>3. CASE ChooseDone(a) \/ Stop(a)
  <2>1. /\ UNCHANGED <<fetch, dropped>> /\ at' = [at EXCEPT ![a] = "idle"]
        /\ at[a] # "idle"
        /\ \/ purging[a] = {} /\ purging' = purging
           \/ purging' = [purging EXCEPT ![a] = {}]
        /\ \A r \in CloudRuns : r # a => job'[r] = job[r]
    BY <1>3 DEF ChooseDone, Stop, Leave, CloudTyped
  <2>2. holder' = holder \/ (holder' = NoCloudRun /\ (a \in CloudRuns \/ holder = a))
    BY <1>3 DEF ChooseDone, Stop, Leave
  <2>3. vault' = vault \/ \E s : vault' = [vault EXCEPT ![s].old = Nothing]
    BY <1>3 DEF ChooseDone, Stop
  <2>4. \A t \in CStamps : /\ vault'[t].dir = vault[t].dir
                           /\ vault'[t].complete = vault[t].complete
    BY <2>3 DEF CloudTyped, VaultDir
  <2>5. VaultChange /\ Complete' = Complete
    BY <2>1, <2>4 DEF VaultInv, VaultChange, MarkersAreInside, Complete, Dirs
  <2>6. \A b \in Writers : /\ b # a => at'[b] = at[b] /\ purging'[b] = purging[b]
                           /\ b = a => at'[b] = "idle" /\ purging'[b] = {}
    BY <2>1 DEF CloudTyped
  <2>7. \A r \in CloudRuns : at'[r] # "idle" => holder' = r
    <3> SUFFICES ASSUME NEW r \in CloudRuns, at'[r] # "idle" PROVE holder' = r
      OBVIOUS
    <3>1. r # a /\ at[r] # "idle" /\ holder = r
      BY <1>0, <2>6 DEF VaultInv, RunnerHasLock
    <3>2. a \notin CloudRuns
      BY <2>1, <3>1 DEF VaultInv, RunnerHasLock
    <3> QED BY <2>2, <3>1, <3>2
  <2>8. \A r \in CloudRuns : at'[r] \in {"connect", "clean", "hook", "sync", "seal"} =>
          job'[r].ts \in CStamps /\ job'[r].ts \notin Known'
    BY <1>0, <2>1, <2>5, <2>6 DEF VaultInv, OwnIsUnknown, Known
  <2>9. \A b \in Writers :
          /\ purging'[b] # {} => at'[b] \in {"clean", "prune"}
          /\ at'[b] = "clean" => purging'[b] \intersect Complete' = {}
          /\ at'[b] = "prune" => purging'[b] \subseteq dropped'
          /\ b \in CloudPruners => at'[b] \in {"idle", "prune"}
    BY <2>1, <2>5, <2>6 DEF VaultInv, PurgesAreSafe
  <2>10. \A x \in Restorers : fetch'[x].step # "idle" =>
          fetch[x].step # "idle" /\ fetch'[x].ts = fetch[x].ts
    BY <2>1
  <2> QED BY <2>5, <2>7, <2>8, <2>9, <2>10, VaultParts
<1> QED BY <1>1, <1>2, <1>3

LEMMA BeginVault ==
  ASSUME CloudTyped, CloudTyped', VaultInv, NEW r \in CloudRuns, NEW s \in CStamps, Begin(r, s)
  PROVE  VaultChange /\ VaultInv'
<1>1. /\ at[r] = "idle" /\ holder = NoCloudRun /\ holder' = r
      /\ UNCHANGED <<vault, purging, fetch, dropped>>
      /\ at' = [at EXCEPT ![r] = "connect"]
      /\ job' = [job EXCEPT ![r] = [NoJob EXCEPT !.ts = s, !.seen = origin]]
  BY DEF Begin, Step
<1>2. r \in Writers /\ \A q \in CloudRuns : q \in Writers /\ at[q] = "idle"
  BY <1>1, RcloneAssumption DEF Writers, VaultInv, RunnerHasLock
<1>3. VaultChange /\ Complete' = Complete
  BY <1>1, NothingChanges
<1>4. s \notin Known
  <2>1. \A t \in Known : t < s
    BY DEF Begin, Known, Complete
  <2>2. s \in Nat
    BY RcloneAssumption DEF CStamps
  <2> QED BY <2>1, <2>2
<1>5. \A a \in Writers : at'[a] = IF a = r THEN "connect" ELSE at[a]
  BY <1>1 DEF CloudTyped
<1>6. job'[r].ts = s
  BY <1>1 DEF CloudTyped, NoJob
<1>7. \A q \in CloudRuns : at'[q] # "idle" => holder' = q
  BY <1>1, <1>2, <1>5
<1>8. \A q \in CloudRuns : at'[q] \in {"connect", "clean", "hook", "sync", "seal"} =>
        job'[q].ts \in CStamps /\ job'[q].ts \notin Known'
  BY <1>1, <1>2, <1>3, <1>4, <1>5, <1>6 DEF Known
<1>9. \A a \in Writers :
        /\ purging'[a] # {} => at'[a] \in {"clean", "prune"}
        /\ at'[a] = "clean" => purging'[a] \intersect Complete' = {}
        /\ at'[a] = "prune" => purging'[a] \subseteq dropped'
        /\ a \in CloudPruners => at'[a] \in {"idle", "prune"}
  BY <1>1, <1>3, <1>5, RcloneAssumption DEF VaultInv, PurgesAreSafe
<1>10. \A x \in Restorers : fetch'[x].step # "idle" =>
         fetch[x].step # "idle" /\ fetch'[x].ts = fetch[x].ts
  BY <1>1
<1> QED BY <1>3, <1>7, <1>8, <1>9, <1>10, VaultParts

\* What a restorer resolves is complete, and it keeps it to the end.
LEMMA FetchedStays ==
  ASSUME CloudTyped, NEW x \in Restorers,
         Resolve(x) \/ (\E ok \in BOOLEAN : Copy(x, ok)) \/ RestoreEnds(x)
  PROVE  \A y \in Restorers : fetch'[y].step # "idle" =>
           \/ fetch[y].step # "idle" /\ fetch'[y].ts = fetch[y].ts
           \/ fetch'[y].ts \in Complete
<1>1. CASE Resolve(x)
  <2>1. PICK s \in Complete :
          fetch' = [fetch EXCEPT ![x] = [NoFetch EXCEPT !.step = "copy", !.folder = 1, !.ts = s]]
    <3>1. PICK seen \in Listings : \E marked \in Marked(seen) :
            /\ marked # {}
            /\ fetch' = [fetch EXCEPT ![x] = [NoFetch EXCEPT !.step = "copy", !.folder = 1,
                                                            !.ts = Newest(marked)]]
      BY <1>1 DEF Resolve
    <3>2. PICK marked \in Marked(seen) :
            /\ marked # {}
            /\ fetch' = [fetch EXCEPT ![x] = [NoFetch EXCEPT !.step = "copy", !.folder = 1,
                                                            !.ts = Newest(marked)]]
      BY <3>1
    <3>3. marked \subseteq Complete
      BY <3>2 DEF Marked
    <3>4. Newest(marked) \in marked
      BY <3>2, <3>3, NewestIsOne DEF Complete, Dirs
    <3> QED BY <3>2, <3>3, <3>4
  <2>2. fetch'[x].ts = s /\ \A y \in Restorers : y # x => fetch'[y] = fetch[y]
    BY <2>1 DEF CloudTyped, NoFetch
  <2> QED BY <2>2
<1>2. ASSUME NEW ok \in BOOLEAN, Copy(x, ok)
      PROVE  \A y \in Restorers : fetch'[y].step # "idle" =>
               fetch[y].step # "idle" /\ fetch'[y].ts = fetch[y].ts
  <2>1. fetch[x].step = "copy" /\ fetch'[x].ts = fetch[x].ts
    BY <1>2 DEF Copy, CloudTyped, Fetch
  <2>2. \A y \in Restorers : y # x => fetch'[y] = fetch[y]
    BY <1>2 DEF Copy, CloudTyped
  <2> QED BY <2>1, <2>2
<1>3. CASE RestoreEnds(x)
  BY <1>3, ConstantsAreTyped DEF RestoreEnds, CloudTyped
<1> QED BY <1>1, <1>2, <1>3

LEMMA VaultStep ==
  ASSUME MarkersAreSeen, CloudTyped, VaultInv, [CloudNext]_cloudVars
  PROVE  VaultChange /\ VaultInv'
<1>0. CloudTyped'
  BY CloudTypeStep
<1>1. ASSUME NEW r \in CloudRuns, NEW s \in CStamps, Begin(r, s)
      PROVE  VaultChange /\ VaultInv'
  BY <1>0, <1>1, BeginVault
<1>2. ASSUME NEW r \in CloudRuns, CloudRunStep(r) PROVE VaultChange /\ VaultInv'
  BY <1>0, <1>2, RunVault
<1>3. ASSUME NEW a \in Writers, Choose(a) \/ Purge(a) \/ ChooseDone(a) \/ Stop(a)
      PROVE  VaultChange /\ VaultInv'
  BY <1>0, <1>3, OtherVault
<1>4. ASSUME UNCHANGED <<vault, runVars, purging, dropped>>,
             \A y \in Restorers : fetch'[y].step # "idle" =>
               \/ fetch[y].step # "idle" /\ fetch'[y].ts = fetch[y].ts
               \/ fetch'[y].ts \in Complete
      PROVE  VaultChange /\ VaultInv'
  <2>1. UNCHANGED <<vault, holder, at, job, purging, dropped>>
    BY <1>4 DEF runVars
  <2>2. VaultChange /\ Complete' = Complete
    BY <2>1, NothingChanges
  <2>3. /\ \A r \in CloudRuns : at'[r] # "idle" => holder' = r
        /\ \A r \in CloudRuns : at'[r] \in {"connect", "clean", "hook", "sync", "seal"} =>
             job'[r].ts \in CStamps /\ job'[r].ts \notin Known'
    BY <2>1, <2>2 DEF VaultInv, RunnerHasLock, OwnIsUnknown, Known
  <2>4. \A a \in Writers :
          /\ purging'[a] # {} => at'[a] \in {"clean", "prune"}
          /\ at'[a] = "clean" => purging'[a] \intersect Complete' = {}
          /\ at'[a] = "prune" => purging'[a] \subseteq dropped'
          /\ a \in CloudPruners => at'[a] \in {"idle", "prune"}
    BY <2>1, <2>2 DEF VaultInv, PurgesAreSafe
  <2> QED BY <1>0, <1>4, <2>2, <2>3, <2>4, VaultParts
<1>5. ASSUME NEW x \in Restorers,
             Resolve(x) \/ (\E ok \in BOOLEAN : Copy(x, ok)) \/ RestoreEnds(x)
      PROVE  VaultChange /\ VaultInv'
  BY <1>4, <1>5, FetchedStays DEF Resolve, Copy, RestoreEnds
<1>6. ASSUME NEW f \in CFolders, Edit(f) PROVE VaultChange /\ VaultInv'
  BY <1>4, <1>6 DEF Edit
<1>7. CASE UNCHANGED cloudVars
  BY <1>4, <1>7 DEF cloudVars, runVars
<1> QED BY <1>1, <1>2, <1>3, <1>5, <1>6, <1>7 DEF CloudNext

LEMMA VaultInit == CloudInit => VaultInv
BY DEF CloudInit, VaultInv, RunnerHasLock, OwnIsUnknown, PurgesAreSafe, FetchedIsKnown,
       MarkersAreInside, Writers, NoFetch, Absent

--------------------------------------------------------------------------------
(* What a retention keeps. *)

\* The snapshots newer than s that no retention chose.
CloudNewer(s) == {t \in Complete \ dropped : t > s}

\* However old the lists of the retentions that run at the same time, none chooses one of
\* the newest CloudKeep snapshots that were not chosen.
CloudKeepsNewest == \A s \in dropped : Cardinality(CloudNewer(s)) >= CloudKeep

LEMMA CloudStampsAreFinite ==
  ASSUME NEW S, NEW T \in SUBSET CStamps, S \subseteq T
  PROVE  /\ Cardinality(S) \in Nat /\ Cardinality(T) \in Nat
         /\ Cardinality(S) <= Cardinality(T)
<1>1. IsFiniteSet(CStamps)
  BY FS_Interval, RcloneAssumption DEF CStamps
<1>2. IsFiniteSet(T) /\ S \in SUBSET T
  BY <1>1, FS_Subset
<1>3. IsFiniteSet(S)
  BY <1>2, FS_Subset
<1> QED BY <1>2, <1>3, FS_Subset, FS_CardinalityType

\* The newest of all that was ever chosen decides, as it does where snapshots are trees:
\* what is newer than it was listed as well, or it would not have been surplus.
LEMMA CloudChoiceKeeps ==
  ASSUME MarkersAreSeen, CloudTyped, CloudKeepsNewest, NEW a \in Writers, Choose(a)
  PROVE  CloudKeepsNewest'
<1>1. PICK seen \in Listings : \E marked \in Marked(seen) :
        dropped' = dropped \union Surplus(marked)
  BY DEF Choose
<1>2. PICK marked \in Marked(seen) : dropped' = dropped \union Surplus(marked)
  BY <1>1
<1>3. /\ marked \subseteq Complete
      /\ \A s \in Surplus(marked) :
           s \in marked /\ Cardinality({t \in marked : t > s}) >= CloudKeep
  BY <1>2 DEF Marked, MarkersAreSeen, Surplus
<1>4. Complete' = Complete /\ Complete \subseteq CStamps
  BY DEF Choose, Complete, Dirs
<1>5. dropped' \in SUBSET CStamps
  BY <1>2, <1>3, <1>4 DEF CloudTyped
<1> SUFFICES ASSUME NEW s \in dropped'
             PROVE  Cardinality(CloudNewer(s)') >= CloudKeep
  BY DEF CloudKeepsNewest
<1> DEFINE last == Newest(dropped')
<1>6. last \in dropped' /\ \A t \in dropped' : t <= last
  BY <1>5, NewestIsOne
<1> HIDE DEF last
<1>7. \A t \in CStamps : t > last => t \notin dropped' /\ t > s
  BY <1>5, <1>6, RcloneAssumption DEF CStamps
<1>8. CloudNewer(s)' \in SUBSET CStamps
  BY <1>4 DEF CloudNewer
<1>9. CASE last \in dropped
  <2>1. CloudNewer(last) \subseteq CloudNewer(s)'
    BY <1>4, <1>7 DEF CloudNewer
  <2>2. Cardinality(CloudNewer(last)) >= CloudKeep
    BY <1>9 DEF CloudKeepsNewest
  <2> QED BY <1>8, <2>1, <2>2, CloudStampsAreFinite, RcloneAssumption
<1>10. CASE last \in Surplus(marked)
  <2> DEFINE ahead == {t \in marked : t > last}
  <2>1. Cardinality(ahead) >= CloudKeep
    BY <1>3, <1>10
  <2>2. ahead \subseteq CloudNewer(s)'
    BY <1>3, <1>4, <1>7 DEF CloudNewer
  <2> HIDE DEF ahead
  <2> QED BY <1>8, <2>1, <2>2, CloudStampsAreFinite, RcloneAssumption
<1> QED BY <1>2, <1>6, <1>9, <1>10

LEMMA CloudKeepsStep ==
  ASSUME MarkersAreSeen, CloudTyped, VaultInv, CloudKeepsNewest, [CloudNext]_cloudVars
  PROVE  CloudKeepsNewest'
<1>1. CASE \E a \in Writers : Choose(a)
  BY <1>1, CloudChoiceKeeps
<1>2. CASE ~\E a \in Writers : Choose(a)
  <2>1. dropped' = dropped
    BY <1>2 DEF CloudNext, CloudRunStep, Begin, GiveUp, FindPartials, Purge, PurgeTimesOut,
                CleanDone, HookOk, Sync, SyncTimesOut, SyncFails, WriteMeta, Seal, SealFails,
                ChooseDone, Stop, Resolve, Copy, RestoreEnds, Edit, cloudVars
  <2>2. VaultChange
    BY VaultStep
  <2>3. Complete \ dropped \subseteq Complete'
    BY <2>2 DEF VaultChange
  <2> SUFFICES ASSUME NEW s \in dropped
               PROVE  Cardinality(CloudNewer(s)') >= CloudKeep
    BY <2>1 DEF CloudKeepsNewest
  <2>4. CloudNewer(s) \subseteq CloudNewer(s)' /\ CloudNewer(s)' \in SUBSET CStamps
    BY <2>1, <2>3 DEF CloudNewer, Complete, Dirs
  <2>5. Cardinality(CloudNewer(s)) >= CloudKeep
    BY DEF CloudKeepsNewest
  <2> QED BY <2>4, <2>5, CloudStampsAreFinite, RcloneAssumption
<1> QED BY <1>1, <1>2

\* With any number of retentions at once, beside backups that are killed or run into
\* timeouts: enforce_retention on an rclone destination leaves the newest CloudKeep
\* snapshots that no retention chose.
THEOREM CloudKeepsNewestThm ==
  ASSUME MarkersAreSeen
  PROVE  CloudSpec => []CloudKeepsNewest
<1>1. CloudInit => CloudTyped /\ VaultInv /\ CloudKeepsNewest
  <2>1. CloudInit => dropped = {}
    BY DEF CloudInit
  <2> QED BY <2>1, CloudTypeInit, VaultInit DEF CloudKeepsNewest
<1>2. CloudTyped /\ VaultInv /\ CloudKeepsNewest /\ [CloudNext]_cloudVars
        => (CloudTyped /\ VaultInv /\ CloudKeepsNewest)'
  BY CloudTypeStep, VaultStep, CloudKeepsStep
<1> QED BY <1>1, <1>2, PTL DEF CloudSpec

--------------------------------------------------------------------------------
(* The destination implements the catalog. *)

Unsealed == {"connect", "clean", "hook", "sync", "seal"}

\* Nothing a user has seen is as new as the snapshot in the making.
OwnIsNewest ==
  \A r \in CloudRuns : at[r] \in Unsealed => \A s \in CStamps : s >= job[r].ts => s \notin Known

CatalogInv == CloudKeepsNewest /\ OwnIsNewest

\* The marker is written; the run has no more to do with the directory.
Seals(r) ==
  /\ at[r] = "seal" /\ at'[r] \notin Unsealed
  /\ dropped' = dropped
  /\ Complete' = Complete \union {job[r].ts}

\* Between two choices of retentions, what can be seen of the catalog grows by one
\* snapshot at a time, or loses none that was not given up.
LEMMA WhatChanges ==
  ASSUME MarkersAreSeen, CloudTyped, VaultInv, [CloudNext]_cloudVars,
         ~\E a \in Writers : Choose(a)
  PROVE  /\ dropped' = dropped
         /\ \/ \E r \in CloudRuns : Seals(r)
            \/ Complete' \subseteq Complete
<1>1. dropped' = dropped
  BY DEF CloudNext, CloudRunStep, Begin, GiveUp, FindPartials, Purge, PurgeTimesOut,
     CleanDone, HookOk, Sync, SyncTimesOut, SyncFails, WriteMeta, Seal, SealFails,
     ChooseDone, Stop, Resolve, Copy, RestoreEnds, Edit, cloudVars
<1>2. VaultChange
  BY VaultStep
<1>3. CASE ~\E r \in CloudRuns : at[r] = "seal"
  BY <1>1, <1>2, <1>3 DEF VaultChange
<1>4. ASSUME NEW r \in CloudRuns, at[r] = "seal" PROVE Seals(r) \/ Complete' \subseteq Complete
  <2>0. holder = r /\ holder # NoCloudRun /\ \A q \in CloudRuns : q # r => at[q] = "idle"
    BY <1>4, OthersRest, RcloneAssumption
  <2>1. CASE vault' = vault
    BY <2>1 DEF Complete, Dirs
  <2>2. ASSUME NEW q \in CloudRuns, CloudRunStep(q), vault' # vault
        PROVE  Seals(r)
    <3>1. at[q] # "idle"
      BY <2>2, RcloneAssumption
         DEF CloudRunStep, GiveUp, FindPartials, PurgeTimesOut, CleanDone, HookOk, Sync,
             SyncTimesOut, SyncFails, WriteMeta, Seal, SealFails
    <3>2. q = r
      BY <2>0, <3>1
    <3>3. Seal(r) \/ SealFails(r)
      BY <1>4, <2>2, <3>2
         DEF CloudRunStep, GiveUp, FindPartials, PurgeTimesOut, CleanDone, HookOk, Sync,
             SyncTimesOut, SyncFails, WriteMeta
    <3>4. /\ vault' = [vault EXCEPT ![job[r].ts].dir = TRUE, ![job[r].ts].complete = TRUE]
          /\ at' = [at EXCEPT ![r] = "retain"] \/ at' = [at EXCEPT ![r] = "idle"]
      BY <2>2, <3>3 DEF Seal, SealFails, Leave, Step
    <3>5. at'[r] \notin Unsealed
      BY <3>4 DEF CloudTyped, Writers, Unsealed
    <3> QED BY <1>1, <1>4, <3>4, <3>5, SealChange DEF Seals
  <2>3. ASSUME NEW a \in Writers, Purge(a) PROVE Complete' \subseteq Complete
    <3>1. PICK s \in purging[a] :
          \/ vault' = vault
          \/ vault' = [vault EXCEPT ![s] = Absent]
          \/ vault' = [vault EXCEPT ![s].old = Nothing]
      BY <2>3 DEF Purge
    <3> QED BY <1>1, <3>1, PurgeChange
  <2>4. ASSUME NEW a \in Writers, Stop(a) PROVE Complete' \subseteq Complete
    <3>1. vault' = vault \/ \E s : vault' = [vault EXCEPT ![s].old = Nothing]
      BY <2>4 DEF Stop
    <3>2. \A t \in CStamps : /\ vault'[t].dir = vault[t].dir
                             /\ vault'[t].complete = vault[t].complete
      BY <3>1 DEF CloudTyped, VaultDir
    <3> QED BY <3>2 DEF Complete, Dirs
  <2>5. \/ vault' = vault
        \/ \E q \in CloudRuns : CloudRunStep(q)
        \/ \E a \in Writers : Purge(a) \/ Stop(a)
    BY DEF CloudNext, Begin, ChooseDone, Resolve, Copy, RestoreEnds, Edit, cloudVars
  <2> QED BY <2>1, <2>2, <2>3, <2>4, <2>5
<1> QED BY <1>1, <1>3, <1>4

\* A run keeps its timestamp, and one that begins takes a newer one than there is.
LEMMA TimestampStays ==
  ASSUME CloudTyped, VaultInv, [CloudNext]_cloudVars, NEW q \in CloudRuns, at'[q] \in Unsealed
  PROVE  \/ at[q] \in Unsealed /\ job'[q].ts = job[q].ts
         \/ \E s \in CStamps : Begin(q, s) /\ job'[q].ts = s
<1> USE DEF Unsealed, Step
<1>0. q \in Writers /\ CloudRuns \subseteq Writers /\ job[q] \in Job
  BY DEF Writers, CloudTyped
<1>1. ASSUME NEW r \in CloudRuns, NEW s \in CStamps, Begin(r, s)
      PROVE  \/ at[q] \in Unsealed /\ job'[q].ts = job[q].ts
             \/ Begin(q, s) /\ job'[q].ts = s
  <2>1. CASE q = r
    BY <1>1, <2>1 DEF Begin, CloudTyped, NoJob
  <2>2. CASE q # r
    BY <1>0, <1>1, <2>2 DEF Begin, CloudTyped
  <2> QED BY <2>1, <2>2
<1>2. ASSUME NEW r \in CloudRuns, Leave(r)
      PROVE  at[q] \in Unsealed /\ job'[q].ts = job[q].ts
  BY <1>0, <1>2 DEF Leave, CloudTyped
<1>3. ASSUME NEW r \in CloudRuns, CloudRunStep(r), ~Leave(r)
      PROVE  at[q] \in Unsealed /\ job'[q].ts = job[q].ts
  <2>1. CASE q # r
    BY <1>0, <1>3, <2>1
       DEF CloudRunStep, GiveUp, FindPartials, PurgeTimesOut, CleanDone, HookOk, Sync,
           SyncTimesOut, SyncFails, WriteMeta, Seal, SealFails, CloudTyped, runVars
  <2>2. CASE q = r
    <3>1. ASSUME NEW ok \in BOOLEAN, NEW done \in BOOLEAN, Sync(r, ok, done)
          PROVE  at[q] \in Unsealed /\ job'[q].ts = job[q].ts
      <4>1. job'[q] = AfterSync(job[q], ok) /\ job[q].folder # 0 /\ at[q] = "sync"
        BY <2>2, <3>1 DEF Sync, CloudTyped
      <4> QED BY <1>0, <4>1, AfterSyncIsTyped
    <3>2. CASE HookOk(r)
      BY <1>0, <2>2, <3>2 DEF HookOk, CloudTyped, Job
    <3>3. CASE FindPartials(r) \/ CleanDone(r) \/ (\E written \in BOOLEAN : WriteMeta(r, written))
      BY <3>3, <2>2 DEF FindPartials, CleanDone, WriteMeta
    <3>4. CASE PurgeTimesOut(r) \/ Seal(r)
      BY <1>0, <1>3, <2>2, <3>4 DEF PurgeTimesOut, Seal, CloudTyped, runVars
    <3> QED BY <1>3, <3>1, <3>2, <3>3, <3>4
         DEF CloudRunStep, GiveUp, SyncTimesOut, SyncFails, SealFails
  <2> QED BY <2>1, <2>2
<1>4. ASSUME NEW a \in Writers, Choose(a) \/ Purge(a) \/ ChooseDone(a) \/ Stop(a)
      PROVE  at[q] \in Unsealed /\ job'[q].ts = job[q].ts
  <2>1. CASE Choose(a) \/ Purge(a)
    BY <1>0, <2>1 DEF Choose, Purge, CloudTyped, runVars
  <2>2. CASE ChooseDone(a) \/ Stop(a)
    BY <1>0, <2>2 DEF ChooseDone, Stop, Leave, CloudTyped
  <2> QED BY <1>4, <2>1, <2>2
<1>5. CASE UNCHANGED runVars
  BY <1>5 DEF runVars
<1> QED BY <1>1, <1>2, <1>3, <1>4, <1>5 DEF CloudNext, Resolve, Copy, RestoreEnds, Edit, cloudVars

LEMMA OwnStaysNewest ==
  ASSUME MarkersAreSeen, CloudTyped, VaultInv, OwnIsNewest, [CloudNext]_cloudVars
  PROVE  OwnIsNewest'
<1> SUFFICES ASSUME NEW q \in CloudRuns, at'[q] \in Unsealed,
                    NEW s \in CStamps, s >= job'[q].ts
             PROVE  s \notin Known'
  BY DEF OwnIsNewest
<1>1. CASE \E t \in CStamps : Begin(q, t) /\ job'[q].ts = t
  <2>1. \A u \in Known : u < job'[q].ts
    BY <1>1 DEF Begin, Known, Complete
  <2>2. Known' = Known
    BY <1>1 DEF Begin, Known, Complete, Dirs
  <2> QED BY <1>1, <2>1, <2>2, RcloneAssumption DEF CStamps
<1>2. CASE at[q] \in Unsealed /\ job'[q].ts = job[q].ts
  <2>1. s \notin Known
    BY <1>2 DEF OwnIsNewest
  <2>2. CASE \E a \in Writers : Choose(a)
    BY <2>1, <2>2, ChoiceIsComplete DEF Choose, Known, Complete, Dirs
  <2>3. CASE ~\E a \in Writers : Choose(a)
    <3>1. ~\E r \in CloudRuns : Seals(r)
      BY <1>2, OthersRest DEF Seals, Unsealed
    <3> QED BY <2>1, <2>3, <3>1, WhatChanges DEF Known
  <2> QED BY <2>2, <2>3
<1> QED BY <1>1, <1>2, TimestampStays

LEMMA CountsAlike == \A S : CloudCatalog!Cardinality(S) = Cardinality(S)
BY DEF CloudCatalog!Cardinality, Cardinality

\* Every step of the destination is a step of the catalog, or none.
LEMMA CatalogStep ==
  ASSUME MarkersAreSeen, CloudTyped, VaultInv, CatalogInv, [CloudNext]_cloudVars
  PROVE  CatalogInv' /\ [CloudCatalog!Next]_CloudShelf
<1> USE DEF CatalogInv
<1>1. CatalogInv'
  BY CloudKeepsStep, OwnStaysNewest
<1>2. ASSUME NEW a \in Writers, Choose(a) PROVE CloudCatalog!Next \/ CloudShelf' = CloudShelf
  <2>1. PICK gone \in SUBSET Complete : dropped' = dropped \union gone
    BY <1>2, ChoiceIsComplete
  <2>2. Complete' = Complete /\ Complete \subseteq CStamps
    BY <1>2 DEF Choose, Complete, Dirs
  <2> DEFINE old == gone \ dropped
  <2>3. CloudShelf' = [s \in CStamps |-> IF s \in old THEN "dropped" ELSE CloudShelf[s]]
    BY <2>1, <2>2 DEF CloudShelf, Complete, Dirs
  <2>4. CASE old = {}
    <3>1. CloudShelf' = CloudShelf
      BY <2>3, <2>4 DEF CloudShelf
    <3> QED BY <3>1
  <2>5. CASE old # {}
    <3>1. \A s \in old : CloudShelf[s] = "kept"
      BY <2>1, <2>2 DEF CloudShelf, Complete, Dirs
    <3>2. CloudCatalog!In({"kept", "pinned"}) = Complete \ dropped
      BY <2>2 DEF CloudCatalog!In, CloudCatalog!Stamps, CStamps, CloudShelf, Complete, Dirs
    <3>3. CloudCatalog!In({"kept", "pinned"}) \ old = Complete' \ dropped'
      BY <2>1, <2>2, <3>2
    <3>4. \A s \in old :
            Cardinality({t \in CloudCatalog!In({"kept", "pinned"}) \ old : t > s}) >= CloudKeep
      BY <1>1, <2>1, <3>3 DEF CloudKeepsNewest, CloudNewer
    <3>5. CloudCatalog!Drop(old)
      <4> HIDE DEF old
      <4> QED BY <2>3, <2>5, <3>1, <3>4, CountsAlike
              DEF CloudCatalog!Drop, CloudCatalog!Stamps, CStamps, CloudShelf
    <3>6. old \in SUBSET CStamps
      BY <2>2
    <3> QED BY <3>5, <3>6 DEF CloudCatalog!Next, CloudCatalog!Stamps, CStamps
  <2> QED BY <2>4, <2>5
<1>3. ASSUME NEW r \in CloudRuns, Seals(r) PROVE CloudCatalog!Next
  <2>1. PICK t \in CStamps : t = job[r].ts
    BY <1>3 DEF Seals, VaultInv, OwnIsUnknown
  <2>2. \A s \in CStamps : s >= t => s \notin Known
    BY <1>3, <2>1 DEF Seals, OwnIsNewest, Unsealed
  <2>3. \A s \in CStamps : s >= t => CloudShelf[s] = "none"
    BY <2>2 DEF CloudShelf, Known, Complete, Dirs
  <2>4. t \notin dropped
    BY <2>1, <2>2, RcloneAssumption DEF CStamps, Known
  <2>5. CloudShelf' = [CloudShelf EXCEPT ![t] = "kept"]
    BY <1>3, <2>1, <2>4 DEF Seals, CloudShelf, Complete, Dirs
  <2>6. CloudCatalog!Take(t)
    BY <2>3, <2>5 DEF CloudCatalog!Take, CloudCatalog!Stamps, CStamps, CloudShelf
  <2> QED BY <2>1, <2>6 DEF CloudCatalog!Next, CloudCatalog!Stamps, CStamps
<1>4. ASSUME dropped' = dropped, Complete' \subseteq Complete
      PROVE  CloudShelf' = CloudShelf
  <2>1. Complete \ dropped \subseteq Complete'
    BY VaultStep DEF VaultChange
  <2> QED BY <1>4, <2>1 DEF CloudShelf, Complete, Dirs
<1> QED BY <1>1, <1>2, <1>3, <1>4, WhatChanges

LEMMA CatalogInit == CloudInit => CatalogInv /\ CloudCatalog!Init
<1> SUFFICES ASSUME CloudInit PROVE CatalogInv /\ CloudCatalog!Init
  OBVIOUS
<1>1. dropped = {} /\ Complete = {} /\ \A r \in CloudRuns : at[r] = "idle"
  BY DEF CloudInit, Complete, Dirs, Absent, Writers
<1>2. CatalogInv
  BY <1>1 DEF CatalogInv, CloudKeepsNewest, OwnIsNewest, Unsealed
<1>3. CloudCatalog!Init
  BY <1>1 DEF CloudCatalog!Init, CloudCatalog!Stamps, CStamps, CloudShelf, Complete, Dirs
<1> QED BY <1>2, <1>3

\* The rclone destination implements SnapshotCatalog, as the others do: backups with any
\* faults, cleanups of later runs and any number of retentions without a lock do no more
\* than to add snapshots in order and to give up old ones.
THEOREM CloudImplementsCatalogThm ==
  ASSUME MarkersAreSeen
  PROVE  CloudSpec => CloudImplementsCatalog /\ CloudCatalog!Spec
<1>1. CloudInit => CloudTyped /\ VaultInv /\ CatalogInv /\ CloudCatalog!Init
  BY CloudTypeInit, VaultInit, CatalogInit
<1>2. CloudTyped /\ VaultInv /\ CatalogInv /\ [CloudNext]_cloudVars
        => /\ (CloudTyped /\ VaultInv /\ CatalogInv)'
           /\ [CloudCatalog!Next]_CloudShelf
           /\ [UNCHANGED CloudShelf \/ CloudCatalog!Next]_cloudVars
  BY CloudTypeStep, VaultStep, CatalogStep
<1> QED BY <1>1, <1>2, PTL DEF CloudSpec, CloudImplementsCatalog, CloudCatalog!Spec

--------------------------------------------------------------------------------
(* The restore. *)

\* A restore without an error so far: what it has copied is no older than what current/
\* held when the marker of its snapshot was written.
FetchIsFresh(x) ==
  /\ fetch[x].step = "copy" => fetch[x].folder \in CFolders
  /\ fetch[x].ok => \A f \in CFolders :
       fetch[x].step = "done" \/ (fetch[x].step = "copy" /\ f < fetch[x].folder) =>
         sealed[fetch[x].ts][f] <= fetch[x].got[f]

FetchInv == \A x \in Restorers : FetchIsFresh(x)

\* A snapshot is sealed once.
LEMMA SealedStays ==
  ASSUME CloudTyped, VaultInv, [CloudNext]_cloudVars, NEW s \in Known
  PROVE  sealed'[s] = sealed[s]
<1>1. ASSUME NEW r \in CloudRuns, Seal(r) \/ SealFails(r) PROVE sealed'[s] = sealed[s]
  <2>1. \/ sealed' = sealed
        \/ at[r] = "seal" /\ sealed' = [sealed EXCEPT ![job[r].ts] = mirror]
    BY <1>1 DEF Seal, SealFails
  <2>2. at[r] = "seal" => job[r].ts # s
    BY DEF VaultInv, OwnIsUnknown
  <2>3. s \in CStamps
    BY DEF CloudTyped, Known, Complete, Dirs
  <2> QED BY <2>1, <2>2, <2>3 DEF CloudTyped
<1>2. ASSUME NEW r \in CloudRuns, CloudRunStep(r), ~Seal(r), ~SealFails(r)
      PROVE  sealed' = sealed
  BY <1>2 DEF CloudRunStep, FindPartials, GiveUp, PurgeTimesOut, CleanDone, HookOk, Sync,
              SyncTimesOut, SyncFails, WriteMeta
<1>3. ASSUME NEW a \in Writers, Choose(a) \/ Purge(a) \/ ChooseDone(a) \/ Stop(a)
      PROVE  sealed' = sealed
  BY <1>3 DEF Choose, Purge, ChooseDone, Stop
<1>4. ASSUME NEW x \in Restorers,
             Resolve(x) \/ (\E ok \in BOOLEAN : Copy(x, ok)) \/ RestoreEnds(x)
      PROVE  sealed' = sealed
  BY <1>4 DEF Resolve, Copy, RestoreEnds
<1>5. CASE (\E r \in CloudRuns, t \in CStamps : Begin(r, t)) \/ (\E f \in CFolders : Edit(f))
           \/ UNCHANGED cloudVars
  BY <1>5 DEF Begin, Edit, cloudVars
<1> QED BY <1>1, <1>2, <1>3, <1>4, <1>5 DEF CloudNext

\* One step of a restore leaves the others alone.
LEMMA FreshStep ==
  ASSUME CloudTyped, VersionsInv, FetchInv, VaultInv, NEW x \in Restorers, sealed' = sealed,
         Resolve(x) \/ (\E ok \in BOOLEAN : Copy(x, ok)) \/ RestoreEnds(x)
  PROVE  FetchInv'
<1>1. SUFFICES FetchIsFresh(x)' /\ \A y \in Restorers : y # x => fetch'[y] = fetch[y]
  BY DEF FetchInv, FetchIsFresh
<1>2. \A y \in Restorers : y # x => fetch'[y] = fetch[y]
  BY DEF Resolve, Copy, RestoreEnds, CloudTyped
<1>3. CASE Resolve(x)
  <2>1. PICK s : fetch'[x] = [NoFetch EXCEPT !.step = "copy", !.folder = 1, !.ts = s]
    BY <1>3 DEF Resolve, CloudTyped
  <2>2. fetch'[x].step = "copy" /\ fetch'[x].folder = 1
    BY <2>1 DEF NoFetch
  <2>3. 1 \in CFolders /\ \A f \in CFolders : ~(f < 1)
    BY RcloneAssumption DEF CFolders
  <2> QED BY <1>2, <2>2, <2>3 DEF FetchIsFresh
<1>4. ASSUME NEW ok \in BOOLEAN, Copy(x, ok) PROVE FetchIsFresh(x)'
  <2> DEFINE w == fetch[x]
             n == IF w.folder < CloudFolders THEN w.folder + 1 ELSE 0
             version == IF ok THEN Source(x) ELSE 0
             fine == w.ok /\ ok
             step == IF n = 0 THEN "done" ELSE "copy"
  <2>1. w \in Fetch /\ w.step = "copy" /\ w.folder \in CFolders
    BY <1>4 DEF CloudTyped, Copy, FetchInv, FetchIsFresh
  <2>2. fetch'[x] = [w EXCEPT !.got = [w.got EXCEPT ![w.folder] = version], !.ok = fine,
                              !.folder = n, !.step = step]
    BY <1>4, <2>1 DEF Copy, CloudTyped, Fetch
  <2>3. /\ n # 0 => step = "copy" /\ n \in CFolders /\ n = w.folder + 1
        /\ n = 0 => step = "done" /\ w.folder = CloudFolders
        /\ fine => w.ok /\ version = mirror[w.folder]
    BY <2>1, RcloneAssumption DEF CFolders, Source
  <2> HIDE DEF n, version, fine, step
  <2>4. /\ fetch'[x].ts = w.ts /\ fetch'[x].ok = fine
        /\ fetch'[x].folder = n /\ fetch'[x].step = step
        /\ fetch'[x].got = [w.got EXCEPT ![w.folder] = version]
    BY <2>1, <2>2 DEF Fetch
  <2>5. w.ts \in CStamps
    BY <2>1 DEF VaultInv, FetchedIsKnown, Known, Complete, Dirs, CloudTyped
  <2> HIDE DEF w
  <2>6. ASSUME fine, NEW f \in CFolders, step = "done" \/ (step = "copy" /\ f < n)
        PROVE  sealed[w.ts][f] <= fetch'[x].got[f]
    <3>1. fetch'[x].got[f] = IF f = w.folder THEN mirror[f] ELSE w.got[f]
      BY <2>1, <2>3, <2>4, <2>6 DEF Fetch, Content
    <3>2. f <= w.folder
      BY <2>1, <2>3, <2>6, RcloneAssumption DEF CFolders
    <3>3. sealed[w.ts][f] <= mirror[f]
      BY <2>5 DEF VersionsInv
    <3>4. f < w.folder => sealed[w.ts][f] <= w.got[f]
      BY <2>1, <2>3, <2>6 DEF FetchInv, FetchIsFresh, w
    <3>5. f = w.folder \/ f < w.folder
      BY <2>1, <3>2, RcloneAssumption DEF CFolders
    <3> QED BY <3>1, <3>3, <3>4, <3>5, <2>1, RcloneAssumption DEF CFolders
  <2>7. fetch'[x].step = "copy" => fetch'[x].folder \in CFolders
    BY <2>3, <2>4
  <2> QED BY <2>4, <2>6, <2>7 DEF FetchIsFresh
<1>5. CASE RestoreEnds(x)
  <2>1. fetch'[x].step = "idle"
    BY <1>5, ConstantsAreTyped DEF RestoreEnds, CloudTyped
  <2> QED BY <1>2, <2>1 DEF FetchIsFresh
<1> QED BY <1>2, <1>3, <1>4, <1>5

LEMMA FetchStep ==
  ASSUME CloudTyped, VersionsInv, VaultInv, FetchInv, [CloudNext]_cloudVars
  PROVE  FetchInv'
<1>1. ASSUME fetch' = fetch PROVE FetchInv'
  <2>1. \A x \in Restorers : fetch[x].step # "idle" => sealed'[fetch[x].ts] = sealed[fetch[x].ts]
    BY SealedStays DEF VaultInv, FetchedIsKnown
  <2> QED BY <1>1, <2>1 DEF FetchInv, FetchIsFresh
<1>2. ASSUME NEW x \in Restorers,
             Resolve(x) \/ (\E ok \in BOOLEAN : Copy(x, ok)) \/ RestoreEnds(x)
      PROVE  FetchInv'
  <2>1. sealed' = sealed
    BY <1>2 DEF Resolve, Copy, RestoreEnds
  <2> QED BY <1>2, <2>1, FreshStep
<1>3. ASSUME NEW r \in CloudRuns, CloudRunStep(r) PROVE fetch' = fetch
  BY <1>3 DEF CloudRunStep, FindPartials, GiveUp, PurgeTimesOut, CleanDone, HookOk, Sync,
              SyncTimesOut, SyncFails, WriteMeta, Seal, SealFails
<1>4. ASSUME NEW a \in Writers, Choose(a) \/ Purge(a) \/ ChooseDone(a) \/ Stop(a)
      PROVE  fetch' = fetch
  BY <1>4 DEF Choose, Purge, ChooseDone, Stop
<1>5. CASE (\E r \in CloudRuns, t \in CStamps : Begin(r, t)) \/ (\E f \in CFolders : Edit(f))
           \/ UNCHANGED cloudVars
  BY <1>1, <1>5 DEF Begin, Edit, cloudVars
<1> QED BY <1>1, <1>2, <1>3, <1>4, <1>5 DEF CloudNext

\* While the test for markers does not fail: a restore that reports success gives, of
\* every folder, nothing older than what its snapshot was sealed with, whatever backups,
\* cleanups and retentions run in the middle of it.
THEOREM RestoredIsNotOlderThm ==
  ASSUME MarkersAreSeen
  PROVE  CloudSpec => []RestoredIsNotOlder
<1> DEFINE Inv == CloudTyped /\ VersionsInv /\ VaultInv /\ FetchInv
<1>1. CloudInit => Inv
  <2>1. CloudInit => FetchInv
    BY DEF CloudInit, FetchInv, FetchIsFresh, NoFetch
  <2> QED BY <2>1, CloudTypeInit, VersionsInit, VaultInit
<1>2. Inv /\ [CloudNext]_cloudVars => Inv'
  BY CloudTypeStep, VersionsStep, VaultStep, FetchStep
<1>3. Inv => RestoredIsNotOlder
  <2> SUFFICES ASSUME Inv, NEW x \in Restorers, fetch[x].step = "done", fetch[x].ok,
                      NEW f \in CFolders
               PROVE  fetch[x].got[f] >= sealed[fetch[x].ts][f]
    BY DEF RestoredIsNotOlder
  <2>1. sealed[fetch[x].ts][f] <= fetch[x].got[f]
    BY DEF FetchInv, FetchIsFresh
  <2>2. fetch[x].ts \in CStamps /\ fetch[x].got[f] \in Nat
    BY RcloneAssumption DEF CloudTyped, Fetch, Content, Versions, VaultInv, FetchedIsKnown, Known,
                            Complete, Dirs
  <2>3. sealed[fetch[x].ts][f] \in Nat
    BY <2>2, ContentIsNat
  <2> QED BY <2>1, <2>2, <2>3
<1> QED BY <1>1, <1>2, <1>3, PTL DEF CloudSpec
================================================================================
