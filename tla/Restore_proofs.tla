----------------------------- MODULE Restore_proofs -----------------------------
(***************************************************************************)
(* What a restore brings back, for every number of folders, timestamps,    *)
(* restores, backup runs and retentions, and of which databases.           *)
(*                                                                         *)
(* A restore takes no lock.  What protects it is that a published snapshot *)
(* only ever changes by a retention that chose it (PublishedStays): the    *)
(* copies of one restore, however far apart, all read the same whole       *)
(* snapshot, and after each the folders below the next one are back        *)
(* (Brings).                                                               *)
(***************************************************************************)
EXTENDS Restore, Snapshots_proofs, Dumps

\* While a restore runs its snapshot is published, or a retention has chosen it.
HasSnapshot ==
  \A x \in Readers : restores[x].step # "idle" =>
    restores[x].ts \in Finals \/ restores[x].ts \in condemned

\* A restore wants everything, or the folder it is at.
WantsInOrder ==
  \A x \in Readers : restores[x].step = "copy" =>
    /\ restores[x].folder \in restores[x].want
    /\ restores[x].want = Folders \/ restores[x].want = {restores[x].folder}

\* Everything a restore is past is back, if it still can succeed.
Brings ==
  \A x \in Readers : LET w == restores[x] IN
    w.ok /\ w.ts \notin condemned =>
      /\ w.step = "copy" => {f \in w.want \ Dumps : f < w.folder} \subseteq w.got
      /\ w.step = "done" => w.want \ Dumps \subseteq w.got

RestoreInv == RestoreTypeOK /\ HasSnapshot /\ WantsInOrder /\ Brings

Restoring == [step : {"idle", "copy", "done"}, ts : 0..NumStamps, folder : 0..NumFolders,
              want : SUBSET Folders, ok : BOOLEAN, got : SUBSET Folders]

--------------------------------------------------------------------------------
(* Backups, retentions and kills beside a restore. *)

\* A published snapshot stays published and whole until a retention chooses it.
LEMMA PublishedStays ==
  ASSUME IInv, [Next]_vars
  PROVE  /\ condemned \subseteq condemned'
         /\ \A s \in Finals : s \in Finals' \/ s \in condemned'
<1> USE DEF IInv, ControlInv, TypeOK
<1>1. ASSUME NEW r \in Runs, NEW s \in Stamps, Acquire(r, s)
      PROVE  UNCHANGED <<snaps, condemned>>
  BY <1>1 DEF Acquire, retentionVars
<1>2. ASSUME NEW r \in Runs, SkipBusy(r)
      PROVE  UNCHANGED <<snaps, condemned>>
  BY <1>2 DEF SkipBusy, retentionVars
<1>3. ASSUME NEW r \in Runs, BackupStep(r)
      PROVE  /\ condemned' = condemned
             /\ \A s \in Finals : snaps'[s] = snaps[s]
  <2>1. condemned' = condemned
    BY <1>3 DEF BackupStep, ProbeFails, ProbeOk, CleanPartials, PrepareFails, MakePartial,
       Rsync, DiskFull, TransferFails, GenerateMeta, Finalize, FinalizeFails, UnlinkLatest,
       LinkLatest, RemoteTimesOut, retentionVars
  <2> QED BY <1>3, <2>1, BackupLeaves
<1>4. ASSUME NEW a \in Actors, ListSnapshots(a) \/ RetentionDone(a) \/ Killed(a)
      PROVE  UNCHANGED <<snaps, condemned>>
  BY <1>4 DEF ListSnapshots, RetentionDone, Killed, retentionVars
<1>5. ASSUME NEW a \in Actors, PrefetchPinned(a)
      PROVE  snaps' = snaps /\ condemned \subseteq condemned'
  BY <1>5 DEF PrefetchPinned
<1>6. ASSUME NEW a \in Actors, DeleteSome(a) \/ DeleteSnapshot(a) \/ DeleteTimesOut(a)
      PROVE  /\ condemned' = condemned
             /\ \A s \in Finals : s \in Finals' \/ s \in condemned
  <2> DEFINE t == Latest(doomed[a])
  <2>1. t \in condemned
    BY <1>6, LatestIsOne DEF DeleteSome, DeleteSnapshot, DeleteTimesOut, ChosenWasFinal
  <2>2. /\ condemned' = condemned
        /\ snaps' = snaps \/ snaps' = Without({t}) \/ snaps' = WithHas(t, {})
    BY <1>6 DEF DeleteSome, DeleteSnapshot, DeleteTimesOut, retentionVars
  <2> HIDE DEF t
  <2>3. \A s \in Stamps : s # t => snaps'[s] = snaps[s]
    BY <2>2 DEF Without, WithHas
  <2> QED BY <2>1, <2>2, <2>3 DEF Finals
<1>7. ASSUME NEW s \in Stamps, Pin(s)
      PROVE  condemned' = condemned /\ Finals' = Finals
  BY <1>7 DEF Pin, WithMeta, Finals, Snapshot, retentionVars
<1>8. CASE UNCHANGED vars
  BY <1>8 DEF vars, Finals
<1> QED
  BY <1>1, <1>2, <1>3, <1>4, <1>5, <1>6, <1>7, <1>8 DEF Next, RetentionStep, Finals

LEMMA BesideStep ==
  ASSUME IInv, RestoreInv, [Next]_vars, restores' = restores
  PROVE  RestoreInv'
<1> USE DEF RestoreInv
<1>1. RestoreTypeOK' /\ WantsInOrder'
  BY DEF RestoreTypeOK, WantsInOrder
<1>2. HasSnapshot'
  BY PublishedStays DEF HasSnapshot
<1>3. Brings'
  BY PublishedStays DEF Brings
<1> QED BY <1>1, <1>2, <1>3

--------------------------------------------------------------------------------
(* The steps of a restore. *)

\* One restore has changed, and what it says of itself holds.
LEMMA OneRestore ==
  ASSUME IInv, RestoreInv, NEW x \in Readers, NEW w \in Restoring, UNCHANGED vars,
         restores' = [restores EXCEPT ![x] = w],
         w.step # "idle" => w.ts \in Finals \/ w.ts \in condemned,
         w.step = "copy" =>
           w.folder \in w.want /\ (w.want = Folders \/ w.want = {w.folder}),
         w.ok /\ w.ts \notin condemned =>
           /\ w.step = "copy" => {f \in w.want \ Dumps : f < w.folder} \subseteq w.got
           /\ w.step = "done" => w.want \ Dumps \subseteq w.got
  PROVE  RestoreInv'
<1> USE DEF RestoreInv
<1>1. /\ restores'[x] = w
      /\ \A y \in Readers : y # x => restores'[y] = restores[y]
      /\ condemned' = condemned /\ Finals' = Finals
      /\ RestoreTypeOK'
  BY DEF RestoreTypeOK, Restoring, vars, Finals
<1>2. HasSnapshot'
  BY <1>1 DEF HasSnapshot
<1>3. WantsInOrder'
  BY <1>1 DEF WantsInOrder
<1>4. Brings'
  BY <1>1 DEF Brings
<1> QED BY <1>1, <1>2, <1>3, <1>4

LEMMA AskStep ==
  ASSUME IInv, RestoreInv, NEW x \in Readers, NEW s \in Stamps, NEW want \in SUBSET Folders,
         Ask(x, s, want)
  PROVE  RestoreInv'
<1> DEFINE first == CHOOSE f \in want : \A g \in want : f <= g
           w == [NoRestore EXCEPT !.step = "copy", !.ts = s, !.want = want, !.folder = first]
<1>1. /\ s \in Finals /\ UNCHANGED vars
      /\ restores' = [restores EXCEPT ![x] = w]
      /\ want = Folders \/ \E f \in Folders : want = {f}
  <2>1. /\ s \in Finals /\ UNCHANGED vars
        /\ want \in {Folders} \union {{f} : f \in Folders \ Dumps}
    BY DEF Ask, Resolvable
  <2>2. want = Folders \/ \E f \in Folders : want = {f}
    BY <2>1
  <2>3. restores' = [restores EXCEPT ![x] = w]
    BY DEF Ask
  <2> QED BY <2>1, <2>2, <2>3
<1>2. \E f \in want : \A g \in want : f <= g
  <2>1. CASE want = Folders
    <3>1. 1 \in Folders /\ \A g \in Folders : 1 <= g
      BY SnapshotsAssumption DEF Folders
    <3> QED BY <2>1, <3>1
  <2>2. CASE \E f \in Folders : want = {f}
    BY <2>2, SnapshotsAssumption DEF Folders
  <2> QED BY <1>1, <2>1, <2>2
<1>3. first \in want /\ \A g \in want : first <= g
  BY <1>2
<1> HIDE DEF first
<1>4. want = Folders \/ want = {first}
  BY <1>1, <1>3
<1>5. first \in 0..NumFolders /\ s \in 0..NumStamps
  BY <1>3, SnapshotsAssumption DEF Folders, Stamps
<1>6. w \in Restoring
  BY <1>5 DEF NoRestore, Restoring
<1>7. \A f \in want : ~(f < first)
  BY <1>3, <1>5 DEF Folders
<1>8. {f \in want \ Dumps : f < first} = {}
  BY <1>7
<1>9. w.step = "copy" /\ w.ts = s /\ w.folder = first /\ w.want = want
  BY DEF NoRestore
<1> HIDE DEF w
<1> QED BY <1>1, <1>3, <1>4, <1>6, <1>8, <1>9, OneRestore

\* On to the next folder: only the current one has to be back.
LEMMA AfterStep ==
  ASSUME IInv, RestoreInv, NEW x \in Readers, restores[x].step = "copy", UNCHANGED vars,
         NEW ok \in BOOLEAN, NEW got \in SUBSET Folders,
         restores' = [restores EXCEPT ![x] = After([restores[x] EXCEPT !.ok = ok, !.got = got])],
         ok => restores[x].ok,
         restores[x].got \subseteq got,
         ok /\ restores[x].folder \notin Dumps /\ restores[x].ts \notin condemned =>
           restores[x].folder \in got
  PROVE  RestoreInv'
<1> DEFINE w == restores[x]
           v == After([w EXCEPT !.ok = ok, !.got = got])
<1>1. w \in Restoring
  BY DEF RestoreInv, RestoreTypeOK, Restoring
<1>2. /\ w.ts \in Finals \/ w.ts \in condemned
      /\ w.folder \in w.want /\ (w.want = Folders \/ w.want = {w.folder})
      /\ w.ok /\ w.ts \notin condemned =>
           {f \in w.want \ Dumps : f < w.folder} \subseteq w.got
  BY DEF RestoreInv, HasSnapshot, WantsInOrder, Brings
<1> HIDE DEF w
<1> DEFINE u == [w EXCEPT !.ok = ok, !.got = got]
<1>3. /\ u \in Restoring
      /\ u.ts = w.ts /\ u.folder = w.folder /\ u.want = w.want /\ u.ok = ok /\ u.got = got
      /\ u.step = "copy"
  BY <1>1 DEF Restoring, w
<1>4. /\ w.folder \in 1..NumFolders /\ w.want \subseteq Folders /\ NumFolders \in Nat
      /\ \A f \in w.want : f \in Nat
  BY <1>1, <1>2, SnapshotsAssumption DEF Restoring, Folders
<1>5. ok /\ w.ts \notin condemned => {f \in w.want \ Dumps : f <= w.folder} \subseteq got
  <2> SUFFICES ASSUME ok, w.ts \notin condemned, NEW f \in w.want \ Dumps, f <= w.folder
               PROVE  f \in got
    OBVIOUS
  <2>1. CASE f = w.folder
    BY <2>1 DEF w
  <2>2. CASE f < w.folder
    BY <1>2, <2>2 DEF w
  <2> QED BY <1>4, <2>1, <2>2
<1> HIDE DEF u
<1>6. CASE w.folder + 1 \in w.want
  <2>1. v = [u EXCEPT !.folder = w.folder + 1]
    BY <1>3, <1>6 DEF After, u
  <2>2. /\ v \in Restoring
        /\ v.ts = w.ts /\ v.folder = w.folder + 1 /\ v.want = w.want /\ v.ok = ok
        /\ v.got = got /\ v.step = "copy"
    BY <1>3, <1>4, <1>6, <2>1 DEF Restoring, Folders
  <2>3. w.want = Folders
    BY <1>2, <1>4, <1>6
  <2>4. \A f \in w.want : f < w.folder + 1 => f <= w.folder
    BY <1>4
  <2>5. restores' = [restores EXCEPT ![x] = v]
    BY DEF w
  <2> HIDE DEF v
  <2>6. v.folder \in v.want /\ v.want = Folders
    BY <1>6, <2>2, <2>3
  <2>7. v.ok /\ v.ts \notin condemned => {f \in v.want \ Dumps : f < v.folder} \subseteq v.got
    BY <1>5, <2>2, <2>4
  <2> QED BY <1>2, <2>2, <2>5, <2>6, <2>7, OneRestore
<1>7. CASE w.folder + 1 \notin w.want
  <2>1. v = [u EXCEPT !.step = "done"]
    BY <1>3, <1>7 DEF After, u
  <2>2. /\ v \in Restoring
        /\ v.ts = w.ts /\ v.want = w.want /\ v.ok = ok /\ v.got = got /\ v.step = "done"
    BY <1>3, <2>1 DEF Restoring
  <2>3. \A f \in w.want : f <= w.folder
    BY <1>2, <1>4, <1>7 DEF Folders
  <2>4. restores' = [restores EXCEPT ![x] = v]
    BY DEF w
  <2> HIDE DEF v
  <2> QED BY <1>2, <1>5, <2>2, <2>3, <2>4, OneRestore
<1> QED BY <1>6, <1>7

\* What a copy out of a snapshot that no retention chose brings back is whole.
LEMMA BroughtIsWhole ==
  ASSUME IInv, RestoreInv, NEW x \in Readers, restores[x].step = "copy"
  PROVE  /\ Brought(restores[x]) \in SUBSET Folders
         /\ restores[x].got \subseteq Brought(restores[x])
         /\ restores[x].ts \notin condemned => restores[x].folder \in Brought(restores[x])
<1> DEFINE w == restores[x]
<1>1. w \in Restoring /\ w.folder \in w.want
  BY DEF RestoreInv, RestoreTypeOK, Restoring, WantsInOrder
<1>2. w.got \subseteq Folders /\ w.folder \in Folders
  BY <1>1 DEF Restoring
<1>3. w.ts \notin condemned => snaps[w.ts].has = Folders
  BY DEF RestoreInv, HasSnapshot, IInv, FinalsShown, Shown, Whole
<1> HIDE DEF w
<1> QED BY <1>2, <1>3 DEF Brought, w

LEMMA RestoreStepInv ==
  ASSUME IInv, RestoreInv, NEW x \in Readers, RestoreStep(x)
  PROVE  RestoreInv'
<1> DEFINE w == restores[x]
<1>0. w \in Restoring /\ w.ok \in BOOLEAN /\ w.got \in SUBSET Folders
  BY DEF RestoreInv, RestoreTypeOK, Restoring
<1>1. ASSUME NEW s \in Stamps, NEW want \in SUBSET Folders, Ask(x, s, want) PROVE RestoreInv'
  BY <1>1, AskStep
<1>2. ASSUME NEW rc \in {0, 1}, CopyFolder(x, rc) PROVE RestoreInv'
  <2> DEFINE ok == w.ok /\ rc = 0
             got == IF rc = 0 THEN Brought(w) ELSE w.got
  <2>1. /\ w.step = "copy" /\ UNCHANGED vars
        /\ restores' = [restores EXCEPT ![x] = After([w EXCEPT !.ok = ok, !.got = got])]
    BY <1>2 DEF CopyFolder
  <2>2. ok \in BOOLEAN /\ got \in SUBSET Folders /\ w.got \subseteq got
    BY <1>0, <2>1, BroughtIsWhole
  <2>3. ok /\ w.ts \notin condemned => w.folder \in got
    BY <2>1, BroughtIsWhole
  <2>4. ok => w.ok
    OBVIOUS
  <2> HIDE DEF ok, got
  <2> QED BY <2>1, <2>2, <2>3, <2>4, AfterStep
<1>3. ASSUME NEW fetched \in BOOLEAN, NEW loaded \in BOOLEAN, RestoreDump(x, fetched, loaded)
      PROVE  RestoreInv'
  <2> DEFINE ok == w.ok /\ (fetched /\ w.folder \in Databases => loaded)
             got == IF loaded THEN Brought(w) ELSE w.got
  <2>1. /\ w.step = "copy" /\ UNCHANGED vars
        /\ w.folder \in Dumps
        /\ restores' = [restores EXCEPT ![x] = After([w EXCEPT !.ok = ok, !.got = got])]
    BY <1>3 DEF RestoreDump
  <2>2. ok \in BOOLEAN /\ got \in SUBSET Folders /\ w.got \subseteq got
    BY <1>0, <2>1, BroughtIsWhole
  <2>3. ok => w.ok
    OBVIOUS
  <2> HIDE DEF ok, got
  <2> QED BY <2>1, <2>2, <2>3, AfterStep
<1>4. CASE EndRestore(x)
  <2>1. NoRestore \in Restoring /\ NoRestore.step = "idle"
    BY SnapshotsAssumption DEF NoRestore, Restoring
  <2>2. UNCHANGED vars /\ restores' = [restores EXCEPT ![x] = NoRestore]
    BY <1>4 DEF EndRestore
  <2> QED BY <2>1, <2>2, OneRestore
<1> QED BY <1>1, <1>2, <1>3, <1>4 DEF RestoreStep

--------------------------------------------------------------------------------
(* The theorems. *)

LEMMA RestoreInvariance == ASSUME AllIsReadable PROVE RestoreSpec => [](IInv /\ RestoreInv)
<1>1. RestoreInit => IInv /\ RestoreInv
  <2> SUFFICES ASSUME RestoreInit PROVE IInv /\ RestoreInv
    OBVIOUS
  <2>1. IInv
    BY InvInit DEF RestoreInit
  <2>2. NoRestore \in Restoring /\ NoRestore.step = "idle"
    BY SnapshotsAssumption DEF NoRestore, Restoring
  <2>3. restores = [x \in Readers |-> NoRestore]
    BY DEF RestoreInit
  <2>4. RestoreTypeOK
    BY <2>2, <2>3 DEF RestoreTypeOK, Restoring
  <2>5. HasSnapshot /\ WantsInOrder /\ Brings
    BY <2>2, <2>3 DEF HasSnapshot, WantsInOrder, Brings
  <2> QED BY <2>1, <2>4, <2>5 DEF RestoreInv
<1>2. IInv /\ RestoreInv /\ [RestoreNext]_restoreVars => IInv' /\ RestoreInv'
  <2> SUFFICES ASSUME IInv, RestoreInv, [RestoreNext]_restoreVars
               PROVE  IInv' /\ RestoreInv'
    OBVIOUS
  <2>1. CASE Next /\ UNCHANGED restores
    BY <2>1, InvStep, BesideStep
  <2>2. ASSUME NEW x \in Readers, RestoreStep(x) PROVE IInv' /\ RestoreInv'
    <3>1. UNCHANGED vars
      BY <2>2 DEF RestoreStep, Ask, CopyFolder, RestoreDump, EndRestore
    <3> QED BY <2>2, <3>1, InvStep, RestoreStepInv
  <2>3. CASE UNCHANGED restoreVars
    BY <2>3, InvStep, BesideStep DEF restoreVars
  <2> QED BY <2>1, <2>2, <2>3 DEF RestoreNext
<1> QED BY <1>1, <1>2, PTL DEF RestoreSpec

\* Restores disturb nothing: with any number of them the backups and retentions of a
\* target behave as without, so every theorem about Spec holds beside restores, too.
THEOREM RestoresDisturbNothing == RestoreSpec => Spec
<1>1. RestoreInit => Init
  BY DEF RestoreInit
<1>2. [RestoreNext]_restoreVars => [Next]_vars
  BY DEF RestoreNext, restoreVars, RestoreStep, Ask, CopyFolder, RestoreDump, EndRestore
<1> QED BY <1>1, <1>2, PTL DEF RestoreSpec, Spec

\* Between its first folder and its last a restore is at a folder it wants.
AtWanted == \A x \in Readers : restores[x].step = "copy" => restores[x].folder \in restores[x].want

\* Type correctness of restores, for every target, any number of processes and every fault.
THEOREM RestoreTypeCorrect == RestoreSpec => []RestoreTypeOK
<1> DEFINE Good == restores \in [Readers -> Restoring] /\ AtWanted
<1>1. RestoreInit => Good
  <2>1. NoRestore \in Restoring /\ NoRestore.step = "idle"
    BY SnapshotsAssumption DEF NoRestore, Restoring
  <2> QED BY <2>1 DEF RestoreInit, AtWanted
<1>2. ASSUME Good, NEW x \in Readers, NEW w \in Restoring, w.step = "copy" => w.folder \in w.want,
             restores' = [restores EXCEPT ![x] = w]
      PROVE  Good'
  BY <1>2 DEF AtWanted
<1>3. ASSUME Good, NEW x \in Readers, restores[x].step = "copy",
             NEW ok \in BOOLEAN, NEW got \in {restores[x].got, Brought(restores[x])},
             restores' = [restores EXCEPT ![x] = After([restores[x] EXCEPT !.ok = ok, !.got = got])]
      PROVE  Good'
  <2> DEFINE u == [restores[x] EXCEPT !.ok = ok, !.got = got]
  <2>1. restores[x] \in Restoring /\ restores[x].folder \in restores[x].want
    BY <1>3 DEF AtWanted
  <2>2. got \in SUBSET Folders
    BY <2>1 DEF Brought, Restoring
  <2>3. u \in Restoring /\ u.step = "copy"
    BY <1>3, <2>1, <2>2 DEF Restoring
  <2> HIDE DEF u
  <2>4. CASE u.folder + 1 \in u.want
    <3>1. u.folder + 1 \in 0..NumFolders
      BY <2>3, <2>4, SnapshotsAssumption DEF Restoring, Folders
    <3>2. [u EXCEPT !.folder = u.folder + 1] \in Restoring
      BY <2>3, <3>1 DEF Restoring
    <3>3. After(u) = [u EXCEPT !.folder = u.folder + 1]
      BY <2>3, <2>4 DEF After, Restoring
    <3>4. After(u).folder \in After(u).want
      BY <2>3, <2>4, <3>3 DEF Restoring
    <3>5. restores' = [restores EXCEPT ![x] = After(u)]
      BY <1>3 DEF u
    <3> QED BY <1>2, <1>3, <3>2, <3>3, <3>4, <3>5
  <2>5. CASE u.folder + 1 \notin u.want
    <3>1. After(u) = [u EXCEPT !.step = "done"]
      BY <2>5 DEF After
    <3>2. After(u) \in Restoring /\ After(u).step = "done"
      BY <2>3, <3>1 DEF Restoring
    <3>3. restores' = [restores EXCEPT ![x] = After(u)]
      BY <1>3 DEF u
    <3> QED BY <1>2, <1>3, <3>2, <3>3
  <2> QED BY <2>4, <2>5
<1>4. ASSUME Good, NEW x \in Readers, RestoreStep(x) PROVE Good'
  <2>1. restores[x] \in Restoring /\ restores[x].ok \in BOOLEAN
    BY <1>4 DEF Restoring
  <2>2. ASSUME NEW s \in Stamps, NEW want \in SUBSET Folders, Ask(x, s, want) PROVE Good'
    <3> DEFINE first == CHOOSE f \in want : \A g \in want : f <= g
               w == [NoRestore EXCEPT !.step = "copy", !.ts = s, !.want = want, !.folder = first]
    <3>1. \E f \in want : \A g \in want : f <= g
      <4>1. want = Folders \/ \E f \in Folders : want = {f}
        BY <2>2 DEF Ask
      <4>2. 1 \in Folders /\ \A g \in Folders : 1 <= g /\ g <= g
        BY SnapshotsAssumption DEF Folders
      <4> QED BY <4>1, <4>2
    <3>2. first \in want
      BY <3>1
    <3> HIDE DEF first
    <3>3. first \in 0..NumFolders /\ s \in 0..NumStamps
      BY <3>2, SnapshotsAssumption DEF Folders, Stamps
    <3>4. w \in Restoring /\ w.folder \in w.want
      BY <3>2, <3>3 DEF NoRestore, Restoring
    <3>5. restores' = [restores EXCEPT ![x] = w]
      BY <2>2 DEF Ask, first
    <3> HIDE DEF w
    <3> QED BY <1>2, <1>4, <3>4, <3>5
  <2>3. ASSUME NEW rc \in {0, 1}, CopyFolder(x, rc) PROVE Good'
    <3> DEFINE ok == restores[x].ok /\ rc = 0
               got == IF rc = 0 THEN Brought(restores[x]) ELSE restores[x].got
    <3>1. /\ restores[x].step = "copy"
          /\ restores' = [restores EXCEPT ![x] = After([restores[x] EXCEPT !.ok = ok, !.got = got])]
      BY <2>3 DEF CopyFolder
    <3>2. ok \in BOOLEAN /\ got \in {restores[x].got, Brought(restores[x])}
      BY <2>1
    <3> HIDE DEF ok, got
    <3> QED BY <1>3, <1>4, <3>1, <3>2
  <2>4. ASSUME NEW fetched \in BOOLEAN, NEW loaded \in BOOLEAN, RestoreDump(x, fetched, loaded)
        PROVE  Good'
    <3> DEFINE ok == restores[x].ok /\ (fetched /\ restores[x].folder \in Databases => loaded)
               got == IF loaded THEN Brought(restores[x]) ELSE restores[x].got
    <3>1. /\ restores[x].step = "copy"
          /\ restores' = [restores EXCEPT ![x] = After([restores[x] EXCEPT !.ok = ok, !.got = got])]
      BY <2>4 DEF RestoreDump
    <3>2. ok \in BOOLEAN /\ got \in {restores[x].got, Brought(restores[x])}
      BY <2>1
    <3> HIDE DEF ok, got
    <3> QED BY <1>3, <1>4, <3>1, <3>2
  <2>5. CASE EndRestore(x)
    <3>1. NoRestore \in Restoring /\ NoRestore.step = "idle"
      BY SnapshotsAssumption DEF NoRestore, Restoring
    <3> QED BY <1>2, <1>4, <2>5, <3>1 DEF EndRestore
  <2> HIDE DEF Good
  <2> QED BY <1>4, <2>2, <2>3, <2>4, <2>5 DEF RestoreStep
<1>5. Good /\ [RestoreNext]_restoreVars => Good'
  BY <1>4 DEF RestoreNext, restoreVars, AtWanted
<1>6. Good => RestoreTypeOK
  BY DEF RestoreTypeOK, Restoring
<1> HIDE DEF Good
<1> QED BY <1>1, <1>5, <1>6, PTL DEF RestoreSpec

\* However many restores, backups and retentions of a target overlap, and whatever of
\* them fails or is killed: a restore that reports success has brought back every folder
\* it was asked for, whole, unless a retention chose its snapshot.
THEOREM RestoredIsWholeThm == ASSUME AllIsReadable PROVE RestoreSpec => []RestoredIsWhole
<1>1. RestoreInv => RestoredIsWhole
  BY DEF RestoreInv, Brings, RestoredIsWhole
<1> QED BY <1>1, RestoreInvariance, PTL

--------------------------------------------------------------------------------
(* Dumps and their import (Dumps), for every set of databases.              *)
(* RestoredIsDumped speaks of the end of a restore, but what it rests on    *)
(* happened in a backup: no wanted database is left out without "failed"    *)
(* (DumpIsComplete), so the dump on the shelf is complete                   *)
(* (ShelfIsComplete), and the shelf does not change under a restore,        *)
(* because no other dump is made before it is gone (OneDump).               *)

\* What has been dealt with is in the dump, or the dump has failed.
DumpIsComplete ==
  dump.step \in {"dump", "extras"} /\ dump.kind # "crontab" /\ ~dump.failed =>
    \A n \in dump.wanted \ dump.todo : dump.files[n] # 0

\* After the last database nothing is left to do, and nothing has failed.
DumpIsDone ==
  dump.step = "extras" => dump.todo = {} /\ ~dump.failed

ShelfIsComplete ==
  shelf.kind # "crontab" => \A n \in shelf.wanted : shelf.files[n] # 0

\* A dump is made for an empty shelf, and a restore is made from one that is not.
OneDump ==
  /\ dump.step # "idle" => shelf = NoShelf
  /\ load.step # "idle" => Files # {}

\* What has been dealt with is imported, or the restore has failed.
LoadIsComplete ==
  /\ load.step # "idle" /\ load.ok =>
       \A n \in Importable \ load.todo : load.back[n] # 0
  /\ load.step = "done" => load.todo = {}

DumpsInv == DumpsTypeOK /\ DumpIsComplete /\ DumpIsDone /\ ShelfIsComplete /\ OneDump /\ LoadIsComplete

USE DEF Contents, Hosts, Blank, NoDump, NoLoad, NoShelf, Done, Loaded, Files, Importable

\* A shelf without files is the only empty one: a restore excludes a dump.
LEMMA DumpsInvInit == DumpsInit => DumpsInv
BY DumpsAssumption
DEF DumpsInit, DumpsInv, DumpsTypeOK, DumpIsComplete, DumpIsDone, ShelfIsComplete, OneDump, LoadIsComplete

LEMMA ServerIsTyped ==
  ASSUME DumpsTypeOK, NEW h \in Hosts, NEW n \in Names, NEW v \in 0..Editions
  PROVE  [server EXCEPT ![h][n] = v] \in [Hosts -> Contents]
BY DEF DumpsTypeOK

LEMMA CreatedIsTyped ==
  ASSUME DumpsTypeOK, NEW n \in Names
  PROVE  Created(n) \in [Hosts -> Contents]
<1>1. 1 \in 0..Editions
  BY DumpsAssumption
<1>2. SourceHost \in Hosts
  BY DEF SourceHost
<1> QED BY <1>1, <1>2, ServerIsTyped DEF Created, DumpsTypeOK

\* The steps of a backup.
LEMMA DumpStep ==
  ASSUME DumpsInv,
         \/ \E k \in Kinds : BeginDump(k)
         \/ DropDump
         \/ \E wanted \in SUBSET Names : ListDatabases(wanted)
         \/ DumpsDone
         \/ KeepDump
         \/ \E n \in Names : DumpOne(n) \/ NoCrontab(n) \/ DumpFails(n)
  PROVE  DumpsInv'
<1> USE DumpsAssumption DEF DumpsInv
<1>1. ASSUME NEW k \in Kinds, BeginDump(k) PROVE DumpsInv'
  BY <1>1 DEF BeginDump, DumpsTypeOK, DumpIsComplete, DumpIsDone, ShelfIsComplete, OneDump, LoadIsComplete
<1>2. CASE DropDump
  BY <1>2 DEF DropDump, DumpsTypeOK, DumpIsComplete, DumpIsDone, ShelfIsComplete, OneDump, LoadIsComplete
<1>3. ASSUME NEW wanted \in SUBSET Names, ListDatabases(wanted) PROVE DumpsInv'
  BY <1>3 DEF ListDatabases, DumpsTypeOK, DumpIsComplete, DumpIsDone, ShelfIsComplete, OneDump, LoadIsComplete
<1>4. CASE DumpsDone
  BY <1>4 DEF DumpsDone, DumpsTypeOK, DumpIsComplete, DumpIsDone, ShelfIsComplete, OneDump, LoadIsComplete
<1>5. CASE KeepDump
  BY <1>5 DEF KeepDump, DumpsTypeOK, DumpIsComplete, DumpIsDone, ShelfIsComplete, OneDump, LoadIsComplete
<1>6. ASSUME NEW n \in Names, DumpOne(n) PROVE DumpsInv'
  <2>1. /\ dump.step = "dump" /\ dump' = [Done(n) EXCEPT !.files[n] = server[SourceHost][n]]
        /\ UNCHANGED <<server, shelf, load>>
    BY <1>6 DEF DumpOne
  <2>2. server[SourceHost][n] \in 0..Editions /\ server[SourceHost][n] # 0
    BY <1>6 DEF DumpOne, DumpsTypeOK, SourceHost
  <2>3. DumpsTypeOK'
    BY <2>1, <2>2 DEF DumpsTypeOK
  <2>4. DumpIsComplete'
    BY <2>1, <2>2 DEF DumpsTypeOK, DumpIsComplete
  <2> QED
    BY <2>1, <2>3, <2>4 DEF DumpsTypeOK, DumpIsDone, ShelfIsComplete, OneDump, LoadIsComplete
<1>7. ASSUME NEW n \in Names, NoCrontab(n) PROVE DumpsInv'
  BY <1>7 DEF NoCrontab, DumpsTypeOK, DumpIsComplete, DumpIsDone, ShelfIsComplete, OneDump, LoadIsComplete
<1>8. ASSUME NEW n \in Names, DumpFails(n) PROVE DumpsInv'
  <2>1. /\ dump.step = "dump" /\ dump' = [Done(n) EXCEPT !.failed = TRUE]
        /\ UNCHANGED <<server, shelf, load>>
    BY <1>8 DEF DumpFails
  <2>2. DumpsTypeOK'
    BY <2>1 DEF DumpsTypeOK
  <2>3. dump'.step = "dump" /\ dump'.failed
    BY <2>1 DEF DumpsTypeOK
  <2> QED
    BY <2>1, <2>2, <2>3 DEF DumpIsComplete, DumpIsDone, ShelfIsComplete, OneDump, LoadIsComplete
<1> QED BY <1>1, <1>2, <1>3, <1>4, <1>5, <1>6, <1>7, <1>8

\* The steps of a restore, and what goes on around both.
LEMMA LoadStep ==
  ASSUME DumpsInv,
         \/ BeginLoad
         \/ LoadDone
         \/ LoadEnds
         \/ ForgetDump
         \/ \E n \in Names : LoadOne(n) \/ LoadFails(n) \/ EditDatabase(n)
  PROVE  DumpsInv'
<1> USE DumpsAssumption DEF DumpsInv
<1>1. CASE BeginLoad
  <2>1. /\ load' = [NoLoad EXCEPT !.step = "load", !.todo = Importable]
        /\ Files # {}
        /\ UNCHANGED <<server, dump, shelf>>
    BY <1>1 DEF BeginLoad
  <2>2. load'.step = "load" /\ load'.todo = Importable /\ load'.ok = TRUE /\ load'.back = Blank
    BY <2>1
  <2>3. DumpsTypeOK'
    <3>1. Blank \in [Names -> 0..Editions] /\ Importable \in SUBSET Names
      OBVIOUS
    <3>2. load' = [step |-> "load", todo |-> Importable, ok |-> TRUE, back |-> Blank]
      BY <2>1
    <3> QED BY <2>1, <3>1, <3>2 DEF DumpsTypeOK
  <2> QED
    BY <2>1, <2>2, <2>3 DEF DumpIsComplete, DumpIsDone, ShelfIsComplete, OneDump, LoadIsComplete
<1>2. CASE LoadDone
  BY <1>2 DEF LoadDone, DumpsTypeOK, DumpIsComplete, DumpIsDone, ShelfIsComplete, OneDump, LoadIsComplete
<1>3. CASE LoadEnds
  BY <1>3 DEF LoadEnds, DumpsTypeOK, DumpIsComplete, DumpIsDone, ShelfIsComplete, OneDump, LoadIsComplete
<1>4. CASE ForgetDump
  BY <1>4 DEF ForgetDump, DumpsTypeOK, DumpIsComplete, DumpIsDone, ShelfIsComplete, OneDump, LoadIsComplete
<1>5. ASSUME NEW n \in Names, LoadOne(n) \/ LoadFails(n) PROVE DumpsInv'
  <2>1. server' \in [Hosts -> Contents]
    <3>1. shelf.files[n] \in 0..Editions
      BY DEF DumpsTypeOK
    <3>2. server \in [Hosts -> Contents]
      BY DEF DumpsTypeOK
    <3>3. Imported(n) \in [Hosts -> Contents]
      BY <3>1, CreatedIsTyped DEF Imported
    <3>4. server' \in {server, Created(n), Imported(n)}
      BY <1>5 DEF LoadOne, LoadFails
    <3> QED BY <3>2, <3>3, <3>4, CreatedIsTyped
  <2>2. PICK ok \in BOOLEAN :
          /\ load.step = "load" /\ n \in load.todo
          /\ load' = Loaded(n, ok)
          /\ UNCHANGED <<dump, shelf>>
    BY <1>5 DEF LoadOne, LoadFails
  <2>3. load' \in [step : {"idle", "load", "done"}, todo : SUBSET Names, ok : BOOLEAN,
                  back : Contents]
    <3> DEFINE v == IF ok THEN shelf.files[n] ELSE 0
    <3>1. v \in 0..Editions
      BY DEF DumpsTypeOK
    <3>2. load.back \in [Names -> 0..Editions]
      BY DEF DumpsTypeOK
    <3>3. [load.back EXCEPT ![n] = v] \in [Names -> 0..Editions]
      BY <3>1, <3>2
    <3>4. load' = [step |-> load.step, todo |-> load.todo \ {n}, ok |-> load.ok /\ ok,
                   back |-> [load.back EXCEPT ![n] = v]]
      BY <2>2 DEF DumpsTypeOK
    <3>5. load.step \in {"idle", "load", "done"} /\ load.todo \in SUBSET Names
          /\ (load.ok /\ ok) \in BOOLEAN
      BY DEF DumpsTypeOK
    <3> QED BY <3>3, <3>4, <3>5
  <2>4. DumpsTypeOK'
    BY <2>1, <2>2, <2>3 DEF DumpsTypeOK
  <2>5. /\ load'.step = "load" /\ load'.todo = load.todo \ {n}
        /\ load'.ok => load.ok /\ ok
        /\ \A m \in Names \ {n} : load'.back[m] = load.back[m]
        /\ ok => load'.back[n] = shelf.files[n]
    BY <2>2 DEF DumpsTypeOK
  <2>6. LoadIsComplete'
    BY <2>2, <2>5 DEF LoadIsComplete
  <2> QED
    BY <2>2, <2>4, <2>5, <2>6 DEF DumpIsComplete, DumpIsDone, ShelfIsComplete, OneDump
<1>6. ASSUME NEW n \in Names, EditDatabase(n) PROVE DumpsInv'
  <2>1. SourceHost \in Hosts
    BY DEF SourceHost
  <2>2. server' \in [Hosts -> Contents]
    BY <1>6, <2>1 DEF EditDatabase, DumpsTypeOK
  <2> QED
    BY <1>6, <2>2 DEF EditDatabase, DumpsTypeOK, DumpIsComplete, DumpIsDone, ShelfIsComplete, OneDump, LoadIsComplete
<1> QED BY <1>1, <1>2, <1>3, <1>4, <1>5, <1>6

LEMMA DumpsStep ==
  ASSUME DumpsInv, [DumpsNext]_dumpsVars
  PROVE  DumpsInv'
<1>1. CASE DumpsNext
  BY <1>1, DumpStep, LoadStep DEF DumpsNext
<1>2. CASE UNCHANGED dumpsVars
  BY <1>2 DEF dumpsVars, DumpsInv, DumpsTypeOK, DumpIsComplete, DumpIsDone, ShelfIsComplete, OneDump, LoadIsComplete
<1> QED BY <1>1, <1>2

LEMMA DumpsInvariance == DumpsSpec => []DumpsInv
BY DumpsInvInit, DumpsStep, PTL DEF DumpsSpec

\* Type correctness of the servers, the dump and the restore.
THEOREM DumpsTypeCorrect == DumpsSpec => []DumpsTypeOK
<1>1. DumpsInv => DumpsTypeOK
  BY DEF DumpsInv
<1> QED BY <1>1, DumpsInvariance, PTL

\* A restore that reports success has given the client, which took it without an error,
\* every database the backup set out to dump but the system ones: neither side drops
\* another one without failing.
THEOREM RestoredIsDumpedThm == DumpsSpec => []RestoredIsDumped
<1>1. DumpsInv => RestoredIsDumped
  BY DEF DumpsInv, RestoredIsDumped, ShelfIsComplete, LoadIsComplete, DumpsTypeOK
<1> QED BY <1>1, DumpsInvariance, PTL
================================================================================
