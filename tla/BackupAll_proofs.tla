---------------------------- MODULE BackupAll_proofs ----------------------------
(***************************************************************************)
(* What holds of a process of "gniza backup" for every number of targets,  *)
(* remotes, folders and kinds of dumps.                                    *)
(*                                                                         *)
(* Two inductive invariants.  TempInv says which temporary directories     *)
(* there are at each step of backup_target, BatchInv what the counters of  *)
(* the loops and the return codes say about the snapshots.                 *)
(***************************************************************************)
EXTENDS BackupAll, TLAPS

Steps == {"next", "dump", "folder", "staged", "short", "artifact", "cleanup", "return", "end",
          "over"}
Working == {"dump", "folder", "staged", "short", "artifact", "cleanup"}
Looping == {"next", "return"} \union Working

Batch == [mode : Modes, t : 1..NumTargets, r : 1..NumRemotes, step : Steps, item : Nat,
          failed : BOOLEAN, tfailed : BOOLEAN, nsucc : Nat, nfail : Nat, rc : 0..2]

Typed ==
  /\ batch \in Batch
  /\ batch.step \in Working => batch.item # 0
  /\ made = [p \in Pairs |-> made[p]]
  /\ rcs \in [Pairs -> {"none", "ok", "failed", "busy", "disabled", "raised"}]
  /\ verdict # "none" => batch.step = "over"

--------------------------------------------------------------------------------
(* Temporary directories. *)

\* A process holds dump directories only inside of backup_target, and of those only the
\* ones that its cleanup has not come to yet.
TempInv ==
  /\ held \subseteq DumpDirs
  /\ batch.step \notin Working => held = {}
  /\ batch.step = "cleanup" => \A i \in 1..DumpKinds : <<"dump", i>> \in held => i >= batch.item
  /\ \A x \in temps : x = <<x[1], x[2]>> /\ x[1] \in Pairs
  /\ \A p \in Pairs : rcs[p] = "raised" => batch.step = "over"
  /\ NoTempIsLeft

LEMMA PairIsPair == ASSUME Typed PROVE Pair \in Pairs
BY DEF Typed, Batch, Pair, Pairs

\* What the count of a pair changes.
LEMMA CountedIsTyped ==
  ASSUME NEW b \in Batch, NEW tfailed \in BOOLEAN
  PROVE  LET c == Counted(b, tfailed) IN
         /\ c \in Batch
         /\ \A f \in {"mode", "t", "r", "step", "rc"} : c[f] = b[f]
<1> DEFINE one == IF b.rc = 1 THEN 1 ELSE 0
           yes == IF tfailed THEN 1 ELSE 0
           no == IF tfailed THEN 0 ELSE 1
           none == FALSE
           Good(c) == c \in Batch /\ \A f \in {"mode", "t", "r", "step", "rc"} : c[f] = b[f]
<1>1. one \in Nat /\ yes \in Nat /\ no \in Nat /\ none \in BOOLEAN
  OBVIOUS
<1>2. \/ Counted(b, tfailed) = [b EXCEPT !.nfail = @ + one]
      \/ Counted(b, tfailed) = [b EXCEPT !.tfailed = tfailed]
      \/ Counted(b, tfailed) = b
      \/ Counted(b, tfailed) =
           [b EXCEPT !.tfailed = none, !.nsucc = @ + no, !.nfail = @ + yes]
  BY DEF Counted, Batch
<1> HIDE DEF one, yes, no, none
<1>3. Good([b EXCEPT !.nfail = @ + one])
  BY <1>1 DEF Batch
<1>4. Good([b EXCEPT !.tfailed = tfailed])
  BY DEF Batch
<1>5. Good([b EXCEPT !.tfailed = none, !.nsucc = @ + no, !.nfail = @ + yes])
  <2> DEFINE ns == b.nsucc + no
             nf == b.nfail + yes
  <2>1. ns \in Nat /\ nf \in Nat
    BY <1>1 DEF Batch
  <2> HIDE DEF ns, nf
  <2>2. Good([b EXCEPT !.tfailed = none, !.nsucc = ns, !.nfail = nf])
    BY <1>1, <2>1 DEF Batch
  <2> QED BY <2>2 DEF ns, nf
<1>6. Good(Counted(b, tfailed))
  <2> HIDE DEF Good
  <2>1. Good(b)
    BY DEF Good
  <2> QED BY <1>2, <1>3, <1>4, <1>5, <2>1
<1> QED BY <1>6

\* What is there after a directory was removed was there before, or is stuck.
LEMMA DiscardKeeps ==
  ASSUME NEW y, temps' \in Discard(y)
  PROVE  /\ \A x \in temps' : x \in Sticky \/ (x \in temps /\ x # y)
         /\ \A x \in temps' : x \in temps \/ x = y
BY DEF Discard

\* A step within one backup_target, from here on or after Prepared.
Within ==
  /\ rcs' = rcs /\ Pair' = Pair
  /\ batch.step \in {"next"} \union Working /\ batch'.step \in Working
  /\ held' \subseteq DumpDirs
  /\ batch'.step = "cleanup" =>
       \A i \in 1..DumpKinds : <<"dump", i>> \in held' => i >= batch'.item

\* What goes out of use is gone, or stuck.
Covered ==
  \A x \in temps' : \/ x \in temps /\ (InUse(x) => InUse(x)' \/ x \in Sticky)
                    \/ x = <<Pair, x[2]>> /\ (InUse(x)' \/ x \in Sticky)

LEMMA TempWithin ==
  ASSUME Typed, TempInv, Within, Covered
  PROVE  TempInv'
<1>1. Pair \in Pairs
  BY PairIsPair
<1>2. \A x \in temps' : x = <<x[1], x[2]>> /\ x[1] \in Pairs
  BY <1>1 DEF TempInv, Covered
<1>3. \A p \in Pairs : rcs'[p] # "raised"
  BY DEF TempInv, Within, Working
<1>4. NoTempIsLeft'
  BY DEF TempInv, NoTempIsLeft, Within, Covered
<1> QED BY <1>2, <1>3, <1>4 DEF TempInv, Within

\* backup_target decides on its return code: it still has what it had.
LEMMA CleanupStep ==
  ASSUME Typed, TempInv, NEW rc \in {0, 1}, Cleanup(rc), UNCHANGED <<rcs>>,
         batch.step \in {"dump", "folder", "artifact"}
  PROVE  TempInv'
<1>1. /\ batch'.step = "cleanup" /\ batch'.item = 1 /\ Pair' = Pair
      /\ temps' = temps /\ held' = held
  BY DEF Cleanup, At, Typed, Batch, Pair
<1>2. \A x : InUse(x) => InUse(x)'
  BY <1>1 DEF InUse, Staged
<1>3. \A i \in 1..DumpKinds : i >= 1
  BY BackupAllAssumption
<1>4. Within
  BY <1>1, <1>3 DEF Within, Working, TempInv
<1>5. Covered
  BY <1>1, <1>2 DEF Covered
<1> QED BY <1>4, <1>5, TempWithin

LEMMA TempStep ==
  ASSUME Typed, TempInv, [BatchNext]_batchVars
  PROVE  TempInv'
<1> USE DEF Typed, Batch, At, Working
<1>0. /\ held \subseteq DumpDirs
      /\ \A d \in DumpDirs : d[1] = "dump"
      /\ \A i : Staging(i)[1] = "staging"
      /\ Pair \in Pairs
  BY PairIsPair DEF TempInv, DumpDirs, Staging
<1>1. CASE SkipDisabled \/ (\E rc \in {1, 2} : ReturnEarly(rc))
  <2>1. /\ batch.step = "next" /\ batch'.step = "return"
        /\ UNCHANGED <<temps, held, rcs>>
    BY <1>1 DEF SkipDisabled, ReturnEarly
  <2>2. \A x : ~InUse(x)
    BY <2>1 DEF InUse
  <2> QED BY <2>1, <2>2 DEF TempInv, NoTempIsLeft
<1>2. CASE Prepared \/ MakePartialDir \/ FoldersDone \/ SendDump
  <2>1. /\ batch.step \in {"next", "dump", "folder", "artifact"}
        /\ batch'.step \in {"dump", "folder", "artifact"}
        /\ UNCHANGED <<temps, held, rcs>> /\ Pair' = Pair
    BY <1>2 DEF Prepared, MakePartialDir, FoldersDone, SendDump, Pair
  <2>2. \A x : InUse(x) => InUse(x)'
    BY <2>1 DEF InUse, Staged
  <2>3. Within
    BY <1>0, <2>1, <2>2 DEF Within, TempInv
  <2>4. Covered
    BY <1>0, <2>1, <2>2 DEF Covered
  <2> QED BY <2>3, <2>4, TempWithin
<1>3. ASSUME NEW kept \in BOOLEAN, Dump(kept) PROVE TempInv'
  <2> DEFINE d == <<"dump", batch.item>>
  <2>1. /\ Pair' = Pair /\ batch'.step = "dump" /\ batch.step = "dump" /\ rcs' = rcs
    BY <1>3 DEF Dump, Pair
  <2>2. d \in DumpDirs
    BY <1>3, BackupAllAssumption DEF Dump, DumpDirs
  <2>3. \/ temps' \in Discard(<<Pair, d>>) /\ held' = held
        \/ temps' = temps \union {<<Pair, d>>} /\ held' = held \union {d}
    BY <1>3 DEF Dump
  <2> HIDE DEF d
  <2>4. held' \subseteq DumpDirs
    BY <1>0, <2>2, <2>3
  <2>5. \A x : InUse(x) => InUse(x)'
    BY <2>1, <2>3 DEF InUse, Staged
  <2>6. CASE temps' \in Discard(<<Pair, d>>)
    <3>1. \A x \in temps' : (x \in Sticky \/ x \in temps) /\ (x \in temps \/ x = <<Pair, d>>)
      BY <2>6, DiscardKeeps
    <3>2. Within
      BY <2>1, <2>4, <2>5, <3>1 DEF Within, TempInv
    <3>3. Covered
      BY <2>1, <2>4, <2>5, <3>1 DEF Covered
    <3> QED BY <3>2, <3>3, TempWithin
  <2>7. CASE temps' = temps \union {<<Pair, d>>} /\ held' = held \union {d}
    <3>1. \A x : x = <<Pair, d>> => InUse(x)'
      BY <2>1, <2>7 DEF InUse
    <3>2. Within
      BY <2>1, <2>4, <2>5, <2>7, <3>1 DEF Within, TempInv
    <3>3. Covered
      BY <2>1, <2>4, <2>5, <2>7, <3>1 DEF Covered
    <3> QED BY <3>2, <3>3, TempWithin
  <2> QED BY <2>3, <2>6, <2>7
<1>4. CASE MakePartialDirFails \/ TransferStops \/ (\E ok \in BOOLEAN : Publish(ok))
  BY <1>4, CleanupStep DEF MakePartialDirFails, TransferStops, InFolders, Publish
<1>5. CASE PullFails
  <2> DEFINE y == <<Pair, Staging(batch.item)>>
  <2>1. /\ batch.step = "folder" /\ batch'.step = "folder" /\ Pair' = Pair
        /\ temps' \in Discard(y) /\ held' = held /\ rcs' = rcs
    BY <1>5 DEF PullFails, InFolders, Pair
  <2>2. \A x : InUse(x) => InUse(x)'
    BY <2>1 DEF InUse, Staged
  <2>3. \A x \in temps' : (x \in Sticky \/ x \in temps) /\ (x \in temps \/ x = y)
    BY <2>1, DiscardKeeps
  <2>4. Within
    BY <1>0, <2>1, <2>2, <2>3 DEF Within, TempInv
  <2>5. Covered
    BY <1>0, <2>1, <2>2, <2>3 DEF Covered
  <2> QED BY <2>4, <2>5, TempWithin
<1>6. ASSUME NEW step \in {"staged", "short"}, Pull(step) PROVE TempInv'
  <2>1. /\ batch.step = "folder" /\ batch'.step = step /\ batch'.item = batch.item
        /\ Pair' = Pair /\ temps' = temps \union {<<Pair, Staging(batch.item)>>}
        /\ held' = held /\ rcs' = rcs
    BY <1>6 DEF Pull, InFolders, Pair
  <2>2. \A x : InUse(x) => InUse(x)'
    BY <2>1 DEF InUse, Staged
  <2>3. \A x : x = <<Pair, Staging(batch.item)>> => InUse(x)'
    BY <2>1 DEF InUse, Staged
  <2>4. Within
    BY <1>0, <2>1, <2>2, <2>3 DEF Within, TempInv
  <2>5. Covered
    BY <1>0, <2>1, <2>2, <2>3 DEF Covered
  <2> QED BY <2>4, <2>5, TempWithin
<1>7. ASSUME NEW result \in {"folder", "short", "failed"}, SendFolder(result) PROVE TempInv'
  <2> DEFINE y == <<Pair, Staging(batch.item)>>
  <2>1. /\ batch.step \in {"folder", "staged", "short"} /\ batch'.step = "folder" /\ Pair' = Pair
        /\ IF Staged THEN temps' \in Discard(y) ELSE temps' = temps
        /\ held' = held /\ rcs' = rcs
    BY <1>7 DEF SendFolder, Sendable, Staged, InFolders, Pair
  <2>2. \A x \in temps : x # y \/ ~Staged => (InUse(x) => InUse(x)')
    BY <2>1 DEF InUse, TempInv
  <2>3. \A x \in temps' : \/ x \in Sticky /\ (x \in temps \/ x = y)
                          \/ x \in temps /\ (x # y \/ ~Staged)
    BY <2>1, DiscardKeeps
  <2>4. Within
    BY <1>0, <2>1, <2>2, <2>3 DEF Within, TempInv
  <2>5. Covered
    BY <1>0, <2>1, <2>2, <2>3 DEF Covered
  <2> QED BY <2>4, <2>5, TempWithin
<1>8. CASE CleanDir
  <2> DEFINE d == <<"dump", batch.item>>
  <2>1. /\ batch.step = "cleanup" /\ batch'.step = "cleanup" /\ batch'.item = batch.item + 1
        /\ Pair' = Pair /\ held' = held \ {d} /\ rcs' = rcs
        /\ IF d \in held THEN temps' \in Discard(<<Pair, d>>) ELSE temps' = temps
    BY <1>8 DEF CleanDir, Pair
  <2>2. \A i \in 1..DumpKinds : <<"dump", i>> \in held' => i >= batch'.item
    <3> SUFFICES ASSUME NEW i \in 1..DumpKinds, <<"dump", i>> \in held'
                 PROVE  i >= batch.item + 1
      BY <2>1
    <3>1. i >= batch.item /\ i # batch.item
      BY <2>1 DEF TempInv
    <3> QED BY <3>1, BackupAllAssumption
  <2> HIDE DEF d
  <2>3. \A x \in temps : x # <<Pair, d>> => (InUse(x) => InUse(x)')
    BY <2>1 DEF InUse, Staged, TempInv
  <2>4. d \notin held => \A x \in temps : InUse(x) => InUse(x)'
    BY <2>1 DEF InUse, Staged
  <2>5. \A x \in temps' : \/ x \in Sticky /\ (x \in temps \/ x = <<Pair, d>>)
                          \/ x \in temps /\ (x # <<Pair, d>> \/ d \notin held)
    BY <2>1, DiscardKeeps
  <2>6. Within
    BY <1>0, <2>1, <2>2, <2>3, <2>4, <2>5 DEF Within, TempInv
  <2>7. Covered
    BY <1>0, <2>1, <2>2, <2>3, <2>4, <2>5 DEF Covered
  <2> QED BY <2>6, <2>7, TempWithin
<1>9. CASE CleanupDone
  <2>1. /\ batch.step = "cleanup" /\ batch.item > DumpKinds /\ batch'.step = "return"
        /\ UNCHANGED <<temps, held, rcs>>
    BY <1>9 DEF CleanupDone
  <2>2. held = {}
    <3> SUFFICES ASSUME NEW d \in held PROVE FALSE
      OBVIOUS
    <3>1. PICK i \in 1..DumpKinds : d = <<"dump", i>>
      BY <1>0 DEF DumpDirs
    <3>2. i >= batch.item
      BY <2>1, <3>1 DEF TempInv
    <3> QED BY <2>1, <3>2, BackupAllAssumption
  <2>3. \A x : ~InUse(x)
    BY <2>1, <2>2 DEF InUse, Staged
  <2> QED BY <2>1, <2>2, <2>3 DEF TempInv, NoTempIsLeft
<1>10. CASE NextPair
  <2>1. batch.step = "return" /\ UNCHANGED <<temps, held>>
    BY <1>10 DEF NextPair
  <2> DEFINE b == Counted(batch, batch.tfailed \/ batch.rc = 1)
             o == IF batch.t \in Disabled THEN "disabled" ELSE Outcome(batch.rc)
  <2>2. b \in Batch
    BY CountedIsTyped
  <2>3. /\ \/ batch' = [b EXCEPT !.step = "end"]
           \/ \E t, r : batch' = [b EXCEPT !.step = "next", !.r = r, !.t = t]
        /\ rcs' = [rcs EXCEPT ![Pair] = o] /\ o # "raised"
    BY <1>10 DEF NextPair, Outcome
  <2> HIDE DEF b, o
  <2>4. batch'.step \in {"next", "end"}
    BY <2>2, <2>3
  <2>5. \A p \in Pairs : rcs[p] # "raised" /\ rcs'[p] # "raised"
    BY <1>0, <2>1, <2>3 DEF TempInv
  <2>6. \A x : ~InUse(x)
    BY <2>1 DEF InUse
  <2>7. NoTempIsLeft'
    BY <2>1, <2>5, <2>6 DEF TempInv, NoTempIsLeft
  <2> QED BY <2>1, <2>4, <2>5, <2>7 DEF TempInv
<1>11. CASE Exit
  <2>1. batch.step = "end" /\ batch'.step = "over" /\ UNCHANGED <<temps, held, rcs>>
    BY <1>11 DEF Exit
  <2>2. \A x : ~InUse(x)
    BY <2>1 DEF InUse
  <2> QED BY <2>1, <2>2 DEF TempInv, NoTempIsLeft
<1>12. CASE Raise
  <2>1. /\ batch'.step = "over" /\ held' = {} /\ rcs' = [rcs EXCEPT ![Pair] = "raised"]
        /\ temps' = temps \/ temps' = temps \union Making
    BY <1>12 DEF Raise
  <2>2. \A x \in Making : x = <<x[1], x[2]>> /\ x[1] = Pair
    BY DEF Making
  <2>3. rcs'[Pair] = "raised" /\ \A p \in Pairs : p # Pair => rcs'[p] = rcs[p]
    BY <1>0, <2>1
  <2>4. \A x \in temps' : (x \in temps \/ x \in Making) /\ x = <<x[1], x[2]>> /\ x[1] \in Pairs
    BY <1>0, <2>1, <2>2 DEF TempInv
  <2>5. NoTempIsLeft'
    <3> SUFFICES ASSUME NEW x \in temps' PROVE rcs'[x[1]] = "raised" \/ x \in Sticky
      BY DEF NoTempIsLeft
    <3>1. CASE x[1] = Pair
      BY <2>3, <3>1
    <3>2. CASE x[1] # Pair
      BY <2>2, <2>3, <2>4, <3>2 DEF TempInv, NoTempIsLeft, InUse
    <3> QED BY <3>1, <3>2
  <2> QED BY <2>1, <2>4, <2>5 DEF TempInv
<1>13. CASE UNCHANGED batchVars
  BY <1>13 DEF batchVars, TempInv, Pair, NoTempIsLeft, InUse, Staged
<1> QED
  BY <1>1, <1>2, <1>3, <1>4, <1>5, <1>6, <1>7, <1>8, <1>9, <1>10, <1>11, <1>12, <1>13
  DEF BatchNext

--------------------------------------------------------------------------------
(* Types. *)

\* Within one backup_target the process stays with its pair and counts nothing.
SameLoop ==
  /\ batch.step \in {"next"} \union Working /\ batch'.step \in {"return"} \union Working
  /\ UNCHANGED <<rcs, verdict>>
  /\ batch'.mode = batch.mode /\ batch'.t = batch.t /\ batch'.r = batch.r
  /\ batch'.tfailed = batch.tfailed /\ batch'.nsucc = batch.nsucc /\ batch'.nfail = batch.nfail

PairStep ==
  \/ SkipDisabled
  \/ \E rc \in {1, 2} : ReturnEarly(rc)
  \/ Prepared
  \/ \E kept \in BOOLEAN : Dump(kept)
  \/ MakePartialDir
  \/ MakePartialDirFails
  \/ PullFails
  \/ \E step \in {"staged", "short"} : Pull(step)
  \/ \E result \in {"folder", "short", "failed"} : SendFolder(result)
  \/ \E ok \in BOOLEAN : Publish(ok)
  \/ FoldersDone
  \/ SendDump
  \/ TransferStops
  \/ CleanDir
  \/ CleanupDone

LEMMA TypedInit == BatchInit => Typed
BY BackupAllAssumption DEF BatchInit, Typed, Batch, Steps, Working

\* backup_target goes on at another step or item, or decides on its return code.
LEMMA PlaceStep ==
  ASSUME Typed, batch.step \in {"next"} \union Working, UNCHANGED <<rcs, verdict>>,
         made' = made \/ made' = [made EXCEPT ![Pair] = building],
         NEW step \in {"return"} \union Working, NEW item \in Nat, step # "return" => item # 0,
         NEW failed \in BOOLEAN, NEW rc \in 0..2,
         \/ batch' = At(step, item)
         \/ batch' = [At(step, item) EXCEPT !.failed = failed]
         \/ batch' = [At(step, item) EXCEPT !.rc = rc]
  PROVE  Typed' /\ SameLoop
<1>1. step \in Steps
  BY DEF Steps, Working
<1>2. At(step, item) \in Batch
  BY <1>1 DEF Typed, Batch, At
<1>3. [At(step, item) EXCEPT !.failed = failed] \in Batch
  BY <1>2 DEF Batch
<1>4. [At(step, item) EXCEPT !.rc = rc] \in Batch
  BY <1>2 DEF Batch
<1>5. batch' \in Batch
  BY <1>2, <1>3, <1>4
<1>6. /\ batch'.step = step /\ batch'.item = item
      /\ batch'.mode = batch.mode /\ batch'.t = batch.t /\ batch'.r = batch.r
      /\ batch'.tfailed = batch.tfailed /\ batch'.nsucc = batch.nsucc
      /\ batch'.nfail = batch.nfail
  BY DEF Typed, Batch, At
<1>7. made' = [p \in Pairs |-> made'[p]]
  BY DEF Typed
<1>8. Typed'
  BY <1>5, <1>6, <1>7 DEF Typed, Working
<1> QED BY <1>6, <1>8 DEF SameLoop

LEMMA PairIsTyped ==
  ASSUME Typed, PairStep
  PROVE  Typed' /\ SameLoop
<1>0. /\ batch.item \in Nat /\ batch.item + 1 \in Nat /\ batch.item + 1 # 0
      /\ batch.step \in Working => batch.item # 0
      /\ 0 \in 0..2 /\ 1 \in 0..2 /\ 2 \in 0..2
      /\ Working = {"dump", "folder", "staged", "short", "artifact", "cleanup"}
      /\ batch.failed \in BOOLEAN /\ TRUE \in BOOLEAN /\ FALSE \in BOOLEAN
  BY DEF Typed, Batch, Working
<1>1. CASE SkipDisabled \/ (\E rc \in {1, 2} : ReturnEarly(rc)) \/ Prepared
  BY <1>0, <1>1, PlaceStep DEF SkipDisabled, ReturnEarly, Prepared
<1>2. CASE \E kept \in BOOLEAN : Dump(kept)
  BY <1>0, <1>2, PlaceStep DEF Dump
<1>3. CASE MakePartialDir
  <2>1. \E failed \in BOOLEAN : batch' = [At("folder", 1) EXCEPT !.failed = failed]
    BY <1>3 DEF MakePartialDir
  <2>2. PICK failed \in BOOLEAN : batch' = [At("folder", 1) EXCEPT !.failed = failed]
    BY <2>1
  <2>3. batch.step = "dump" /\ UNCHANGED <<made, rcs, verdict>>
    BY <1>3 DEF MakePartialDir
  <2> DEFINE item == 1
             rc == 0
  <2>4. item \in Nat /\ item # 0 /\ rc \in 0..2
    OBVIOUS
  <2>5. batch.step \in {"next"} \union Working /\ "folder" \in {"return"} \union Working
    BY <2>3 DEF Working
  <2>6. batch' = [At("folder", item) EXCEPT !.failed = failed]
    BY <2>2
  <2> HIDE DEF item, rc
  <2> QED BY <2>3, <2>4, <2>5, <2>6, PlaceStep
<1>4. CASE MakePartialDirFails \/ TransferStops
  BY <1>0, <1>4, PlaceStep DEF MakePartialDirFails, TransferStops, Cleanup, InFolders
<1>5. CASE PullFails \/ (\E step \in {"staged", "short"} : Pull(step))
  BY <1>0, <1>5, PlaceStep DEF PullFails, Pull, InFolders
<1>6. ASSUME NEW result \in {"folder", "short", "failed"}, SendFolder(result)
      PROVE  Typed' /\ SameLoop
  <2> DEFINE failed == batch.failed \/ result = "failed"
  <2>1. /\ batch' = [At("folder", batch.item + 1) EXCEPT !.failed = failed]
        /\ batch.step \in {"folder", "staged", "short"} /\ UNCHANGED <<made, rcs, verdict>>
    BY <1>6 DEF SendFolder, Sendable, Staged, InFolders, At
  <2>2. failed \in BOOLEAN
    OBVIOUS
  <2> HIDE DEF failed
  <2> QED BY <1>0, <2>1, <2>2, PlaceStep
<1>7. ASSUME NEW ok \in BOOLEAN, Publish(ok) PROVE Typed' /\ SameLoop
  <2>1. \E rc \in 0..2 : batch' = [At("cleanup", 1) EXCEPT !.rc = rc]
    BY <1>0, <1>7 DEF Publish, Cleanup
  <2>2. PICK rc \in 0..2 : batch' = [At("cleanup", 1) EXCEPT !.rc = rc]
    BY <2>1
  <2>3. /\ batch.step = "artifact" /\ UNCHANGED <<rcs, verdict>>
        /\ made' = made \/ made' = [made EXCEPT ![Pair] = building]
    BY <1>7 DEF Publish, Cleanup
  <2> DEFINE item == 1
  <2>4. item \in Nat /\ item # 0 /\ batch' = [At("cleanup", item) EXCEPT !.rc = rc]
    BY <2>2
  <2> HIDE DEF item
  <2> QED BY <1>0, <2>3, <2>4, PlaceStep
<1>8. CASE FoldersDone \/ SendDump \/ CleanDir \/ CleanupDone
  BY <1>0, <1>8, PlaceStep DEF FoldersDone, SendDump, CleanDir, CleanupDone
<1> QED BY <1>1, <1>2, <1>3, <1>4, <1>5, <1>6, <1>7, <1>8 DEF PairStep

LEMMA TypedStep ==
  ASSUME Typed, [BatchNext]_batchVars
  PROVE  Typed'
<1>1. CASE PairStep
  BY <1>1, PairIsTyped
<1>2. CASE NextPair
  <2> DEFINE b == Counted(batch, batch.tfailed \/ batch.rc = 1)
             o == IF batch.t \in Disabled THEN "disabled" ELSE Outcome(batch.rc)
  <2>1. b \in Batch /\ b.t = batch.t /\ b.r = batch.r
    BY CountedIsTyped DEF Typed
  <2>2. o \in {"ok", "failed", "busy", "disabled"}
    BY DEF Outcome
  <2>3. /\ rcs' = [rcs EXCEPT ![Pair] = o]
        /\ batch.step = "return" /\ UNCHANGED <<made, verdict>>
        /\ \/ batch' = [b EXCEPT !.step = "end"]
           \/ /\ Pair # <<NumTargets, NumRemotes>>
              /\ batch' = [b EXCEPT !.step = "next",
                                    !.r = IF @ < NumRemotes THEN @ + 1 ELSE 1,
                                    !.t = IF batch.r = NumRemotes THEN @ + 1 ELSE @]
    BY <1>2 DEF NextPair
  <2> HIDE DEF b, o
  <2>4. batch' \in Batch /\ batch'.step \in {"end", "next"}
    <3> DEFINE r == IF batch.r < NumRemotes THEN batch.r + 1 ELSE 1
               t == IF batch.r = NumRemotes THEN batch.t + 1 ELSE batch.t
    <3>1. CASE batch' = [b EXCEPT !.step = "end"]
      BY <2>1, <3>1 DEF Batch, Steps
    <3>2. CASE /\ Pair # <<NumTargets, NumRemotes>>
               /\ batch' = [b EXCEPT !.step = "next", !.r = r, !.t = t]
      <4>1. t \in 1..NumTargets /\ r \in 1..NumRemotes
        BY <3>2, BackupAllAssumption DEF Typed, Batch, Pair
      <4> HIDE DEF t, r
      <4> QED BY <2>1, <3>2, <4>1 DEF Batch, Steps
    <3> QED BY <2>1, <2>3, <3>1, <3>2
  <2>5. rcs' \in [Pairs -> {"none", "ok", "failed", "busy", "disabled", "raised"}]
    BY <2>2, <2>3 DEF Typed
  <2> QED BY <2>3, <2>4, <2>5 DEF Typed, Working
<1>3. CASE Exit
  BY <1>3 DEF Exit, At, Typed, Batch, Steps, Working
<1>4. CASE Raise
  <2>1. /\ batch' = At("over", 0)
        /\ rcs' = [rcs EXCEPT ![Pair] = "raised"]
        /\ made' = made \/ made' = [made EXCEPT ![Pair] = building]
    BY <1>4 DEF Raise
  <2> QED BY <2>1, PairIsPair DEF At, Typed, Batch, Steps, Working
<1>5. CASE UNCHANGED batchVars
  BY <1>5 DEF batchVars, Typed, Working
<1> QED BY <1>1, <1>2, <1>3, <1>4, <1>5 DEF BatchNext, PairStep

--------------------------------------------------------------------------------
(* What the return codes and the counters say. *)

Before(p) == p[1] < batch.t \/ (p[1] = batch.t /\ p[2] < batch.r)
AllTried(t) == \A r \in 1..NumRemotes : rcs[<<t, r>>] # "none"
Failing(t) == \E r \in 1..NumRemotes : rcs[<<t, r>>] = "failed"
Enabled == (1..NumTargets) \ Disabled

\* The folders before the current one are in the .partial, unless one failed.
FoldersAreIn ==
  /\ batch.step \in {"folder", "staged", "short"} /\ ~batch.failed =>
       \A f \in 1..TreeSize :
         f < batch.item => <<"folder", f>> \in building \/ <<"short", f>> \in building
  /\ batch.step = "artifact" => Accepted(building)

\* Return code 0 means a snapshot with every folder, any other no snapshot.
CodesAreTrue ==
  /\ batch.step \in {"cleanup", "return"} /\ batch.rc = 0 /\ batch.t \notin Disabled =>
       Accepted(made[Pair])
  /\ batch.step \in {"cleanup", "return"} /\ batch.rc # 0 => made[Pair] = {}
  /\ \A p \in Pairs :
       /\ rcs[p] = "ok" => Accepted(made[p])
       /\ rcs[p] \in {"none", "failed"} =>
            made[p] = {} \/ (batch.step \in {"cleanup", "return"} /\ p = Pair)
       /\ rcs[p] = "raised" => verdict = "failed"

DisabledAreSkipped ==
  /\ batch.t \in Disabled => /\ batch.step \notin Working
                             /\ batch.step = "return" => batch.rc = 0
  /\ \A p \in Pairs : rcs[p] = "failed" => p[1] \notin Disabled
  /\ \A p \in Pairs : rcs[p] = "disabled" => p[1] \in Disabled

\* The pairs are gone through one after another.
InOrder ==
  /\ batch.step \in Looping => \A p \in Pairs : rcs[p] # "none" <=> Before(p)
  /\ batch.step = "end" /\ batch.mode # "single" => \A p \in Pairs : rcs[p] # "none"

\* The counters tell whether there was a failure, and of --all also whether there was
\* a success.
CountsAreTrue ==
  batch.step # "over" =>
    /\ batch.mode = "single" => (batch.nfail = 0 <=> ~(batch.step = "end" /\ batch.rc = 1))
    /\ batch.mode # "all" => (batch.nfail = 0 <=> \A p \in Pairs : rcs[p] # "failed")
    /\ batch.mode = "all" =>
         /\ batch.step # "end" => (batch.tfailed <=> Failing(batch.t))
         /\ batch.nfail = 0 <=> \A t \in Enabled : AllTried(t) => ~Failing(t)
         /\ batch.nsucc = 0 <=> \A t \in Enabled : AllTried(t) => Failing(t)

BatchInv ==
  /\ Typed
  /\ FoldersAreIn
  /\ CodesAreTrue
  /\ DisabledAreSkipped
  /\ InOrder
  /\ CountsAreTrue
  /\ ExitIsTrue

LEMMA BatchInvInit == BatchInit => BatchInv
<1> SUFFICES ASSUME BatchInit PROVE BatchInv
  OBVIOUS
<1>1. Typed
  BY TypedInit
<1>2. /\ batch.step = "next" /\ batch.t = 1 /\ batch.r = 1 /\ batch.nsucc = 0
      /\ batch.nfail = 0 /\ ~batch.tfailed /\ verdict = "none"
      /\ \A p \in Pairs : made[p] = {} /\ rcs[p] = "none"
  BY DEF BatchInit
<1>3. FoldersAreIn /\ CodesAreTrue /\ DisabledAreSkipped
  BY <1>2 DEF FoldersAreIn, CodesAreTrue, DisabledAreSkipped, Working
<1>4. InOrder
  BY <1>2 DEF InOrder, Before, Pairs
<1>5. \A t \in 1..NumTargets : ~AllTried(t) /\ ~Failing(t)
  <2>1. \A t \in 1..NumTargets, r \in 1..NumRemotes : rcs[<<t, r>>] = "none"
    BY <1>2 DEF Pairs
  <2>2. 1 \in 1..NumRemotes
    BY BackupAllAssumption
  <2> QED BY <2>1, <2>2 DEF AllTried, Failing
<1>6. CountsAreTrue
  BY <1>2, <1>5, BackupAllAssumption DEF CountsAreTrue, Enabled
<1>7. ExitIsTrue
  BY <1>2 DEF ExitIsTrue
<1> QED BY <1>1, <1>3, <1>4, <1>6, <1>7 DEF BatchInv

\* A step within one backup_target counts nothing.
LEMMA LoopStays ==
  ASSUME BatchInv, SameLoop
  PROVE  InOrder' /\ CountsAreTrue' /\ ExitIsTrue'
<1> USE DEF BatchInv, SameLoop
<1>1. \A t : AllTried(t)' = AllTried(t) /\ Failing(t)' = Failing(t)
  BY DEF AllTried, Failing
<1>2. InOrder'
  BY DEF InOrder, Before, Looping, Working
<1>3. CountsAreTrue'
  BY <1>1 DEF CountsAreTrue, Working
<1>4. verdict' = "none"
  BY DEF Typed, Working
<1>5. ExitIsTrue'
  BY <1>4 DEF ExitIsTrue
<1> QED BY <1>2, <1>3, <1>5

\* The pair of a backup_target has no return code yet, and no snapshot.
LEMMA PairIsOpen ==
  ASSUME BatchInv, batch.step \in Looping
  PROVE  /\ Pair \in Pairs /\ rcs[Pair] = "none"
         /\ batch.step \notin {"cleanup", "return"} => made[Pair] = {}
<1>1. Pair \in Pairs
  BY PairIsPair DEF BatchInv
<1>2. ~Before(Pair)
  BY DEF Before, Pair, BatchInv, Typed, Batch
<1> QED BY <1>1, <1>2 DEF BatchInv, InOrder, CodesAreTrue

LEMMA PairStepInv ==
  ASSUME BatchInv, PairStep
  PROVE  BatchInv'
<1>1. Typed' /\ SameLoop
  BY PairIsTyped DEF BatchInv
<1>2. InOrder' /\ CountsAreTrue' /\ ExitIsTrue'
  BY <1>1, LoopStays
<1>3. /\ batch.step \in Looping /\ Pair' = Pair /\ rcs' = rcs /\ verdict' = verdict
      /\ batch.step # "return" /\ batch'.t = batch.t
  BY <1>1 DEF SameLoop, Looping, Working, Pair
<1>4. Pair \in Pairs /\ rcs[Pair] = "none" /\ (batch.step # "cleanup" => made[Pair] = {})
  BY <1>3, PairIsOpen
<1> SUFFICES FoldersAreIn' /\ CodesAreTrue' /\ DisabledAreSkipped'
  BY <1>1, <1>2 DEF BatchInv
<1> USE DEF BatchInv
<1>5. DisabledAreSkipped'
  <2>1. CASE SkipDisabled
    BY <1>3, <2>1 DEF SkipDisabled, DisabledAreSkipped, At, Typed, Batch, Working
  <2>2. CASE ~SkipDisabled
    <3>1. batch.t \notin Disabled
      BY <2>2 DEF PairStep, ReturnEarly, Prepared, Dump, MakePartialDir, MakePartialDirFails,
         PullFails, Pull, SendFolder, Sendable, Staged, InFolders, Publish, FoldersDone,
         SendDump, TransferStops, CleanDir, CleanupDone, DisabledAreSkipped, Working
    <3> QED BY <1>3, <3>1 DEF DisabledAreSkipped
  <2> QED BY <2>1, <2>2
<1> DEFINE Unpublished ==
             /\ made' = made /\ batch.step # "cleanup"
             /\ batch'.step \in {"cleanup", "return"} => batch'.rc # 0 \/ batch.t \in Disabled
           Published ==
             /\ made' = [made EXCEPT ![Pair] = building] /\ Accepted(building)
             /\ batch'.step = "cleanup" /\ batch'.rc = 0
           Cleaning ==
             /\ made' = made /\ batch.step = "cleanup"
             /\ batch'.step \in {"cleanup", "return"} /\ batch'.rc = batch.rc
<1>6. FoldersAreIn' /\ (Unpublished \/ Published \/ Cleaning)
  <2> USE DEF At, Typed, Batch
  <2>1. ASSUME SkipDisabled PROVE FoldersAreIn' /\ Unpublished
    BY <2>1 DEF SkipDisabled, FoldersAreIn
  <2>10. ASSUME NEW rc \in {1, 2}, ReturnEarly(rc) PROVE FoldersAreIn' /\ Unpublished
    BY <2>10 DEF ReturnEarly, FoldersAreIn
  <2>11. ASSUME Prepared PROVE FoldersAreIn' /\ Unpublished
    BY <2>11 DEF Prepared, FoldersAreIn
  <2>2. ASSUME NEW kept \in BOOLEAN, Dump(kept) PROVE FoldersAreIn' /\ Unpublished
    BY <2>2 DEF Dump, FoldersAreIn
  <2>3. ASSUME MakePartialDir PROVE FoldersAreIn' /\ Unpublished
    BY <2>3, BackupAllAssumption DEF MakePartialDir, FoldersAreIn
  <2>4. ASSUME MakePartialDirFails \/ TransferStops PROVE FoldersAreIn' /\ Unpublished
    <3>1. Cleanup(1) /\ made' = made /\ batch.step # "cleanup"
      BY <2>4 DEF MakePartialDirFails, TransferStops, InFolders
    <3> QED BY <3>1 DEF Cleanup, FoldersAreIn
  <2>5. ASSUME PullFails PROVE FoldersAreIn' /\ Unpublished
    BY <2>5 DEF PullFails, InFolders, FoldersAreIn
  <2>12. ASSUME NEW step \in {"staged", "short"}, Pull(step) PROVE FoldersAreIn' /\ Unpublished
    BY <2>12 DEF Pull, InFolders, FoldersAreIn
  <2>6. ASSUME NEW result \in {"folder", "short", "failed"}, SendFolder(result)
        PROVE  FoldersAreIn' /\ Unpublished
    <3>1. /\ batch'.step = "folder" /\ batch'.item = batch.item + 1 /\ made' = made
          /\ ~batch'.failed => result # "failed" /\ ~batch.failed
          /\ batch.step \in {"folder", "staged", "short"} /\ building' = Sent(result)
      BY <2>6 DEF SendFolder, Sendable, Staged, InFolders
    <3>2. \A f \in 1..TreeSize : f < batch.item + 1 => f < batch.item \/ f = batch.item
      BY BackupAllAssumption
    <3>3. /\ building \subseteq building'
          /\ result # "failed" => \/ <<"folder", batch.item>> \in building'
                                  \/ <<"short", batch.item>> \in building'
      BY <3>1 DEF Sent
    <3>4. FoldersAreIn'
      <4> SUFFICES ASSUME ~batch'.failed, NEW f \in 1..TreeSize, f < batch.item + 1
                   PROVE  <<"folder", f>> \in building' \/ <<"short", f>> \in building'
        BY <3>1 DEF FoldersAreIn
      <4>1. CASE f < batch.item
        BY <3>1, <3>3, <4>1 DEF FoldersAreIn
      <4>2. CASE f = batch.item
        BY <3>1, <3>3, <4>2
      <4> QED BY <3>2, <4>1, <4>2
    <3> QED BY <3>1, <3>4
  <2>7. ASSUME NEW ok \in BOOLEAN, Publish(ok)
        PROVE  FoldersAreIn' /\ (Unpublished \/ Published)
    BY <2>7 DEF Publish, Cleanup, FoldersAreIn
  <2>8. ASSUME FoldersDone PROVE FoldersAreIn' /\ Unpublished
    <3>1. /\ batch.step = "folder" /\ ~batch.failed /\ building' = building /\ made' = made
          /\ batch'.step = "artifact" /\ batch.item > TreeSize
      BY <2>8 DEF FoldersDone
    <3>2. \A f \in 1..TreeSize : f < batch.item
      BY <3>1, BackupAllAssumption
    <3> QED BY <3>1, <3>2 DEF FoldersAreIn, Accepted
  <2>9. ASSUME SendDump PROVE FoldersAreIn' /\ Unpublished
    BY <2>9 DEF SendDump, FoldersAreIn
  <2>13. ASSUME CleanDir \/ CleanupDone PROVE FoldersAreIn' /\ Cleaning
    BY <2>13 DEF CleanDir, CleanupDone, FoldersAreIn
  <2> HIDE DEF Unpublished, Published, Cleaning
  <2> QED BY <2>1, <2>2, <2>3, <2>4, <2>5, <2>6, <2>7, <2>8, <2>9, <2>10, <2>11, <2>12, <2>13
         DEF PairStep
<1>7. CodesAreTrue'
  <2>1. CASE Unpublished
    BY <1>3, <1>4, <2>1 DEF CodesAreTrue
  <2>2. CASE Published
    <3>1. made'[Pair] = building /\ \A p \in Pairs : p # Pair => made'[p] = made[p]
      BY <1>4, <2>2 DEF Typed
    <3>2. Accepted(building)
      BY <2>2
    <3> HIDE DEF Published
    <3>3. batch'.step = "cleanup" /\ batch'.rc = 0
      BY <2>2 DEF Published
    <3>4. Accepted(made'[Pair])
      BY <3>1, <3>2 DEF Accepted
    <3>5. \A p \in Pairs : rcs[p] = "ok" => Accepted(made'[p])
      BY <1>4, <3>1 DEF CodesAreTrue, Accepted
    <3> QED BY <1>3, <1>4, <3>1, <3>3, <3>4, <3>5 DEF CodesAreTrue
  <2>3. CASE Cleaning
    BY <1>3, <1>4, <2>3 DEF CodesAreTrue
  <2> QED BY <1>6, <2>1, <2>2, <2>3
<1> QED BY <1>5, <1>6, <1>7

\* What the count of a pair adds.
LEMMA CountedCases ==
  ASSUME NEW b \in Batch, NEW tfailed \in BOOLEAN
  PROVE  LET c == Counted(b, tfailed) IN
         /\ c.rc = b.rc
         /\ b.mode # "all" => c.nfail = b.nfail + (IF b.rc = 1 THEN 1 ELSE 0)
         /\ b.mode = "all" /\ b.r < NumRemotes =>
              c.tfailed = tfailed /\ c.nfail = b.nfail /\ c.nsucc = b.nsucc
         /\ b.mode = "all" /\ b.r = NumRemotes /\ b.t \in Disabled => c = b
         /\ b.mode = "all" /\ b.r = NumRemotes /\ b.t \notin Disabled =>
              /\ ~c.tfailed
              /\ c.nfail = b.nfail + (IF tfailed THEN 1 ELSE 0)
              /\ c.nsucc = b.nsucc + (IF tfailed THEN 0 ELSE 1)
<1>1. CASE b.mode # "all"
  BY <1>1 DEF Counted, Batch
<1>2. CASE b.mode = "all" /\ b.r < NumRemotes
  <2>1. Counted(b, tfailed) = [b EXCEPT !.tfailed = tfailed]
    BY <1>2, BackupAllAssumption DEF Counted, Batch
  <2> QED BY <1>2, <2>1, BackupAllAssumption DEF Batch
<1>3. CASE b.mode = "all" /\ b.r = NumRemotes /\ b.t \in Disabled
  BY <1>3, BackupAllAssumption DEF Counted, Batch
<1>4. CASE b.mode = "all" /\ b.r = NumRemotes /\ b.t \notin Disabled
  <2> DEFINE none == FALSE
             ns == b.nsucc + (IF tfailed THEN 0 ELSE 1)
             nf == b.nfail + (IF tfailed THEN 1 ELSE 0)
  <2>1. Counted(b, tfailed) = [b EXCEPT !.tfailed = none, !.nsucc = ns, !.nfail = nf]
    BY <1>4, BackupAllAssumption DEF Counted, Batch
  <2>2. ~none
    OBVIOUS
  <2> HIDE DEF none, ns, nf
  <2>3. LET c == Counted(b, tfailed) IN
        c.rc = b.rc /\ ~c.tfailed /\ c.nfail = nf /\ c.nsucc = ns
    BY <2>1, <2>2 DEF Batch
  <2> QED BY <1>4, <2>3, BackupAllAssumption DEF Batch, nf, ns
<1> QED BY <1>1, <1>2, <1>3, <1>4, BackupAllAssumption DEF Batch

\* backup_target has returned, and its code is counted.
LEMMA NextPairInv ==
  ASSUME BatchInv, NextPair
  PROVE  BatchInv'
<1> USE DEF BatchInv
<1> DEFINE tf == batch.tfailed \/ batch.rc = 1
           b == Counted(batch, tf)
           o == IF batch.t \in Disabled THEN "disabled" ELSE Outcome(batch.rc)
<1> PICK t, r : t = batch.t /\ r = batch.r
  OBVIOUS
<1>0. /\ batch.step = "return" /\ UNCHANGED <<building, made, verdict>>
      /\ verdict = "none"
      /\ batch \in Batch /\ t \in 1..NumTargets /\ r \in 1..NumRemotes
      /\ NumTargets \in Nat /\ NumRemotes \in Nat /\ tf \in BOOLEAN
      /\ Pair = <<t, r>> /\ batch.t = t /\ batch.r = r
  BY BackupAllAssumption DEF NextPair, Typed, Batch, Pair
<1>1. /\ Pair \in Pairs /\ rcs[Pair] = "none"
      /\ rcs'[Pair] = o
      /\ \A p \in Pairs : p # Pair => rcs'[p] = rcs[p]
  BY <1>0, PairIsOpen DEF Looping, NextPair, Typed
<1>2. /\ o \in {"ok", "failed", "busy", "disabled"}
      /\ o = "failed" <=> batch.rc = 1
      /\ o = "failed" => t \notin Disabled
      /\ o = "ok" => batch.rc = 0 /\ t \notin Disabled
      /\ o = "disabled" => t \in Disabled
  BY <1>0 DEF Outcome, DisabledAreSkipped
<1>3. Typed'
  BY TypedStep DEF BatchNext
<1>4. /\ b \in Batch /\ b.mode = batch.mode /\ b.t = t /\ b.r = r /\ b.rc = batch.rc
  BY <1>0, CountedIsTyped
<1> DEFINE last == batch.mode = "single" \/ Pair = <<NumTargets, NumRemotes>>
           nr == IF r < NumRemotes THEN r + 1 ELSE 1
           nt == IF r = NumRemotes THEN t + 1 ELSE t
<1>5. batch' = IF last THEN [b EXCEPT !.step = "end"]
               ELSE [b EXCEPT !.step = "next", !.r = nr, !.t = nt]
  <2>1. batch' = IF last THEN [b EXCEPT !.step = "end"]
                 ELSE [b EXCEPT !.step = "next",
                                !.r = IF @ < NumRemotes THEN @ + 1 ELSE 1,
                                !.t = IF batch.r = NumRemotes THEN @ + 1 ELSE @]
    BY DEF NextPair
  <2> HIDE DEF b, last
  <2> QED BY <1>4, <2>1 DEF Batch
<1>6. /\ batch'.mode = batch.mode /\ batch'.rc = batch.rc /\ batch'.tfailed = b.tfailed
      /\ batch'.nsucc = b.nsucc /\ batch'.nfail = b.nfail
      /\ last => batch'.step = "end"
      /\ ~last => batch'.step = "next" /\ batch'.t = nt /\ batch'.r = nr
  <2> HIDE DEF b, last, nr, nt
  <2> QED BY <1>4, <1>5 DEF Batch
<1>7. FoldersAreIn' /\ ExitIsTrue'
  BY <1>0, <1>6 DEF FoldersAreIn, ExitIsTrue
<1>8. CodesAreTrue'
  BY <1>0, <1>1, <1>2, <1>6 DEF CodesAreTrue
<1>9. DisabledAreSkipped'
  BY <1>0, <1>1, <1>2, <1>6 DEF DisabledAreSkipped, Working
<1> HIDE DEF o, b
<1>10. \A p \in Pairs : rcs[p] # "none" <=> Before(p)
  BY <1>0 DEF InOrder, Looping
<1>11. /\ \A p \in Pairs : rcs'[p] # "none" <=> Before(p) \/ p = Pair
       /\ \A p \in Pairs : p = <<p[1], p[2]>> /\ p[1] \in 1..NumTargets /\ p[2] \in 1..NumRemotes
  BY <1>1, <1>2, <1>10 DEF Pairs
<1>12. InOrder'
  <2>1. CASE last
    <3>1. batch.mode # "single" => \A p \in Pairs : Before(p) \/ p = Pair
      BY <1>0, <1>11, <2>1 DEF Before
    <3> QED BY <1>6, <1>11, <2>1, <3>1 DEF InOrder, Looping, Working
  <2>2. CASE ~last
    <3>1. \A p \in Pairs : Before(p)' <=> Before(p) \/ p = Pair
      BY <1>0, <1>6, <1>11, <2>2 DEF Before
    <3> QED BY <1>6, <1>11, <2>2, <3>1 DEF InOrder
  <2> QED BY <2>1, <2>2
<1>13. CountsAreTrue'
  <2>1. CASE batch.mode # "all"
    <3>1. b.nfail = batch.nfail + (IF batch.rc = 1 THEN 1 ELSE 0) /\ batch.nfail \in Nat
      BY <1>0, <2>1, CountedCases DEF b, Batch
    <3>2. batch.mode = "single" => last /\ batch.nfail = 0
      BY <1>0 DEF CountsAreTrue
    <3>3. b.nfail = 0 <=> batch.nfail = 0 /\ batch.rc # 1
      BY <3>1
    <3>4. b.nfail = 0 <=> \A p \in Pairs : rcs'[p] # "failed"
      BY <1>0, <1>1, <1>2, <2>1, <3>3 DEF CountsAreTrue
    <3> QED BY <1>0, <1>6, <2>1, <3>2, <3>3, <3>4 DEF CountsAreTrue
  <2>2. CASE batch.mode = "all"
    <3>1. /\ batch.tfailed <=> Failing(t)
          /\ batch.nfail = 0 <=> \A u \in Enabled : AllTried(u) => ~Failing(u)
          /\ batch.nsucc = 0 <=> \A u \in Enabled : AllTried(u) => Failing(u)
          /\ batch.nfail \in Nat /\ batch.nsucc \in Nat
      BY <1>0, <2>2 DEF CountsAreTrue, Batch
    <3>2. \A u \in 1..NumTargets, q \in 1..NumRemotes :
            /\ <<u, q>> \in Pairs
            /\ <<u, q>> = Pair <=> u = t /\ q = r
            /\ rcs[<<u, q>>] # "none" <=> u < t \/ (u = t /\ q < r)
            /\ rcs'[<<u, q>>] = IF u = t /\ q = r THEN o ELSE rcs[<<u, q>>]
      <4>1. \A u \in 1..NumTargets, q \in 1..NumRemotes :
              /\ <<u, q>> \in Pairs
              /\ <<u, q>>[1] = u /\ <<u, q>>[2] = q
              /\ <<u, q>> = Pair <=> u = t /\ q = r
        BY <1>0 DEF Pairs
      <4>2. \A u \in 1..NumTargets, q \in 1..NumRemotes :
              Before(<<u, q>>) <=> u < t \/ (u = t /\ q < r)
        BY <1>0 DEF Before
      <4>3. \A u \in 1..NumTargets, q \in 1..NumRemotes :
              rcs[<<u, q>>] # "none" <=> Before(<<u, q>>)
        BY <1>10, <4>1
      <4>4. \A u \in 1..NumTargets, q \in 1..NumRemotes :
              rcs'[<<u, q>>] = IF u = t /\ q = r THEN o ELSE rcs[<<u, q>>]
        BY <1>1, <4>1
      <4> SUFFICES ASSUME NEW u \in 1..NumTargets, NEW q \in 1..NumRemotes
                   PROVE  /\ <<u, q>> \in Pairs
                          /\ <<u, q>> = Pair <=> u = t /\ q = r
                          /\ rcs[<<u, q>>] # "none" <=> u < t \/ (u = t /\ q < r)
                          /\ rcs'[<<u, q>>] = IF u = t /\ q = r THEN o ELSE rcs[<<u, q>>]
        OBVIOUS
      <4>5. <<u, q>> \in Pairs /\ (<<u, q>> = Pair <=> u = t /\ q = r)
        BY <4>1
      <4>6. rcs[<<u, q>>] # "none" <=> u < t \/ (u = t /\ q < r)
        BY <4>2, <4>3
      <4>7. rcs'[<<u, q>>] = IF u = t /\ q = r THEN o ELSE rcs[<<u, q>>]
        BY <4>4
      <4> QED BY <4>5, <4>6, <4>7
    <3>3. \A u \in 1..NumTargets : u # t =>
            (AllTried(u)' <=> AllTried(u)) /\ (Failing(u)' <=> Failing(u))
      BY <3>2 DEF AllTried, Failing
    <3>4. /\ ~AllTried(t)
          /\ Failing(t)' <=> tf
      BY <1>0, <1>2, <3>1, <3>2 DEF AllTried, Failing
    <3>5. CASE r < NumRemotes
      <4>1. b.tfailed = tf /\ b.nfail = batch.nfail /\ b.nsucc = batch.nsucc
        BY <1>0, <2>2, <3>5, CountedCases DEF b
      <4>2. ~last /\ batch'.t = t
        BY <1>0, <1>6, <2>2, <3>5
      <4>3. ~AllTried(t)'
        <5>1. r + 1 \in 1..NumRemotes /\ ~(r + 1 < r) /\ r + 1 # r
          BY <1>0, <3>5
        <5>2. rcs'[<<t, r + 1>>] = "none"
          BY <1>0, <3>2, <5>1
        <5> QED BY <5>1, <5>2 DEF AllTried
      <4>4. \A u \in 1..NumTargets : (AllTried(u)' <=> AllTried(u)) /\ (AllTried(u) => u # t)
        BY <3>3, <3>4, <4>3
      <4>5. \A u \in Enabled : AllTried(u)' => (Failing(u)' <=> Failing(u)) /\ AllTried(u)
        BY <3>3, <4>4 DEF Enabled
      <4>6. batch'.mode = "all" /\ batch'.step # "over" /\ (batch'.tfailed <=> Failing(batch.t)')
        BY <1>6, <2>2, <3>4, <4>1, <4>2
      <4>7. batch'.nfail = 0 <=> \A u \in Enabled : AllTried(u)' => ~Failing(u)'
        BY <1>6, <3>1, <3>3, <4>1, <4>4, <4>5 DEF Enabled
      <4>8. batch'.nsucc = 0 <=> \A u \in Enabled : AllTried(u)' => Failing(u)'
        BY <1>6, <3>1, <3>3, <4>1, <4>4, <4>5 DEF Enabled
      <4> QED BY <4>6, <4>7, <4>8 DEF CountsAreTrue
    <3>6. CASE r = NumRemotes
      <4>1. AllTried(t)'
        BY <1>0, <1>2, <3>2, <3>6 DEF AllTried
      <4>2. ~last => t + 1 \in 1..NumTargets /\ batch'.t = t + 1 /\ ~Failing(t + 1)'
        <5> SUFFICES ASSUME ~last
                     PROVE  t + 1 \in 1..NumTargets /\ batch'.t = t + 1 /\ ~Failing(t + 1)'
          OBVIOUS
        <5>1. t # NumTargets /\ batch'.t = t + 1
          BY <1>0, <1>6, <3>6
        <5>2. t + 1 \in 1..NumTargets
          BY <1>0, <5>1
        <5>3. \A q \in 1..NumRemotes : rcs'[<<t + 1, q>>] = "none"
          BY <1>0, <3>2, <5>2
        <5> QED BY <5>1, <5>2, <5>3 DEF Failing
      <4>3. CASE t \in Disabled
        <5>1. b = batch
          BY <1>0, <2>2, <3>6, <4>3, CountedCases DEF b
        <5>2. ~Failing(t)
          BY <3>2, <4>3, <1>0 DEF Failing, DisabledAreSkipped
        <5>3. t \notin Enabled /\ \A u \in Enabled : u # t /\ u \in 1..NumTargets
          BY <4>3 DEF Enabled
        <5>4. ~batch'.tfailed
          BY <1>6, <3>1, <5>1, <5>2
        <5>5. batch'.step # "end" => (batch'.tfailed <=> Failing(batch.t)')
          BY <1>6, <4>2, <5>4
        <5>6. /\ batch'.nfail = 0 <=> \A u \in Enabled : AllTried(u)' => ~Failing(u)'
              /\ batch'.nsucc = 0 <=> \A u \in Enabled : AllTried(u)' => Failing(u)'
          BY <1>6, <3>1, <3>3, <5>1, <5>3
        <5> QED BY <1>6, <2>2, <5>5, <5>6 DEF CountsAreTrue
      <4>4. CASE t \notin Disabled
        <5>1. /\ ~b.tfailed
              /\ b.nfail = batch.nfail + (IF tf THEN 1 ELSE 0)
              /\ b.nsucc = batch.nsucc + (IF tf THEN 0 ELSE 1)
          BY <1>0, <2>2, <3>6, <4>4, CountedCases DEF b
        <5>2. t \in Enabled /\ \A u \in Enabled : u \in 1..NumTargets
          BY <1>0, <4>4 DEF Enabled
        <5>3. /\ b.nfail = 0 <=> batch.nfail = 0 /\ ~tf
              /\ b.nsucc = 0 <=> batch.nsucc = 0 /\ tf
          BY <3>1, <5>1
        <5>4. batch'.step # "end" => (batch'.tfailed <=> Failing(batch.t)')
          BY <1>6, <4>2, <5>1
        <5>5. batch'.nfail = 0 <=> \A u \in Enabled : AllTried(u)' => ~Failing(u)'
          BY <1>6, <3>1, <3>3, <3>4, <4>1, <5>2, <5>3
        <5>6. batch'.nsucc = 0 <=> \A u \in Enabled : AllTried(u)' => Failing(u)'
          BY <1>6, <3>1, <3>3, <3>4, <4>1, <5>2, <5>3
        <5> QED BY <1>6, <2>2, <5>4, <5>5, <5>6 DEF CountsAreTrue
      <4> QED BY <4>3, <4>4
    <3> QED BY <1>0, <3>5, <3>6
  <2> QED BY <2>1, <2>2
<1> QED BY <1>3, <1>7, <1>8, <1>9, <1>12, <1>13

\* The exit code is made of counters that tell the truth.
LEMMA ExitInv ==
  ASSUME BatchInv, Exit
  PROVE  BatchInv'
<1> USE DEF BatchInv
<1>1. /\ batch.step = "end" /\ verdict = "none" /\ verdict' = ExitCode(batch)
      /\ UNCHANGED <<building, made, rcs>>
      /\ batch'.step = "over" /\ batch'.mode = batch.mode /\ batch'.t = batch.t
      /\ batch.nfail \in Nat /\ batch.nsucc \in Nat
  BY DEF Exit, At, Typed, Batch
<1>2. Typed'
  BY TypedStep DEF BatchNext
<1>3. FoldersAreIn' /\ CodesAreTrue' /\ DisabledAreSkipped' /\ InOrder' /\ CountsAreTrue'
  BY <1>1 DEF FoldersAreIn, CodesAreTrue, DisabledAreSkipped, InOrder, CountsAreTrue, Looping,
     Working
<1>4. /\ \A p \in Pairs : rcs[p] \in {"none", "ok", "failed", "busy", "disabled"}
      /\ \A p \in Pairs : rcs[p] \in {"ok", "busy"} => Served(p)
      /\ \A p \in Pairs : rcs[p] = "failed" => ~Served(p) /\ p[1] \notin Disabled
  <2>1. ~Accepted({})
    BY BackupAllAssumption DEF Accepted
  <2>2. \A p \in Pairs : /\ rcs[p] # "raised"
                         /\ rcs[p] = "ok" => Accepted(made[p])
                         /\ rcs[p] = "failed" => made[p] = {} /\ p[1] \notin Disabled
    BY <1>1 DEF CodesAreTrue, DisabledAreSkipped
  <2> QED BY <2>1, <2>2 DEF Typed, Served
<1>5. CASE batch.mode # "all"
  <2>1. /\ verdict' = "ok" => \A p \in Pairs : rcs[p] # "failed"
        /\ verdict' = "failed" => \E p \in Pairs : rcs[p] = "failed"
    <3>1. CASE batch.mode = "single"
      BY <1>1, <1>5, <3>1 DEF ExitCode, Outcome, CountsAreTrue
    <3>2. CASE batch.mode # "single"
      BY <1>1, <1>5, <3>2 DEF ExitCode, CountsAreTrue
    <3> QED BY <3>1, <3>2
  <2>2. verdict' # "partial"
    BY <1>1, <1>5 DEF ExitCode, Outcome
  <2>3. \A p \in Pairs : Served(p)' = Served(p)
    BY <1>1 DEF Served
  <2>4. ExitIsTrue'
    BY <1>1, <1>4, <1>5, <2>1, <2>2, <2>3 DEF ExitIsTrue
  <2> QED BY <1>2, <1>3, <2>4
<1>6. CASE batch.mode = "all"
  <2>1. /\ verdict' = "ok" => batch.nfail = 0
        /\ verdict' = "failed" => batch.nsucc = 0
        /\ verdict' = "partial" => batch.nfail # 0 /\ batch.nsucc # 0
    BY <1>1, <1>6 DEF ExitCode
  <2>2. /\ batch.nfail = 0 <=> \A t \in Enabled : ~Failing(t)
        /\ batch.nsucc = 0 <=> \A t \in Enabled : Failing(t)
    <3>1. \A t \in Enabled : AllTried(t)
      BY <1>1, <1>6 DEF InOrder, AllTried, Enabled, Pairs
    <3> QED BY <1>1, <1>6, <3>1 DEF CountsAreTrue
  <2> DEFINE Full(t) == \A r \in 1..NumRemotes : Served(<<t, r>>)
  <2>3. \A t \in Enabled : Full(t) <=> ~Failing(t)
    <3> SUFFICES ASSUME NEW t \in Enabled PROVE Full(t) <=> ~Failing(t)
      OBVIOUS
    <3>1. \A r \in 1..NumRemotes :
            /\ rcs[<<t, r>>] \in {"ok", "failed", "busy", "disabled"}
            /\ rcs[<<t, r>>] \in {"ok", "busy"} => Served(<<t, r>>)
            /\ rcs[<<t, r>>] = "failed" => ~Served(<<t, r>>)
      BY <1>1, <1>4, <1>6 DEF Enabled, Pairs, InOrder
    <3>2. \A r \in 1..NumRemotes : rcs[<<t, r>>] # "disabled"
      BY DEF Enabled, Pairs, DisabledAreSkipped
    <3> QED BY <3>1, <3>2 DEF Failing
  <2>4. verdict' = "ok" => \A p \in Pairs : rcs[p] # "failed"
    <3> SUFFICES ASSUME verdict' = "ok", NEW p \in Pairs PROVE rcs[p] # "failed"
      OBVIOUS
    <3>1. p = <<p[1], p[2]>> /\ p[1] \in 1..NumTargets /\ p[2] \in 1..NumRemotes
      BY DEF Pairs
    <3>2. p[1] \in Enabled => rcs[<<p[1], p[2]>>] # "failed"
      BY <2>1, <2>2, <3>1 DEF Failing
    <3> QED BY <1>4, <3>1, <3>2 DEF Enabled
  <2>8. verdict' = "failed" => \E p \in Pairs : rcs[p] = "failed"
    <3> SUFFICES ASSUME verdict' = "failed" PROVE \E p \in Pairs : rcs[p] = "failed"
      OBVIOUS
    <3>1. batch.nfail # 0
      BY <1>1, <1>6 DEF ExitCode
    <3>2. PICK t \in Enabled : Failing(t)
      BY <2>2, <3>1
    <3> QED BY <3>2 DEF Failing, Pairs, Enabled
  <2>5. /\ verdict' = "ok" => \A p \in Pairs : rcs[p] \notin {"none", "disabled"} => Served(p)
        /\ verdict' = "failed" => \A t \in Enabled : ~Full(t)
        /\ verdict' = "partial" => (\E t \in Enabled : Full(t)) /\ (\E t \in Enabled : ~Full(t))
    BY <1>4, <2>1, <2>2, <2>3, <2>4
  <2>6. \A p : Served(p)' = Served(p)
    BY <1>1 DEF Served
  <2>7. ExitIsTrue'
    BY <1>1, <2>5, <2>6, <2>8 DEF ExitIsTrue, Enabled
  <2> QED BY <1>2, <1>3, <2>7
<1> QED BY <1>5, <1>6

LEMMA RaiseInv ==
  ASSUME BatchInv, Raise
  PROVE  BatchInv'
<1> USE DEF BatchInv
<1>1. /\ batch.step \in {"next"} \union Working
      /\ rcs' = [rcs EXCEPT ![Pair] = "raised"] /\ verdict' = "failed" /\ verdict = "none"
      /\ made' = made \/ made' = [made EXCEPT ![Pair] = building]
      /\ batch'.step = "over" /\ batch'.t = batch.t
  BY DEF Raise, At, Typed, Batch, Working
<1>2. Typed'
  BY TypedStep DEF BatchNext
<1>3. /\ Pair \in Pairs
      /\ rcs'[Pair] = "raised"
      /\ \A p \in Pairs : p # Pair => rcs'[p] = rcs[p] /\ made'[p] = made[p]
  BY <1>1, PairIsPair DEF Typed
<1>4. CodesAreTrue'
  BY <1>1, <1>3 DEF CodesAreTrue, Working
<1>5. DisabledAreSkipped'
  BY <1>1, <1>3 DEF DisabledAreSkipped, Working
<1>6. FoldersAreIn' /\ InOrder' /\ CountsAreTrue'
  BY <1>1 DEF FoldersAreIn, InOrder, CountsAreTrue, Looping, Working
<1>7. ExitIsTrue'
  BY <1>1, <1>3 DEF ExitIsTrue
<1> QED BY <1>2, <1>4, <1>5, <1>6, <1>7

LEMMA BatchInvStep ==
  ASSUME BatchInv, [BatchNext]_batchVars
  PROVE  BatchInv'
<1>1. CASE UNCHANGED batchVars
  <2>1. UNCHANGED <<batch, temps, held, building, made, rcs, verdict>>
    BY <1>1 DEF batchVars
  <2>2. Typed' /\ FoldersAreIn' /\ CodesAreTrue' /\ DisabledAreSkipped'
    BY <2>1 DEF BatchInv, Typed, FoldersAreIn, CodesAreTrue, DisabledAreSkipped, Pair
  <2>3. InOrder'
    BY <2>1 DEF BatchInv, InOrder, Before
  <2>4. CountsAreTrue'
    BY <2>1 DEF BatchInv, CountsAreTrue, AllTried, Failing
  <2>5. ExitIsTrue'
    BY <2>1 DEF BatchInv, ExitIsTrue, Served
  <2> QED BY <2>2, <2>3, <2>4, <2>5 DEF BatchInv
<1> QED
  BY <1>1, PairStepInv, NextPairInv, ExitInv, RaiseInv DEF BatchNext, PairStep

--------------------------------------------------------------------------------
(* The theorems. *)

\* Whatever of the dumps, folders, targets and remotes fails or raises: the exit code of
\* "gniza backup" is 0 only when every backup that was tried has published a snapshot with
\* every folder, as whole as rsync_with_retry takes for a success, or found another one
\* running; it is 1 only when a backup failed or an exception ended the program; and, but
\* for exceptions, 1 and 3 of --all tell none from some.
THEOREM ExitIsTrueThm == BatchSpec => []ExitIsTrue
<1>1. BatchInv => ExitIsTrue
  BY DEF BatchInv
<1> QED BY <1>1, BatchInvInit, BatchInvStep, PTL DEF BatchSpec

\* For every number of folders, dumps, targets and remotes: when backup_target has
\* returned, with whatever code, no temporary directory of it is left but one that rm
\* failed to remove.  Where an exception ended it instead, nothing is said.
THEOREM NoTempIsLeftThm == BatchSpec => []NoTempIsLeft
<1>1. BatchInit => Typed /\ TempInv
  <2> SUFFICES ASSUME BatchInit PROVE Typed /\ TempInv
    OBVIOUS
  <2>1. /\ batch.step = "next" /\ temps = {} /\ held = {}
        /\ \A p \in Pairs : rcs[p] = "none"
    BY DEF BatchInit
  <2> QED BY <2>1, TypedInit DEF TempInv, NoTempIsLeft, Working
<1>2. Typed /\ TempInv /\ [BatchNext]_batchVars => Typed' /\ TempInv'
  BY TypedStep, TempStep
<1>3. TempInv => NoTempIsLeft
  BY DEF TempInv
<1> QED BY <1>1, <1>2, <1>3, PTL DEF BatchSpec

--------------------------------------------------------------------------------
(* The bounds of the type invariant. *)

\* The items a step goes through.
Items(step) ==
  CASE step \in {"dump", "artifact", "cleanup"} -> 1..(DumpKinds + 1)
    [] step = "folder" -> 1..(TreeSize + 1)
    [] step \in {"staged", "short"} -> 1..TreeSize
    [] OTHER -> {0}

ItemInRange == batch.step \in Steps /\ batch.item \in Items(batch.step)

\* What is made is for a pair there is, and of folders and dumps there are.
Contained ==
  /\ temps \subseteq Pairs \X TempDirs
  /\ held \subseteq DumpDirs
  /\ building \subseteq Tree
  /\ made \in [Pairs -> SUBSET Tree]
  /\ verdict \in {"none", "ok", "failed", "busy", "partial"}

\* --all counts a target once, a schedule counts a pair once.
CountedSoFar ==
  /\ batch.mode = "all" =>
       batch.nsucc + batch.nfail <= IF batch.step \in Looping THEN batch.t - 1 ELSE batch.t
  /\ batch.mode # "all" =>
       /\ batch.nsucc = 0
       /\ batch.nfail <= IF batch.step \in Looping THEN (batch.t - 1) * NumRemotes + (batch.r - 1)
                                                   ELSE (batch.t - 1) * NumRemotes + batch.r

BoundsInv == Typed /\ ItemInRange /\ Contained /\ CountedSoFar

\* The rank of a pair in the loop over targets and remotes.
LEMMA RankOfPair ==
  ASSUME NEW t \in 1..NumTargets, NEW r \in 1..NumRemotes
  PROVE  /\ (t - 1) * NumRemotes \in Nat
         /\ (t - 1) * NumRemotes + NumRemotes = t * NumRemotes
         /\ t * NumRemotes <= NumTargets * NumRemotes
         /\ NumTargets <= NumTargets * NumRemotes
<1>1. NumTargets \in Nat /\ NumRemotes \in Nat /\ NumRemotes >= 1 /\ t \in Nat /\ t >= 1
      /\ t <= NumTargets
  BY BackupAllAssumption
<1>2. PICK k \in Nat : t = k + 1
  <2>1. t - 1 \in Nat /\ t = (t - 1) + 1
    BY <1>1
  <2> QED BY <2>1
<1>3. PICK d \in Nat : NumTargets = t + d
  <2>1. NumTargets - t \in Nat /\ NumTargets = t + (NumTargets - t)
    BY <1>1
  <2> QED BY <2>1
<1>4. PICK m \in Nat : NumRemotes = m + 1
  <2>1. NumRemotes - 1 \in Nat /\ NumRemotes = (NumRemotes - 1) + 1
    BY <1>1
  <2> QED BY <2>1
<1>5. \A a, b \in Nat : a * b \in Nat
  OBVIOUS
<1>6. k * NumRemotes \in Nat /\ d * NumRemotes \in Nat /\ NumTargets * m \in Nat
  BY <1>1, <1>5
<1>7. (t - 1) * NumRemotes = k * NumRemotes
  BY <1>2, <1>1
<1>8. t * NumRemotes = k * NumRemotes + NumRemotes
  BY <1>2, <1>1
<1>9. NumTargets * NumRemotes = t * NumRemotes + d * NumRemotes
  BY <1>3, <1>1
<1>10. NumTargets * NumRemotes = NumTargets * m + NumTargets
  BY <1>4, <1>1
<1>11. t * NumRemotes \in Nat
  BY <1>1, <1>5
<1> QED BY <1>1, <1>6, <1>7, <1>8, <1>9, <1>10, <1>11

LEMMA ItemStep ==
  ASSUME Typed, ItemInRange, [BatchNext]_batchVars
  PROVE  ItemInRange'
<1> USE DEF At
<1>0. TreeSize \in Nat /\ TreeSize >= 1 /\ DumpKinds \in Nat /\ batch \in Batch
  BY BackupAllAssumption DEF Typed
<1>1. ASSUME NEW step \in Steps, NEW item \in Items(step),
             batch'.step = step, batch'.item = item
      PROVE  ItemInRange'
  BY <1>1 DEF ItemInRange
<1>2. CASE SkipDisabled \/ (\E rc \in {1, 2} : ReturnEarly(rc)) \/ CleanupDone
  <2>1. batch'.step = "return" /\ batch'.item = 0
    BY <1>0, <1>2 DEF SkipDisabled, ReturnEarly, CleanupDone, Batch
  <2> QED BY <2>1 DEF ItemInRange, Items, Steps
<1>3. ASSUME NEW rc \in {0, 1}, Cleanup(rc) PROVE ItemInRange'
  <2>1. batch'.step = "cleanup" /\ batch'.item = 1
    BY <1>0, <1>3 DEF Cleanup, Batch
  <2> QED BY <1>0, <2>1 DEF ItemInRange, Items, Steps
<1>4. CASE MakePartialDirFails \/ TransferStops \/ (\E ok \in BOOLEAN : Publish(ok))
  BY <1>3, <1>4 DEF MakePartialDirFails, TransferStops, Publish
<1>5. CASE Prepared \/ MakePartialDir \/ FoldersDone
  <2>1. batch'.step \in {"dump", "folder", "artifact"} /\ batch'.item = 1
    BY <1>0, <1>5 DEF Prepared, MakePartialDir, FoldersDone, Batch
  <2> QED BY <1>0, <2>1 DEF ItemInRange, Items, Steps
<1>6. CASE SendDump \/ CleanDir \/ (\E kept \in BOOLEAN : Dump(kept))
  <2>1. /\ batch.step \in {"dump", "artifact", "cleanup"} /\ batch'.step = batch.step
        /\ batch.item <= DumpKinds /\ batch'.item = batch.item + 1
    BY <1>0, <1>6 DEF SendDump, CleanDir, Dump, Batch
  <2> QED BY <1>0, <2>1 DEF ItemInRange, Items, Steps
<1>7. CASE PullFails \/ (\E result \in {"folder", "short", "failed"} : SendFolder(result))
  <2>1. /\ \/ batch.step \in {"staged", "short"}
           \/ batch.step = "folder" /\ batch.item <= TreeSize
        /\ batch'.step = "folder" /\ batch'.item = batch.item + 1
    BY <1>0, <1>7 DEF PullFails, SendFolder, Sendable, Staged, InFolders, Batch
  <2> QED BY <1>0, <2>1 DEF ItemInRange, Items, Steps
<1>8. CASE \E step \in {"staged", "short"} : Pull(step)
  <2>1. /\ batch.step = "folder" /\ batch.item <= TreeSize
        /\ batch'.step \in {"staged", "short"} /\ batch'.item = batch.item
    BY <1>0, <1>8 DEF Pull, InFolders, Batch
  <2> QED BY <1>0, <2>1 DEF ItemInRange, Items, Steps
<1>9. CASE NextPair
  <2>1. batch.step = "return" /\ batch.item = 0
    BY <1>9 DEF NextPair, ItemInRange, Items
  <2> DEFINE b == Counted(batch, batch.tfailed \/ batch.rc = 1)
  <2>2. b \in Batch /\ b.item = 0
    <3>1. b \in Batch
      BY <1>0, CountedIsTyped
    <3>2. b.item = batch.item
      BY <1>0 DEF Counted, Batch
    <3> QED BY <2>1, <3>1, <3>2
  <2>3. \/ batch' = [b EXCEPT !.step = "end"]
        \/ \E t, r : batch' = [b EXCEPT !.step = "next", !.r = r, !.t = t]
    BY <1>9 DEF NextPair
  <2> HIDE DEF b
  <2>4. batch'.step \in {"next", "end"} /\ batch'.item = 0
    BY <2>2, <2>3 DEF Batch
  <2> QED BY <2>4 DEF ItemInRange, Items, Steps
<1>10. CASE Exit \/ Raise
  <2>1. batch'.step = "over" /\ batch'.item = 0
    BY <1>0, <1>10 DEF Exit, Raise, Batch
  <2> QED BY <2>1 DEF ItemInRange, Items, Steps
<1>11. CASE UNCHANGED batchVars
  BY <1>11 DEF batchVars, ItemInRange
<1> QED BY <1>2, <1>4, <1>5, <1>6, <1>7, <1>8, <1>9, <1>10, <1>11 DEF BatchNext

LEMMA ContainedStep ==
  ASSUME Typed, ItemInRange, Contained, [BatchNext]_batchVars
  PROVE  Contained'
<1> USE DEF Contained
<1>0. /\ Pair \in Pairs /\ TreeSize \in Nat /\ DumpKinds \in Nat
      /\ \A f \in 1..TreeSize :
           <<"folder", f>> \in Tree /\ <<"short", f>> \in Tree /\ Staging(f) \in TempDirs
      /\ \A d \in 1..DumpKinds : <<"dump", d>> \in DumpDirs
      /\ DumpDirs \subseteq TempDirs
  BY PairIsPair, BackupAllAssumption DEF Tree, DumpDirs, TempDirs
<1>1. ASSUME NEW y \in Pairs \X TempDirs, temps' \in Discard(y)
      PROVE  temps' \subseteq Pairs \X TempDirs
  BY <1>1, DiscardKeeps
<1>2. CASE SkipDisabled \/ (\E rc \in {1, 2} : ReturnEarly(rc)) \/ Prepared \/ MakePartialDir
           \/ FoldersDone \/ SendDump \/ NextPair \/ CleanupDone
  BY <1>2 DEF SkipDisabled, ReturnEarly, Prepared, MakePartialDir, FoldersDone, SendDump,
     NextPair, CleanupDone
<1>3. CASE CleanDir
  <2> DEFINE d == <<"dump", batch.item>>
  <2>1. batch.item \in 1..DumpKinds
    BY <1>0, <1>3 DEF CleanDir, ItemInRange, Items
  <2>2. <<Pair, d>> \in Pairs \X TempDirs
    BY <1>0, <2>1
  <2>3. /\ held' = held \ {d} /\ UNCHANGED <<building, made, verdict>>
        /\ temps' = temps \/ temps' \in Discard(<<Pair, d>>)
    BY <1>3 DEF CleanDir
  <2> HIDE DEF d
  <2>4. temps' \subseteq Pairs \X TempDirs
    BY <1>1, <2>2, <2>3
  <2> QED BY <2>3, <2>4
<1>4. ASSUME NEW kept \in BOOLEAN, Dump(kept) PROVE Contained'
  <2> DEFINE d == <<"dump", batch.item>>
  <2>1. batch.item \in 1..DumpKinds
    BY <1>0, <1>4 DEF Dump, ItemInRange, Items
  <2>2. d \in DumpDirs /\ <<Pair, d>> \in Pairs \X TempDirs
    BY <1>0, <2>1
  <2>3. /\ UNCHANGED <<building, made, verdict>>
        /\ \/ temps' = temps \union {<<Pair, d>>} /\ held' = held \union {d}
           \/ temps' \in Discard(<<Pair, d>>) /\ held' = held
    BY <1>4 DEF Dump
  <2> HIDE DEF d
  <2>4. temps' \subseteq Pairs \X TempDirs
    BY <1>1, <2>2, <2>3
  <2> QED BY <2>2, <2>3, <2>4
<1>5. CASE MakePartialDirFails \/ TransferStops
  BY <1>5 DEF MakePartialDirFails, TransferStops, Cleanup
<1>6. CASE PullFails \/ (\E step \in {"staged", "short"} : Pull(step))
  <2> DEFINE y == <<Pair, Staging(batch.item)>>
  <2>1. batch.item \in 1..TreeSize
    BY <1>0, <1>6 DEF PullFails, Pull, InFolders, ItemInRange, Items
  <2>2. y \in Pairs \X TempDirs
    BY <1>0, <2>1
  <2>3. /\ UNCHANGED <<held, building, made, verdict>>
        /\ temps' \in Discard(y) \/ temps' = temps \union {y}
    BY <1>6 DEF PullFails, Pull
  <2> HIDE DEF y
  <2>4. temps' \subseteq Pairs \X TempDirs
    BY <1>1, <2>2, <2>3
  <2> QED BY <2>3, <2>4
<1>7. ASSUME NEW result \in {"folder", "short", "failed"}, SendFolder(result) PROVE Contained'
  <2> DEFINE y == <<Pair, Staging(batch.item)>>
  <2>1. batch.item \in 1..TreeSize
    BY <1>0, <1>7 DEF SendFolder, Sendable, Staged, InFolders, ItemInRange, Items
  <2>2. y \in Pairs \X TempDirs
    BY <1>0, <2>1
  <2>3. building' \subseteq Tree
    BY <1>0, <1>7, <2>1 DEF SendFolder, Sent
  <2>4. /\ UNCHANGED <<held, made, verdict>>
        /\ temps' \in Discard(y) \/ temps' = temps
    BY <1>7 DEF SendFolder
  <2> HIDE DEF y
  <2>5. temps' \subseteq Pairs \X TempDirs
    BY <1>1, <2>2, <2>4
  <2> QED BY <2>3, <2>4, <2>5
<1>9. ASSUME NEW ok \in BOOLEAN, Publish(ok) PROVE Contained'
  BY <1>0, <1>9 DEF Publish, Cleanup
<1>10. CASE Exit
  BY <1>10 DEF Exit, ExitCode, Outcome
<1>11. CASE Raise
  <2>1. Making \subseteq Pairs \X TempDirs
    <3>1. CASE batch.step = "dump" /\ batch.item <= DumpKinds
      <4>1. batch.item \in 1..DumpKinds
        BY <1>0, <3>1 DEF ItemInRange, Items
      <4> QED BY <1>0, <3>1, <4>1 DEF Making, InFolders
    <3>2. CASE InFolders /\ batch.t \in TwoHop
      <4>1. batch.item \in 1..TreeSize
        BY <1>0, <3>2 DEF InFolders, ItemInRange, Items
      <4>2. <<Pair, Staging(batch.item)>> \in Pairs \X TempDirs
        BY <1>0, <4>1
      <4>3. Making = {<<Pair, Staging(batch.item)>>}
        BY <3>2 DEF Making, InFolders
      <4> QED BY <4>2, <4>3
    <3> QED BY <3>1, <3>2 DEF Making
  <2>2. /\ made' = made \/ made' = [made EXCEPT ![Pair] = building]
        /\ temps' = temps \/ temps' = temps \union Making
        /\ held' = {} /\ building' = building /\ verdict' = "failed"
    BY <1>11 DEF Raise
  <2>3. made' \in [Pairs -> SUBSET Tree]
    BY <1>0, <2>2
  <2> QED BY <2>1, <2>2, <2>3
<1>12. CASE UNCHANGED batchVars
  BY <1>12 DEF batchVars
<1> QED
  BY <1>2, <1>3, <1>4, <1>5, <1>6, <1>7, <1>9, <1>10, <1>11, <1>12 DEF BatchNext

LEMMA CountedStep ==
  ASSUME Typed, Typed', CountedSoFar, [BatchNext]_batchVars
  PROVE  CountedSoFar'
<1>1. CASE PairStep
  <2>1. SameLoop
    BY <1>1, PairIsTyped
  <2>2. batch.step \in Looping /\ batch'.step \in Looping
    BY <2>1 DEF SameLoop, Looping
  <2> QED BY <2>1, <2>2 DEF SameLoop, CountedSoFar
<1>2. CASE NextPair
  <2> DEFINE tf == batch.tfailed \/ batch.rc = 1
             b == Counted(batch, tf)
             last == batch.mode = "single" \/ Pair = <<NumTargets, NumRemotes>>
  <2> PICK t, r : t = batch.t /\ r = batch.r
    OBVIOUS
  <2> DEFINE nr == IF r < NumRemotes THEN r + 1 ELSE 1
             nt == IF r = NumRemotes THEN t + 1 ELSE t
  <2>1. /\ batch \in Batch /\ t \in 1..NumTargets /\ r \in 1..NumRemotes /\ tf \in BOOLEAN
        /\ NumTargets \in Nat /\ NumRemotes \in Nat /\ NumRemotes >= 1 /\ NumTargets >= 1
        /\ batch.t = t /\ batch.r = r /\ batch.step = "return"
        /\ batch.nsucc \in Nat /\ batch.nfail \in Nat
    BY <1>2, BackupAllAssumption DEF NextPair, Typed, Batch
  <2>2. b \in Batch /\ b.mode = batch.mode /\ b.t = t /\ b.r = r
    BY <2>1, CountedIsTyped
  <2>3. batch' = IF last THEN [b EXCEPT !.step = "end"]
                 ELSE [b EXCEPT !.step = "next", !.r = nr, !.t = nt]
    <3>1. batch' = IF last THEN [b EXCEPT !.step = "end"]
                   ELSE [b EXCEPT !.step = "next",
                                  !.r = IF @ < NumRemotes THEN @ + 1 ELSE 1,
                                  !.t = IF batch.r = NumRemotes THEN @ + 1 ELSE @]
      BY <1>2 DEF NextPair
    <3> HIDE DEF b, last
    <3> QED BY <2>1, <2>2, <3>1 DEF Batch
  <2>4. /\ batch'.mode = batch.mode
        /\ batch'.nsucc = b.nsucc /\ batch'.nfail = b.nfail
        /\ last => batch'.step = "end" /\ batch'.t = t /\ batch'.r = r
        /\ ~last => batch'.step = "next" /\ batch'.t = nt /\ batch'.r = nr
    <3> HIDE DEF b, last, nr, nt
    <3> QED BY <2>2, <2>3 DEF Batch
  <2>5. /\ batch.mode # "all" => b.nsucc = batch.nsucc /\ b.nfail <= batch.nfail + 1
        /\ batch.mode = "all" /\ r < NumRemotes =>
             b.nsucc + b.nfail = batch.nsucc + batch.nfail
        /\ batch.mode = "all" /\ r = NumRemotes =>
             b.nsucc + b.nfail <= batch.nsucc + batch.nfail + 1
    <3>1. batch.mode # "all" => b.nsucc = batch.nsucc
      BY <2>1 DEF Counted, Batch
    <3>2. batch.mode # "all" => b.nfail <= batch.nfail + 1
      <4>1. batch.mode # "all" => b.nfail = batch.nfail + (IF batch.rc = 1 THEN 1 ELSE 0)
        BY <2>1, CountedCases
      <4> HIDE DEF b
      <4> QED BY <2>1, <4>1
    <3>3. batch.mode = "all" /\ r < NumRemotes => b.nfail = batch.nfail /\ b.nsucc = batch.nsucc
      BY <2>1, CountedCases
    <3>4. batch.mode = "all" /\ r = NumRemotes /\ t \in Disabled => b = batch
      BY <2>1, CountedCases
    <3>5. batch.mode = "all" /\ r = NumRemotes /\ t \notin Disabled =>
            /\ b.nfail = batch.nfail + (IF tf THEN 1 ELSE 0)
            /\ b.nsucc = batch.nsucc + (IF tf THEN 0 ELSE 1)
      BY <2>1, CountedCases
    <3> HIDE DEF b, tf
    <3> QED BY <2>1, <3>1, <3>2, <3>3, <3>4, <3>5
  <2>6. batch'.step \in {"next", "end"} /\ (batch'.step = "next" <=> ~last)
    BY <2>4
  <2>7. CASE batch.mode = "all"
    <3>1. batch.nsucc + batch.nfail <= t - 1
      BY <2>1, <2>7 DEF CountedSoFar, Looping
    <3>2. last => r = NumRemotes
      BY <2>1, <2>7 DEF Pair
    <3> HIDE DEF b, last
    <3>3. batch'.nsucc + batch'.nfail <= IF last THEN batch'.t ELSE batch'.t - 1
      BY <2>1, <2>2, <2>4, <2>5, <2>7, <3>1, <3>2 DEF Batch
    <3> QED BY <2>4, <2>6, <2>7, <3>3 DEF CountedSoFar, Looping, Working
  <2>8. CASE batch.mode # "all"
    <3>1. batch.nsucc = 0 /\ batch.nfail <= (t - 1) * NumRemotes + (r - 1)
      BY <2>1, <2>8 DEF CountedSoFar, Looping
    <3>2. (t - 1) * NumRemotes \in Nat /\ (t - 1) * NumRemotes + NumRemotes = t * NumRemotes
      BY <2>1, RankOfPair
    <3>3. (t + 1) - 1 = t
      BY <2>1
    <3>4. CASE last
      <4> HIDE DEF b, last
      <4>1. batch'.nfail <= (t - 1) * NumRemotes + r
        BY <2>1, <2>2, <2>4, <2>5, <2>8, <3>1, <3>2 DEF Batch
      <4> QED BY <2>4, <2>5, <2>8, <3>1, <3>4, <4>1 DEF CountedSoFar, Looping, Working
    <3>5. CASE ~last
      <4> HIDE DEF b, last
      <4>1. batch'.nfail <= (nt - 1) * NumRemotes + (nr - 1)
        <5>1. CASE r < NumRemotes
          <6>1. nt = t /\ nr - 1 = r
            BY <2>1, <5>1
          <6> HIDE DEF nt, nr
          <6> QED BY <2>1, <2>2, <2>4, <2>5, <2>8, <3>1, <3>2, <6>1 DEF Batch
        <5>2. CASE r = NumRemotes
          <6>1. nt - 1 = t /\ nr - 1 = 0
            BY <2>1, <5>2
          <6> HIDE DEF nt, nr
          <6> QED BY <2>1, <2>2, <2>4, <2>5, <2>8, <3>1, <3>2, <5>2, <6>1 DEF Batch
        <5>3. r < NumRemotes \/ r = NumRemotes
          BY <2>1
        <5> HIDE DEF nt, nr
        <5> QED BY <5>1, <5>2, <5>3
      <4> HIDE DEF nt, nr
      <4> QED BY <2>4, <2>5, <2>8, <3>1, <3>5, <4>1 DEF CountedSoFar, Looping, Working
    <3> QED BY <3>4, <3>5
  <2> QED BY <2>7, <2>8
<1>3. CASE Exit \/ Raise
  <2>1. /\ batch'.step = "over" /\ batch'.mode = batch.mode /\ batch'.t = batch.t
        /\ batch'.r = batch.r /\ batch'.nsucc = batch.nsucc /\ batch'.nfail = batch.nfail
        /\ batch.t \in Nat /\ batch.r \in 1..NumRemotes
        /\ batch.nsucc \in Nat /\ batch.nfail \in Nat
    <3>1. batch' = At("over", 0) /\ batch \in Batch
      BY <1>3 DEF Exit, Raise, Typed
    <3> QED BY <3>1 DEF At, Batch
  <2>2. (batch.t - 1) * NumRemotes \in Nat
    BY RankOfPair DEF Typed, Batch
  <2>3. "over" \notin Looping
    BY DEF Looping, Working
  <2> QED BY <2>1, <2>2, <2>3, BackupAllAssumption DEF CountedSoFar
<1>4. CASE UNCHANGED batchVars
  BY <1>4 DEF batchVars, CountedSoFar
<1> QED BY <1>1, <1>2, <1>3, <1>4 DEF BatchNext, PairStep

LEMMA BoundsInit == BatchInit => BoundsInv
<1> SUFFICES ASSUME BatchInit PROVE BoundsInv
  OBVIOUS
<1>1. Typed
  BY TypedInit
<1>2. /\ batch.step = "next" /\ batch.t = 1 /\ batch.r = 1 /\ batch.item = 0
      /\ batch.nsucc = 0 /\ batch.nfail = 0
      /\ temps = {} /\ held = {} /\ building = {} /\ verdict = "none"
      /\ made = [p \in Pairs |-> {}]
  BY DEF BatchInit
<1>3. ItemInRange
  BY <1>2 DEF ItemInRange, Items, Steps
<1>4. Contained
  BY <1>2 DEF Contained
<1>5. (1 - 1) * NumRemotes \in Nat
  BY RankOfPair, BackupAllAssumption
<1>6. CountedSoFar
  BY <1>2, <1>5 DEF CountedSoFar, Looping
<1> QED BY <1>1, <1>3, <1>4, <1>6 DEF BoundsInv

\* Type correctness of the process; its counters count no pair twice, and no target.
THEOREM BatchTypeCorrect == BatchSpec => []BatchTypeOK
<1>1. BoundsInv /\ [BatchNext]_batchVars => BoundsInv'
  BY TypedStep, ItemStep, ContainedStep, CountedStep DEF BoundsInv
<1>2. BoundsInv => BatchTypeOK
  <2> SUFFICES ASSUME BoundsInv PROVE BatchTypeOK
    OBVIOUS
  <2>1. /\ batch \in Batch /\ batch.t \in 1..NumTargets /\ batch.r \in 1..NumRemotes
        /\ batch.nsucc \in Nat /\ batch.nfail \in Nat
        /\ NumTargets \in Nat /\ NumRemotes \in Nat /\ TreeSize \in Nat /\ TreeSize >= 1
        /\ DumpKinds \in Nat
    BY BackupAllAssumption DEF BoundsInv, Typed, Batch
  <2>2. batch.item \in 0..(TreeSize + DumpKinds + 1)
    BY <2>1 DEF BoundsInv, ItemInRange, Items
  <2>3. /\ (batch.t - 1) * NumRemotes \in Nat
        /\ (batch.t - 1) * NumRemotes + NumRemotes = batch.t * NumRemotes
        /\ batch.t * NumRemotes <= NumTargets * NumRemotes
        /\ NumTargets <= NumTargets * NumRemotes
    BY <2>1, RankOfPair
  <2>4. NumTargets * NumRemotes \in Nat
    BY <2>1
  <2>5. batch.nsucc \in 0..NumTargets /\ batch.nfail \in 0..(NumTargets * NumRemotes)
    <3>1. CASE batch.mode = "all"
      <4>1. batch.nsucc + batch.nfail <= batch.t
        BY <2>1, <3>1 DEF BoundsInv, CountedSoFar
      <4> QED BY <2>1, <2>3, <2>4, <4>1
    <3>2. CASE batch.mode # "all"
      <4>1. batch.nsucc = 0 /\ batch.nfail <= (batch.t - 1) * NumRemotes + batch.r
        BY <2>1, <2>3, <3>2 DEF BoundsInv, CountedSoFar
      <4> QED BY <2>1, <2>3, <2>4, <4>1
    <3> QED BY <3>1, <3>2
  <2>6. batch \in [mode : Modes, t : 1..NumTargets, r : 1..NumRemotes,
                   step : {"next", "dump", "folder", "staged", "short", "artifact", "cleanup",
                           "return", "end", "over"},
                   item : 0..(TreeSize + DumpKinds + 1), failed : BOOLEAN, tfailed : BOOLEAN,
                   nsucc : 0..NumTargets, nfail : 0..(NumTargets * NumRemotes), rc : 0..2]
    BY <2>1, <2>2, <2>5 DEF Batch, Steps
  <2> QED BY <2>6 DEF BatchTypeOK, BoundsInv, Typed, Contained
<1> QED BY <1>1, <1>2, BoundsInit, PTL DEF BatchSpec
================================================================================
