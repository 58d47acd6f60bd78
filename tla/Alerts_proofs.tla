------------------------------ MODULE Alerts_proofs ------------------------------
(***************************************************************************)
(* What the daemon tells, for every number of days, slots, jobs and        *)
(* restarts; and, in the second part, the wizard for remotes, for every    *)
(* set of remotes and consents.                                            *)
(*                                                                         *)
(* Between a decision and its record the daemon can be killed, or the      *)
(* write can fail.  That the end of a job is told once needs the order of  *)
(* check_jobs: the verdict is saved first, so each verdict told, waiting   *)
(* in the outbox or still to come is the first, or follows an entry that   *)
(* stayed or became running (EndsAreTold).  For digests and alerts the     *)
(* order is the other one: a digest sent is recorded, or about to be       *)
(* recorded, or its record is counted as missing (SentIsRecorded), and the *)
(* state file has the last alert if that was kept (AlertIsRecorded).       *)
(*                                                                         *)
(* That a token never ends up under another remote needs no bound on the   *)
(* tabs: it goes where the page of its consent said.  That a question is   *)
(* put for the remote it is about needs OneTab: then the only consent the  *)
(* user can poll is the one the wizard in the session asked for (PageIsOwn).*)
(***************************************************************************)
EXTENDS Alerts, RcloneWizard, Integers, TLAPS

--------------------------------------------------------------------------------
(* Facts about the calendar. *)

\* Days do not go back.
LEMMA DayGrows ==
  ASSUME NEW s \in Nat \ {0}, NEW a \in Nat
  PROVE  a \div s <= (a + 1) \div s
<1> DEFINE p == a \div s
           q == (a + 1) \div s
           r == a % s
           t == (a + 1) % s
<1>1. p \in Int /\ q \in Int /\ r \in Int /\ t \in Int
  OBVIOUS
<1>2. a = s * p + r /\ 0 <= r /\ r < s
  OBVIOUS
<1>3. a + 1 = s * q + t /\ 0 <= t /\ t < s
  OBVIOUS
<1>4. ASSUME q + 1 <= p PROVE FALSE
  <2> HIDE DEF p, q, r, t
  <2>1. s * (q + 1) <= s * p
    BY <1>1, <1>4, SMT
  <2>2. s * (q + 1) = s * q + s
    BY <1>1
  <2> QED BY <1>1, <1>2, <1>3, <2>1, <2>2
<1> QED BY <1>1, <1>4

\* Every slot falls on a day.
LEMMA DayOfSlot ==
  ASSUME NEW s \in Nat \ {0}, NEW d \in Nat \ {0}, NEW a \in 0..(s * d - 1)
  PROVE  a \div s \in 0..(d - 1)
<1> DEFINE p == a \div s
           r == a % s
<1>0. s * d \in Nat
  OBVIOUS
<1>1. p \in Int /\ r \in Int
  OBVIOUS
<1>2. a = s * p + r /\ 0 <= r /\ r < s
  OBVIOUS
<1>3. ASSUME p <= -1 PROVE FALSE
  <2> HIDE DEF p, r
  <2>1. s * p <= s * (-1)
    BY <1>1, <1>3
  <2> QED BY <1>0, <1>1, <1>2, <2>1
<1>4. ASSUME d <= p PROVE FALSE
  <2> HIDE DEF p, r
  <2>1. s * d <= s * p
    BY <1>1, <1>4
  <2> QED BY <1>0, <1>1, <1>2, <2>1
<1> QED BY <1>1, <1>3, <1>4

LEMMA EndIsNat == End \in Nat
<1>1. Slots * Days \in Nat /\ Slots * Days # 0
  BY AlertsAssumption
<1> QED BY <1>1 DEF End

LEMMA TodayIsDay ==
  ASSUME now \in 0..End
  PROVE  Today \in 0..(Days - 1)
BY DayOfSlot, AlertsAssumption DEF Today, End

--------------------------------------------------------------------------------
(* The invariant. *)

\* A verdict on j waits in the outbox; another will be reached, here or elsewhere.
Waits(j) == IF outbox[j] = "none" THEN 0 ELSE 1
Comes(j) == IF exits[j] \in Verdicts THEN 0 ELSE 1

\* All verdicts on a job, told or not, but one come from entries that stayed or became
\* running after the end.
EndsAreTold == \A j \in Watched : told[j] + Waits(j) + Comes(j) <= 1 + again[j]

\* A digest sent today is recorded, or is being recorded, or its record is missing;
\* later days have none.
SentIsRecorded ==
  \A d \in 0..(Days - 1) :
    /\ digests[d] <= 1 + lost[d]
    /\ d = Today => \/ digests[d] <= lost[d]
                    \/ lastSent = d /\ loop.step # "record"
                    \/ loop.step = "record"
    /\ d > Today => digests[d] = 0

\* The state file has the last alert, if that was kept, and it is in the past.
AlertIsRecorded ==
  /\ alerts[2].kept => lastAlert = alerts[2].at /\ alerts[2].at <= now
  /\ loop.step = "mark" => alerts[2].at = now /\ ~alerts[2].kept
  /\ alerts[1].kept => alerts[2].at - alerts[1].at >= StaleAfter

AlertsInv == AlertsTypeOK /\ EndsAreTold /\ SentIsRecorded /\ AlertIsRecorded

LEMMA AlertsInvInit == AlertsInit => AlertsInv
<1> SUFFICES ASSUME AlertsInit PROVE AlertsInv
  OBVIOUS
<1>1. AlertsTypeOK
  <2>1. Never \in Nat /\ NoAlert \in [at : 0..Never, kept : BOOLEAN]
    BY EndIsNat DEF Never, NoAlert
  <2>2. alerts \in [at : 0..Never, kept : BOOLEAN] \X [at : 0..Never, kept : BOOLEAN]
    BY <2>1 DEF AlertsInit
  <2>3. now \in 0..End /\ lastAlert \in 0..Never
    BY <2>1, EndIsNat DEF AlertsInit
  <2>4. /\ loop \in [step : {"sleep"}, beat : 0..(CareEvery + RetainMost)]
        /\ exits \in [Watched -> {"running"}] /\ outbox \in [Watched -> {"none"}]
        /\ told \in [Watched -> Nat] /\ again \in [Watched -> Nat]
    BY AlertsAssumption DEF AlertsInit
  <2>5. /\ lastSent \in 0..Days
        /\ digests \in [0..(Days - 1) -> Nat] /\ lost \in [0..(Days - 1) -> Nat]
        /\ restarts \in 0..MaxRestarts /\ faults \in 0..MaxFaults
    BY AlertsAssumption DEF AlertsInit
  <2> QED BY <2>2, <2>3, <2>4, <2>5 DEF AlertsTypeOK
<1>2. EndsAreTold
  <2> SUFFICES ASSUME NEW j \in Watched PROVE told[j] + Waits(j) + Comes(j) <= 1 + again[j]
    BY DEF EndsAreTold
  <2>1. told[j] = 0 /\ again[j] = 0 /\ outbox[j] = "none"
    BY DEF AlertsInit
  <2> QED BY <2>1 DEF Waits, Comes
<1>3. SentIsRecorded
  BY DEF AlertsInit, SentIsRecorded
<1>4. AlertIsRecorded
  BY DEF AlertsInit, AlertIsRecorded, NoAlert
<1> QED BY <1>1, <1>2, <1>3, <1>4 DEF AlertsInv

\* The steps that leave the clock, the digests and the alerts alone: what ends, what
\* the daemon finds and tells.
LEMMA JobStep ==
  ASSUME AlertsInv,
         \/ \E j \in Watched :
              \/ \E code \in {"zero", "nonzero"} : JobEnds(j, code) \/ OtherReopens(j, code)
              \/ OtherFinishes(j)
              \/ Notify(j)
         \/ CheckJobs
  PROVE  AlertsInv'
<1> USE DEF AlertsInv
<1>0. ASSUME UNCHANGED <<now, digestVars, alertVars>>, loop'.step = loop.step
      PROVE  SentIsRecorded' /\ AlertIsRecorded'
  BY <1>0 DEF SentIsRecorded, AlertIsRecorded, digestVars, alertVars, Today
<1>1. ASSUME NEW j \in Watched, NEW code \in {"zero", "nonzero"}, JobEnds(j, code) PROVE AlertsInv'
  <2>1. AlertsTypeOK'
    BY <1>1 DEF JobEnds, AlertsTypeOK, digestVars, alertVars
  <2>2. EndsAreTold'
    BY <1>1 DEF JobEnds, AlertsTypeOK, EndsAreTold, Waits, Comes, Verdicts
  <2> QED BY <1>0, <1>1, <2>1, <2>2 DEF JobEnds
<1>2. ASSUME NEW j \in Watched, NEW code \in {"zero", "nonzero"}, OtherReopens(j, code)
      PROVE AlertsInv'
  <2>1. AlertsTypeOK'
    BY <1>2, AlertsAssumption DEF OtherReopens, Fails, AlertsTypeOK, digestVars, alertVars
  <2>2. EndsAreTold'
    BY <1>2 DEF OtherReopens, AlertsTypeOK, EndsAreTold, Waits, Comes, Verdicts
  <2> QED BY <1>0, <1>2, <2>1, <2>2 DEF OtherReopens
<1>3. ASSUME NEW j \in Watched, OtherFinishes(j) PROVE AlertsInv'
  <2>1. AlertsTypeOK'
    BY <1>3 DEF OtherFinishes, AlertsTypeOK, digestVars, alertVars
  <2>2. EndsAreTold'
    BY <1>3 DEF OtherFinishes, AlertsTypeOK, EndsAreTold, Waits, Comes, Verdicts
  <2> QED BY <1>0, <1>3, <2>1, <2>2 DEF OtherFinishes
<1>4. ASSUME NEW j \in Watched, Notify(j) PROVE AlertsInv'
  <2>1. AlertsTypeOK'
    BY <1>4 DEF Notify, AlertsTypeOK, digestVars, alertVars
  <2>2. EndsAreTold'
    BY <1>4 DEF Notify, AlertsTypeOK, EndsAreTold, Waits, Comes
  <2> QED BY <1>0, <1>4, <2>1, <2>2 DEF Notify
<1>5. CASE CheckJobs
  <2>0. loop'.step = "notify" /\ loop.step = "sleep"
        /\ loop' \in [step : {"notify"}, beat : 0..(CareEvery + RetainMost)]
    BY <1>5 DEF CheckJobs, Go, AlertsTypeOK
  <2>1. /\ UNCHANGED <<now, told, digestVars, alertVars, restarts>>
        /\ outbox' = [j \in Watched |-> IF j \in Dead THEN Verdict(j) ELSE "none"]
        /\ \/ /\ exits' = [j \in Watched |-> IF j \in Dead THEN Verdict(j) ELSE exits[j]]
              /\ again' = again /\ faults' = faults
           \/ /\ again' = [j \in Watched |-> IF j \in Dead THEN again[j] + 1 ELSE again[j]]
              /\ exits' = exits /\ faults' \in 0..MaxFaults
    BY <1>5, AlertsAssumption DEF CheckJobs, Fails, AlertsTypeOK
  <2>2. \A j \in Watched : Verdict(j) \in Verdicts
    BY DEF Verdict, Verdicts
  <2>3. AlertsTypeOK'
    <3>1. again' \in [Watched -> Nat]
      <4>1. \A j \in Watched : again[j] \in Nat /\ again[j] + 1 \in Nat
        <5>1. again \in [Watched -> Nat]
          BY DEF AlertsTypeOK
        <5> TAKE j \in Watched
        <5>2. again[j] \in Nat
          BY <5>1
        <5> QED BY <5>2
      <4>2. CASE again' = again
        BY <4>2 DEF AlertsTypeOK
      <4>3. CASE again' = [j \in Watched |-> IF j \in Dead THEN again[j] + 1 ELSE again[j]]
        BY <4>1, <4>3
      <4> QED BY <2>1, <4>2, <4>3
    <3>2. /\ exits' \in [Watched -> {"running", "zero", "nonzero", "other"} \union Verdicts]
          /\ outbox' \in [Watched -> {"none"} \union Verdicts]
      <4>1. \A j \in Watched : exits[j] \in {"running", "zero", "nonzero", "other"} \union Verdicts
        BY DEF AlertsTypeOK
      <4>2. outbox' \in [Watched -> {"none"} \union Verdicts]
        BY <2>1, <2>2
      <4>3. CASE exits' = exits
        BY <4>2, <4>3 DEF AlertsTypeOK
      <4>4. CASE exits' = [j \in Watched |-> IF j \in Dead THEN Verdict(j) ELSE exits[j]]
        BY <2>2, <4>1, <4>2, <4>4
      <4> QED BY <2>1, <4>3, <4>4
    <3>3. faults' \in 0..MaxFaults
      BY <2>1 DEF AlertsTypeOK
    <3> QED BY <2>0, <2>1, <3>1, <3>2, <3>3 DEF AlertsTypeOK, digestVars, alertVars
  <2>4. EndsAreTold'
    <3> SUFFICES ASSUME NEW j \in Watched
                 PROVE  told'[j] + Waits(j)' + Comes(j)' <= 1 + again'[j]
      BY DEF EndsAreTold
    <3>1. /\ told[j] \in Nat /\ again[j] \in Nat /\ told'[j] = told[j]
          /\ told[j] + Waits(j) + Comes(j) <= 1 + again[j]
      BY <2>1 DEF EndsAreTold, AlertsTypeOK
    <3>2. CASE j \notin Dead
      <4>1. outbox'[j] = "none" /\ exits'[j] = exits[j] /\ again'[j] = again[j]
        BY <2>1, <3>2 DEF AlertsTypeOK
      <4> QED BY <3>1, <4>1 DEF Waits, Comes
    <3>3. CASE j \in Dead
      <4>1. exits[j] \notin Verdicts /\ outbox'[j] = Verdict(j) /\ Verdict(j) # "none"
        BY <2>1, <3>3 DEF Dead, Verdicts, Verdict
      <4>2. \/ exits'[j] \in Verdicts /\ again'[j] = again[j]
            \/ exits'[j] = exits[j] /\ again'[j] = again[j] + 1
        BY <2>1, <2>2, <3>3
      <4> QED BY <3>1, <4>1, <4>2 DEF Waits, Comes
    <3> QED BY <3>2, <3>3
  <2> QED
    BY <2>0, <2>1, <2>3, <2>4
    DEF SentIsRecorded, AlertIsRecorded, digestVars, alertVars, Today
<1> QED BY <1>1, <1>2, <1>3, <1>4, <1>5

\* The rest of the loop, while the clock stands still.
LEMMA LoopStep ==
  ASSUME AlertsInv, CycleEnds \/ RetentionEnds \/ NoStaleAlert \/ NoDigest
  PROVE  AlertsInv'
<1> USE DEF AlertsInv
<1>1. loop' \in [step : {"sleep", "retain", "stale", "digest"}, beat : 0..(CareEvery + RetainMost)]
      /\ loop.step \in {"notify", "retain", "stale", "digest"}
  <2>1. loop \in [step : {"sleep", "notify", "retain", "stale", "mark", "digest", "record"},
                  beat : 0..(CareEvery + RetainMost)] /\ 0 \in 0..(CareEvery + RetainMost)
    BY AlertsAssumption DEF AlertsTypeOK
  <2>2. CASE CycleEnds
    BY <2>1, <2>2 DEF CycleEnds
  <2>3. CASE RetentionEnds
    BY <2>1, <2>3 DEF RetentionEnds, Go
  <2>4. CASE NoDigest
    BY <2>1, <2>4 DEF NoDigest, Go
  <2>5. CASE NoStaleAlert
    BY <2>1, <2>5 DEF NoStaleAlert, Go
  <2> QED BY <2>2, <2>3, <2>4, <2>5
<1>2. UNCHANGED <<now, jobVars, digestVars, alertVars, restarts, faults>>
  BY DEF CycleEnds, RetentionEnds, NoDigest, NoStaleAlert
<1>3. AlertsTypeOK'
  BY <1>1, <1>2 DEF AlertsTypeOK, jobVars, digestVars, alertVars
<1>4. EndsAreTold'
  BY <1>2 DEF EndsAreTold, jobVars, Waits, Comes
<1> QED
  BY <1>1, <1>2, <1>3, <1>4 DEF SentIsRecorded, AlertIsRecorded, digestVars, alertVars, Today

\* An alert is sent after the cooldown, or because the state file cannot be read.
LEMMA AlertSent ==
  ASSUME AlertsInv, SendAlert
  PROVE  AlertsInv'
<1> USE DEF AlertsInv
<1>1. /\ loop.step = "stale" /\ loop'.step = "mark"
      /\ loop' \in [step : {"mark"}, beat : 0..(CareEvery + RetainMost)]
      /\ UNCHANGED <<now, jobVars, digestVars, lastAlert, restarts>>
  BY DEF SendAlert, Go, AlertsTypeOK
<1>2. /\ now \in 0..Never /\ now \in Nat
      /\ alerts[1] \in [at : 0..Never, kept : BOOLEAN]
      /\ alerts[2] \in [at : 0..Never, kept : BOOLEAN]
      /\ Never \in Nat /\ StaleAfter \in Nat
  BY EndIsNat, AlertsAssumption DEF AlertsTypeOK, Never
<1>3. /\ alerts'[2] = [at |-> now, kept |-> FALSE]
      /\ alerts' \in [at : 0..Never, kept : BOOLEAN] \X [at : 0..Never, kept : BOOLEAN]
      /\ faults' \in 0..MaxFaults
      /\ alerts'[1].at = alerts[2].at
      /\ alerts'[1].kept => alerts[2].kept /\ ~Cooling
  <2>1. CASE ~Cooling /\ alerts' = <<alerts[2], [at |-> now, kept |-> FALSE]>> /\ UNCHANGED faults
    BY <1>2, <2>1 DEF AlertsTypeOK
  <2>2. CASE /\ Fails
             /\ alerts' = <<[alerts[2] EXCEPT !.kept = FALSE], [at |-> now, kept |-> FALSE]>>
    <3> DEFINE old == [alerts[2] EXCEPT !.kept = FALSE]
    <3>1. /\ old \in [at : 0..Never, kept : BOOLEAN]
          /\ old.at = alerts[2].at /\ old.kept = FALSE
      BY <1>2
    <3>2. alerts' = <<old, [at |-> now, kept |-> FALSE]>>
      BY <2>2
    <3>3. faults' \in 0..MaxFaults
      <4>1. faults < MaxFaults /\ faults' = faults + 1
        BY <2>2 DEF Fails
      <4>2. faults \in 0..MaxFaults /\ MaxFaults \in Nat
        BY AlertsAssumption DEF AlertsTypeOK
      <4> QED BY <4>1, <4>2
    <3> HIDE DEF old
    <3> QED BY <1>2, <3>1, <3>2, <3>3
  <2> QED BY <2>1, <2>2 DEF SendAlert
<1>4. AlertIsRecorded'
  <2>1. alerts'[1].kept => now - alerts[2].at >= StaleAfter
    <3>1. SUFFICES ASSUME alerts[2].kept, ~Cooling PROVE now - alerts[2].at >= StaleAfter
      BY <1>3
    <3>2. lastAlert = alerts[2].at /\ alerts[2].at <= now
      BY <3>1 DEF AlertIsRecorded
    <3>3. now # Never /\ now <= End
      BY EndIsNat DEF AlertsTypeOK, Never
    <3>4. lastAlert # Never
      BY <1>2, <3>2, <3>3, EndIsNat DEF Never
    <3> QED BY <1>2, <3>1, <3>2, <3>4 DEF Cooling
  <2> QED BY <1>1, <1>3, <2>1 DEF AlertIsRecorded
<1>5. AlertsTypeOK'
  BY <1>1, <1>3 DEF AlertsTypeOK, jobVars, digestVars
<1> QED
  BY <1>1, <1>4, <1>5 DEF EndsAreTold, Waits, Comes, SentIsRecorded, Today, jobVars, digestVars

\* It is recorded then, or not.
LEMMA AlertRecorded ==
  ASSUME AlertsInv, RecordAlert
  PROVE  AlertsInv'
<1> USE DEF AlertsInv
<1>1. /\ loop.step = "mark" /\ loop'.step = "digest"
      /\ loop' \in [step : {"digest"}, beat : 0..(CareEvery + RetainMost)]
      /\ UNCHANGED <<now, jobVars, digestVars, restarts>>
  BY DEF RecordAlert, Go, AlertsTypeOK
<1>2. now \in 0..Never /\ now \in Nat /\ Never \in 0..Never /\ alerts[2].at = now
      /\ ~alerts[2].kept
  BY <1>1, EndIsNat DEF AlertsTypeOK, Never, AlertIsRecorded
<1>3. /\ lastAlert' \in 0..Never /\ faults' \in 0..MaxFaults
      /\ alerts' \in [at : 0..Never, kept : BOOLEAN] \X [at : 0..Never, kept : BOOLEAN]
      /\ alerts'[1] = alerts[1] /\ alerts'[2].at = alerts[2].at
      /\ alerts'[2].kept => lastAlert' = now
  <2>1. CASE lastAlert' = now /\ alerts' = <<alerts[1], [alerts[2] EXCEPT !.kept = TRUE]>> /\ UNCHANGED faults
    <3> DEFINE new == [alerts[2] EXCEPT !.kept = TRUE]
    <3>1. /\ new \in [at : 0..Never, kept : BOOLEAN] /\ new.at = alerts[2].at
          /\ alerts[1] \in [at : 0..Never, kept : BOOLEAN]
      BY DEF AlertsTypeOK
    <3>2. alerts' = <<alerts[1], new>> /\ lastAlert' = now
      BY <2>1
    <3>3. faults' \in 0..MaxFaults
      BY <2>1 DEF AlertsTypeOK
    <3> HIDE DEF new
    <3> QED BY <1>2, <3>1, <3>2, <3>3
  <2>2. CASE Fails /\ lastAlert' \in {lastAlert, Never} /\ UNCHANGED alerts
    BY <1>2, <2>2, AlertsAssumption DEF Fails, AlertsTypeOK
  <2> QED BY <2>1, <2>2 DEF RecordAlert
<1>4. AlertsTypeOK'
  BY <1>1, <1>3 DEF AlertsTypeOK, jobVars, digestVars
<1>5. AlertIsRecorded'
  BY <1>1, <1>2, <1>3 DEF AlertIsRecorded
<1> QED
  BY <1>1, <1>4, <1>5 DEF EndsAreTold, Waits, Comes, SentIsRecorded, Today, jobVars, digestVars

\* A digest that is due is the first of its day whose record is not missing.
LEMMA DigestStep ==
  ASSUME AlertsInv, SendDigest \/ RecordDigest
  PROVE  AlertsInv'
<1> USE DEF AlertsInv
<1>1. Today \in 0..(Days - 1)
  BY TodayIsDay DEF AlertsTypeOK
<1>2. UNCHANGED <<now, jobVars, alertVars, restarts>>
  BY DEF SendDigest, RecordDigest
<1>3. Today' = Today
  BY <1>2 DEF Today
<1>4. digests[Today] \in Nat /\ lost[Today] \in Nat
  BY <1>1 DEF AlertsTypeOK
<1>5. CASE SendDigest
  <2>1. /\ loop.step = "digest" /\ loop'.step = "record"
        /\ loop' \in [step : {"record"}, beat : 0..(CareEvery + RetainMost)]
    BY <1>5 DEF SendDigest, Go, AlertsTypeOK
  <2>2. /\ lastSent' = lastSent
        /\ digests' = [digests EXCEPT ![Today] = @ + 1]
        /\ faults' \in 0..MaxFaults
        /\ \/ lastSent # Today /\ lost' = lost
           \/ lost' = [lost EXCEPT ![Today] = @ + 1]
    BY <1>5, AlertsAssumption DEF SendDigest, Due, Fails, AlertsTypeOK
  <2>3. AlertsTypeOK'
    <3>1. digests' \in [0..(Days - 1) -> Nat]
      BY <1>1, <1>4, <2>2 DEF AlertsTypeOK
    <3>2. lost' \in [0..(Days - 1) -> Nat]
      <4>1. CASE lost' = lost
        BY <4>1 DEF AlertsTypeOK
      <4>2. CASE lost' = [lost EXCEPT ![Today] = @ + 1]
        BY <1>1, <1>4, <4>2 DEF AlertsTypeOK
      <4> QED BY <2>2, <4>1, <4>2
    <3> QED BY <1>2, <2>1, <2>2, <3>1, <3>2 DEF AlertsTypeOK, jobVars, alertVars
  <2>4. digests[Today] <= 1 + lost[Today] /\ (lastSent # Today => digests[Today] <= lost[Today])
    BY <1>1, <2>1 DEF SentIsRecorded
  <2>5. SentIsRecorded'
    <3> SUFFICES ASSUME NEW d \in 0..(Days - 1)
                 PROVE  digests'[d] <= 1 + lost'[d] /\ (d > Today => digests'[d] = 0)
      BY <1>3, <2>1 DEF SentIsRecorded
    <3>1. CASE d = Today
      <4>1. digests'[Today] = digests[Today] + 1
        BY <1>1, <2>2 DEF AlertsTypeOK
      <4>2. lost'[Today] = lost[Today] + 1 \/ (lost'[Today] = lost[Today] /\ lastSent # Today)
        BY <1>1, <2>2 DEF AlertsTypeOK
      <4> QED BY <1>1, <1>4, <2>4, <3>1, <4>1, <4>2
    <3>2. CASE d # Today
      BY <1>1, <2>2, <3>2 DEF AlertsTypeOK, SentIsRecorded
    <3> QED BY <3>1, <3>2
  <2> QED
    BY <1>2, <2>1, <2>3, <2>5
    DEF EndsAreTold, Waits, Comes, AlertIsRecorded, jobVars, alertVars
<1>6. CASE RecordDigest
  <2>1. /\ loop.step = "record" /\ loop'.step = "sleep"
        /\ loop' \in [step : {"sleep"}, beat : 0..(CareEvery + RetainMost)]
    BY <1>6 DEF RecordDigest, Go, AlertsTypeOK
  <2>2. /\ digests' = digests
        /\ lastSent' \in 0..Days
        /\ faults' \in 0..MaxFaults
        /\ \/ lastSent' = Today /\ lost' = lost
           \/ lost' = [lost EXCEPT ![Today] = @ + 1]
    <3>1. digests' = digests /\ (lastSent' \in {Today, lastSent, Days})
      BY <1>6 DEF RecordDigest
    <3>2. faults' \in 0..MaxFaults
      BY <1>6, AlertsAssumption DEF RecordDigest, Fails, AlertsTypeOK
    <3>3. Today \in 0..Days /\ Days \in 0..Days /\ lastSent \in 0..Days
      BY <1>1, AlertsAssumption DEF AlertsTypeOK
    <3> QED BY <1>6, <3>1, <3>2, <3>3 DEF RecordDigest
  <2>3. AlertsTypeOK'
    <3>1. digests' \in [0..(Days - 1) -> Nat]
      BY <1>1, <1>4, <2>2 DEF AlertsTypeOK
    <3>2. lost' \in [0..(Days - 1) -> Nat]
      <4>1. CASE lost' = lost
        BY <4>1 DEF AlertsTypeOK
      <4>2. CASE lost' = [lost EXCEPT ![Today] = @ + 1]
        BY <1>1, <1>4, <4>2 DEF AlertsTypeOK
      <4> QED BY <2>2, <4>1, <4>2
    <3> QED BY <1>2, <2>1, <2>2, <3>1, <3>2 DEF AlertsTypeOK, jobVars, alertVars
  <2>4. SentIsRecorded'
    <3> SUFFICES ASSUME NEW d \in 0..(Days - 1)
                 PROVE  /\ digests[d] <= 1 + lost'[d]
                        /\ d = Today => digests[d] <= lost'[d] \/ lastSent' = d
                        /\ d > Today => digests[d] = 0
      BY <1>3, <2>1, <2>2 DEF SentIsRecorded
    <3>1. CASE d = Today
      <4>1. digests[Today] <= 1 + lost[Today]
        BY <1>1 DEF SentIsRecorded
      <4>2. lost'[Today] = lost[Today] + 1 \/ (lost'[Today] = lost[Today] /\ lastSent' = Today)
        BY <1>1, <2>2 DEF AlertsTypeOK
      <4> QED BY <1>1, <1>4, <3>1, <4>1, <4>2
    <3>2. CASE d # Today
      BY <1>1, <2>2, <3>2 DEF AlertsTypeOK, SentIsRecorded
    <3> QED BY <3>1, <3>2
  <2> QED
    BY <1>2, <2>1, <2>3, <2>4
    DEF EndsAreTold, Waits, Comes, AlertIsRecorded, jobVars, alertVars
<1> QED BY <1>5, <1>6

\* Time passes, but not between a digest, or an alert, and its record.
LEMMA TickStep ==
  ASSUME AlertsInv, Tick
  PROVE  AlertsInv'
<1> USE DEF AlertsInv
<1>1. /\ now' = now + 1 /\ now' \in 0..End /\ now \in Nat
      /\ UNCHANGED <<jobVars, digestVars, alertVars, restarts, faults>>
  BY EndIsNat DEF Tick, AlertsTypeOK
<1>2. loop.step \in {"sleep", "retain"} /\ loop'.step = loop.step
      /\ loop' \in [step : {"sleep", "retain"}, beat : 0..(CareEvery + RetainMost)]
  <2>1. loop \in [step : {"sleep", "notify", "retain", "stale", "mark", "digest", "record"},
                  beat : 0..(CareEvery + RetainMost)]
    BY DEF AlertsTypeOK
  <2> DEFINE b == IF loop.beat < CareEvery + RetainMost THEN loop.beat + 1 ELSE loop.beat
  <2>2. loop.step \in {"sleep", "retain"} /\ loop' = [loop EXCEPT !.beat = b]
    BY DEF Tick
  <2>3. b \in 0..(CareEvery + RetainMost)
    BY <2>1, AlertsAssumption
  <2> QED BY <2>1, <2>2, <2>3
<1>3. Today <= Today'
  <2>1. Slots \in Nat \ {0} /\ now \in Nat
    BY EndIsNat, AlertsAssumption DEF AlertsTypeOK
  <2>2. now \div Slots <= (now + 1) \div Slots
    BY <2>1, DayGrows
  <2> QED BY <1>1, <2>2 DEF Today
<1>4. Today \in 0..(Days - 1) /\ Today' \in 0..(Days - 1)
  BY <1>1, DayOfSlot, TodayIsDay, AlertsAssumption DEF AlertsTypeOK, Today, End
<1>5. AlertsTypeOK'
  BY <1>1, <1>2 DEF AlertsTypeOK, jobVars, digestVars, alertVars
<1>6. SentIsRecorded'
  <2> SUFFICES ASSUME NEW d \in 0..(Days - 1)
               PROVE  /\ digests[d] <= 1 + lost[d]
                      /\ d = Today' => \/ digests[d] <= lost[d]
                                       \/ lastSent = d /\ loop.step # "record"
                      /\ d > Today' => digests[d] = 0
    BY <1>1, <1>2 DEF SentIsRecorded, digestVars
  <2>1. digests[d] \in Nat /\ lost[d] \in Nat
    BY DEF AlertsTypeOK
  <2> QED BY <1>2, <1>3, <1>4, <2>1 DEF SentIsRecorded
<1>7. AlertIsRecorded'
  <2>1. alerts[2].at \in Nat
    BY EndIsNat DEF AlertsTypeOK, Never
  <2> QED BY <1>1, <1>2, <2>1 DEF AlertIsRecorded, alertVars
<1> QED BY <1>1, <1>5, <1>6, <1>7 DEF EndsAreTold, Waits, Comes, jobVars

\* A restart forgets the outbox; a digest it forgets to record is counted.
LEMMA DaemonRestarts ==
  ASSUME AlertsInv, RestartDaemon
  PROVE  AlertsInv'
<1> USE DEF AlertsInv
<1>1. /\ UNCHANGED <<now, exits, told, again, digests, alerts, faults>>
      /\ outbox' = [j \in Watched |-> "none"]
      /\ loop' = [step |-> "sleep", beat |-> 0]
  BY DEF RestartDaemon
<1>2. Today \in 0..(Days - 1) /\ Today' = Today
  BY <1>1, TodayIsDay DEF AlertsTypeOK, Today
<1>3. /\ lastSent' \in 0..Days
      /\ \/ loop.step # "record" /\ lost' = lost /\ lastSent' = lastSent
         \/ loop.step = "record" /\ lost' = [lost EXCEPT ![Today] = @ + 1]
  BY AlertsAssumption DEF RestartDaemon, AlertsTypeOK
<1>4. /\ lastAlert' \in 0..Never
      /\ lastAlert' = lastAlert \/ loop.step = "mark"
  BY EndIsNat DEF RestartDaemon, AlertsTypeOK, Never
<1>5. AlertsTypeOK'
  <2>1. restarts' \in 0..MaxRestarts
    BY AlertsAssumption DEF RestartDaemon, AlertsTypeOK
  <2>2. lost' \in [0..(Days - 1) -> Nat]
    BY <1>2, <1>3 DEF AlertsTypeOK
  <2>3. 0 \in 0..(CareEvery + RetainMost)
    BY AlertsAssumption
  <2> QED BY <1>1, <1>3, <1>4, <2>1, <2>2, <2>3 DEF AlertsTypeOK
<1>6. EndsAreTold'
  <2> SUFFICES ASSUME NEW j \in Watched
               PROVE  told[j] + Waits(j)' + Comes(j)' <= 1 + again[j]
    BY <1>1 DEF EndsAreTold
  <2>1. told[j] \in Nat /\ again[j] \in Nat /\ told[j] + Waits(j) + Comes(j) <= 1 + again[j]
    BY DEF EndsAreTold, AlertsTypeOK
  <2>2. Waits(j)' = 0 /\ Comes(j)' = Comes(j) /\ Waits(j) \in {0, 1} /\ Comes(j) \in {0, 1}
    BY <1>1 DEF Waits, Comes
  <2> QED BY <2>1, <2>2
<1>7. SentIsRecorded'
  <2> SUFFICES ASSUME NEW d \in 0..(Days - 1)
               PROVE  /\ digests[d] <= 1 + lost'[d]
                      /\ d = Today => digests[d] <= lost'[d] \/ lastSent' = d
                      /\ d > Today => digests[d] = 0
    BY <1>1, <1>2 DEF SentIsRecorded
  <2>1. digests[d] \in Nat /\ lost[d] \in Nat
    BY DEF AlertsTypeOK
  <2>2. CASE d = Today
    <3>1. lost'[Today] = lost[Today] + 1 \/ (loop.step # "record" /\ lost' = lost /\ lastSent' = lastSent)
      BY <1>2, <1>3 DEF AlertsTypeOK
    <3>2. digests[d] <= 1 + lost[d]
          /\ (digests[d] <= lost[d] \/ lastSent = d \/ loop.step = "record")
      BY <2>2 DEF SentIsRecorded
    <3> QED BY <2>1, <2>2, <3>1, <3>2
  <2>3. CASE d # Today
    BY <1>2, <1>3, <2>3 DEF AlertsTypeOK, SentIsRecorded
  <2> QED BY <2>2, <2>3
<1>8. AlertIsRecorded'
  BY <1>1, <1>4 DEF AlertIsRecorded
<1> QED BY <1>5, <1>6, <1>7, <1>8

LEMMA AlertsInvStep ==
  ASSUME AlertsInv, [AlertsNext]_alertsVars
  PROVE  AlertsInv'
<1>1. CASE AlertsNext
  BY <1>1, JobStep, LoopStep, AlertSent, AlertRecorded, DigestStep, TickStep, DaemonRestarts
  DEF AlertsNext
<1>2. CASE UNCHANGED alertsVars
  BY <1>2 DEF alertsVars, jobVars, digestVars, alertVars, AlertsInv, AlertsTypeOK, EndsAreTold,
              Waits, Comes, SentIsRecorded, AlertIsRecorded, Today
<1> QED BY <1>1, <1>2

LEMMA AlertsInvariance == AlertsSpec => []AlertsInv
BY AlertsInvInit, AlertsInvStep, PTL DEF AlertsSpec

--------------------------------------------------------------------------------
(* The theorems. *)

\* Type correctness of the daemon.
THEOREM AlertsTypeCorrect == AlertsSpec => []AlertsTypeOK
<1>1. AlertsInv => AlertsTypeOK
  BY DEF AlertsInv
<1> QED BY <1>1, AlertsInvariance, PTL

\* The end of a job is told once, whenever the daemon is restarted, and once more only
\* after a save that failed or was stale.
THEOREM ToldAtMostOnceThm == AlertsSpec => []ToldAtMostOnce
<1>1. AlertsInv => ToldAtMostOnce
  <2> SUFFICES ASSUME AlertsInv, NEW j \in Watched
               PROVE  told[j] <= 1 + again[j] /\ (exits[j] = "other" => told[j] <= again[j])
    BY DEF ToldAtMostOnce
  <2>1. told[j] \in Nat /\ again[j] \in Nat /\ told[j] + Waits(j) + Comes(j) <= 1 + again[j]
    BY DEF AlertsInv, AlertsTypeOK, EndsAreTold
  <2>2. /\ Waits(j) \in {0, 1} /\ Comes(j) \in {0, 1}
        /\ exits[j] = "other" => Comes(j) = 1
    BY DEF Waits, Comes, Verdicts
  <2> QED BY <2>1, <2>2
<1> QED BY <1>1, AlertsInvariance, PTL

\* One digest a day, and alerts that keep their distance, but for those whose record was
\* missing: the daemon was killed, or its file failed it, between sending and the next look.
THEOREM NotTooOftenThm == AlertsSpec => []NotTooOften
<1>1. AlertsInv => NotTooOften
  BY DEF AlertsInv, SentIsRecorded, AlertIsRecorded, NotTooOften
<1> QED BY <1>1, AlertsInvariance, PTL

--------------------------------------------------------------------------------
(* The wizard for remotes. *)

\* The user works in one tab of the browser.
OneTab == \A t, u \in Tabs : t = u

ConsentIsNamed == \A k \in Consents : Kept(k) => consents[k].name \in RemoteNames

TokenIsOwn == \A n \in RemoteNames : remotes[n].token \in {NoName, n}

TokenInv == WizardTypeOK /\ ConsentIsNamed /\ TokenIsOwn

QuestionIsOwn == wizard # NoWizard => wizard.state = wizard.name

\* While a tab shows the page of a consent, the session has the wizard it is for.
PageIsOwn ==
  \A t \in Tabs, k \in Consents :
    page[t] = k /\ Kept(k) => wizard # NoWizard /\ wizard.name = consents[k].name

PageInv == QuestionIsOwn /\ PageIsOwn

Remotes == [there : BOOLEAN, token : RemoteNames \union {NoName}]
Tasks == [status : {"unused", "running", "more_steps", "done", "error", "gone"},
          by : {"none", "callback", "paste", "thread"},
          name : RemoteNames \union {NoName}, type : Types \union {"none"}]

--------------------------------------------------------------------------------
(* Facts about the operators. *)

LEMMA CallsKeepTokens ==
  ASSUME WizardTypeOK, TokenIsOwn, NEW n \in RemoteNames, NEW token \in {NoName, n},
         NEW reply, remotes' \in Calls(n, token, reply)
  PROVE  remotes' \in [RemoteNames -> Remotes] /\ TokenIsOwn'
<1>1. CASE remotes' = remotes
  BY <1>1 DEF WizardTypeOK, TokenIsOwn, Remotes
<1>2. ASSUME NEW v \in {token, NoName},
             remotes' = [remotes EXCEPT ![n] = [there |-> TRUE, token |-> v]]
      PROVE  remotes' \in [RemoteNames -> Remotes] /\ TokenIsOwn'
  BY <1>2 DEF WizardTypeOK, TokenIsOwn, Remotes
<1> QED BY <1>1, <1>2 DEF Calls

LEMMA QuestionIsWizard ==
  ASSUME NEW n \in RemoteNames \union {NoName}, NEW type \in Types \union {"none"},
         NEW creds \in BOOLEAN, NEW asks \in Questions, NEW state \in RemoteNames
  PROVE  /\ Question(n, type, creds, asks, state) \in Wizards
         /\ Question(n, type, creds, asks, state) # NoWizard
         /\ Question(n, type, creds, asks, state).name = n
         /\ Question(n, type, creds, asks, state).state = state
<1>1. Question(n, type, creds, asks, state) \in Wizards
  BY DEF Question, Wizards
<1> QED BY <1>1, WizardAssumption DEF Question

LEMMA ShowIsTyped ==
  ASSUME WizardTypeOK, NEW t \in Tabs, NEW k \in Consents \union {NoConsent}, Show(t, k)
  PROVE  /\ page' \in [Tabs -> Consents \union {NoConsent}]
         /\ page'[t] = k
BY DEF WizardTypeOK, Show

\* A consent that ends keeps its name or is gone.
LEMMA EndsIsTyped ==
  ASSUME WizardTypeOK, ConsentIsNamed, NEW k \in Consents, Kept(k),
         NEW status \in {"more_steps", "done", "error", "gone"}, Ends(k, status)
  PROVE  /\ consents' \in [Consents -> Tasks]
         /\ ConsentIsNamed'
         /\ \A i \in Consents : Kept(i)' => Kept(i) /\ consents'[i].name = consents[i].name
<1>1. /\ consents'[k] = IF status = "gone" THEN Gone ELSE [consents[k] EXCEPT !.status = status]
      /\ \A i \in Consents \ {k} : consents'[i] = consents[i]
      /\ consents' = [i \in Consents |-> consents'[i]]
  BY DEF Ends, WizardTypeOK
<1>2. Gone \in Tasks /\ Gone.status = "gone"
  BY DEF Gone, Unused, Tasks
<1>3. consents[k] \in Tasks
  BY DEF WizardTypeOK, Tasks
<1>4. [consents[k] EXCEPT !.status = status] \in Tasks
      /\ [consents[k] EXCEPT !.status = status].name = consents[k].name
  BY <1>3 DEF Tasks
<1>5. consents'[k] \in Tasks
  BY <1>1, <1>2, <1>4
<1>6. Kept(k)' => consents'[k].name = consents[k].name
  BY <1>1, <1>2, <1>4 DEF Kept
<1>7. consents' \in [Consents -> Tasks]
  BY <1>1, <1>5 DEF WizardTypeOK, Tasks
<1>8. \A i \in Consents : Kept(i)' => Kept(i) /\ consents'[i].name = consents[i].name
  BY <1>1, <1>6 DEF Kept
<1> QED BY <1>7, <1>8 DEF ConsentIsNamed

LEMMA WizardInvInit == WizardInit => TokenInv /\ PageInv
<1> SUFFICES ASSUME WizardInit PROVE TokenInv /\ PageInv
  OBVIOUS
<1>1. WizardTypeOK
  BY DEF WizardInit, WizardTypeOK, NotThere, Unused
<1>2. ConsentIsNamed /\ PageIsOwn
  BY DEF WizardInit, ConsentIsNamed, PageIsOwn, Kept, Unused
<1>3. TokenIsOwn /\ QuestionIsOwn
  BY DEF WizardInit, TokenIsOwn, QuestionIsOwn, NotThere
<1> QED BY <1>1, <1>2, <1>3 DEF TokenInv, PageInv

--------------------------------------------------------------------------------
(* Forms and questions: the tab leaves the page of a consent. *)

\* Where a step leaves the tab on no page, and puts its question for the remote it is
\* about, nothing is mixed up.
LEMMA NoPageStep ==
  ASSUME TokenInv, NEW t \in Tabs, Show(t, NoConsent), UNCHANGED consents,
         \/ remotes' = remotes
         \/ \E n \in RemoteNames, reply \in Replies : \E token \in {NoName, n} :
              remotes' \in Calls(n, token, reply),
         \/ wizard' = wizard
         \/ wizard' = NoWizard
         \/ \E n \in RemoteNames, type \in Types \union {"none"}, creds \in BOOLEAN,
              asks \in Questions : wizard' = Question(n, type, creds, asks, n)
  PROVE  TokenInv' /\ (OneTab /\ PageInv => PageInv')
<1> USE DEF TokenInv
<1>1. remotes' \in [RemoteNames -> Remotes] /\ TokenIsOwn'
  BY CallsKeepTokens DEF WizardTypeOK, TokenIsOwn, Remotes
<1>2. /\ wizard' \in Wizards \union {NoWizard}
      /\ wizard' # NoWizard => wizard' = wizard \/ wizard'.state = wizard'.name
  <2>1. ASSUME NEW n \in RemoteNames, NEW type \in Types \union {"none"}, NEW creds \in BOOLEAN,
               NEW asks \in Questions, wizard' = Question(n, type, creds, asks, n)
        PROVE  wizard' \in Wizards /\ wizard'.state = n /\ wizard'.name = n
    <3>1. n \in RemoteNames \union {NoName}
      OBVIOUS
    <3> QED BY <2>1, <3>1, QuestionIsWizard
  <2>2. CASE wizard' \in {wizard, NoWizard}
    BY <2>2 DEF WizardTypeOK
  <2> QED BY <2>1, <2>2
<1>3. page' \in [Tabs -> Consents \union {NoConsent}] /\ page'[t] = NoConsent
  BY ShowIsTyped
<1>4. TokenInv'
  BY <1>1, <1>2, <1>3 DEF WizardTypeOK, Remotes, ConsentIsNamed, Kept
<1>5. QuestionIsOwn => QuestionIsOwn'
  BY <1>2 DEF QuestionIsOwn
<1>6. OneTab => PageIsOwn'
  BY <1>3, WizardAssumption DEF OneTab, PageIsOwn
<1> QED BY <1>4, <1>5, <1>6 DEF PageInv

LEMMA FormStep ==
  ASSUME TokenInv, NEW t \in Tabs, NEW n \in RemoteNames, NEW reply \in Replies,
         (\E type \in Types : CreateRemote(t, n, type, reply)) \/ Reconnect(t, n, reply)
  PROVE  TokenInv' /\ (OneTab /\ PageInv => PageInv')
<1>1. remotes[n].token \in {NoName, n}
  BY DEF TokenInv, TokenIsOwn
<1>2. ASSUME NEW type \in Types, CreateRemote(t, n, type, reply)
      PROVE  TokenInv' /\ (OneTab /\ PageInv => PageInv')
  <2>1. remotes' \in Calls(n, remotes[n].token, reply) /\ Show(t, NoConsent) /\ UNCHANGED consents
    BY <1>2 DEF CreateRemote
  <2>2. CASE reply \in Questions
    <3>1. PICK creds \in BOOLEAN : wizard' = Question(n, type, creds, reply, n)
      BY <1>2, <2>2 DEF CreateRemote
    <3> QED BY <1>1, <2>1, <2>2, <3>1, NoPageStep
  <2>3. CASE reply \notin Questions
    <3>1. wizard' = wizard
      BY <1>2, <2>3 DEF CreateRemote
    <3> QED BY <1>1, <2>1, <3>1, NoPageStep
  <2> QED BY <2>2, <2>3
<1>3. CASE Reconnect(t, n, reply)
  <2>1. /\ remotes' \in Calls(n, remotes[n].token, reply) /\ Show(t, NoConsent) /\ UNCHANGED consents
        /\ \/ reply \in Questions /\ wizard' = Question(n, "google", TRUE, reply, n)
           \/ wizard' = wizard
    BY <1>3 DEF Reconnect
  <2>2. "google" \in Types \union {"none"}
    BY DEF Types
  <2> QED BY <1>1, <2>1, <2>2, NoPageStep
<1> QED BY <1>2, <1>3

LEMMA AnswerStep ==
  ASSUME TokenInv, NEW t \in Tabs, NEW reply \in Replies,
         Answer(t, reply) \/ NoConsentAsked(t, reply)
  PROVE  TokenInv' /\ (OneTab /\ PageInv => PageInv')
<1>1. wizard \in Wizards /\ Show(t, NoConsent) /\ UNCHANGED consents
  BY DEF TokenInv, WizardTypeOK, Answer, NoConsentAsked
<1>2. wizard.name \in RemoteNames \union {NoName} /\ wizard.type \in Types \union {"none"}
  BY <1>1 DEF Wizards
<1>3. CASE wizard.name = NoName
  <2>1. remotes' = remotes /\ reply = "fails"
    BY <1>3 DEF Answer, NoConsentAsked
  <2>2. wizard' \in {wizard, NoWizard}
    BY <2>1 DEF Answer, NoConsentAsked, Questions
  <2> QED BY <1>1, <2>1, <2>2, NoPageStep
<1>4. CASE wizard.name # NoName
  <2>1. wizard.name \in RemoteNames /\ remotes[wizard.name].token \in {NoName, wizard.name}
    BY <1>2, <1>4 DEF TokenInv, TokenIsOwn
  <2>2. remotes' \in Calls(wizard.name, remotes[wizard.name].token, reply)
    BY <1>4 DEF Answer, NoConsentAsked
  <2>3. \/ wizard' = wizard
        \/ wizard' = NoWizard
        \/ reply \in Questions /\ wizard' = Question(wizard.name, wizard.type, FALSE, reply, wizard.name)
    BY DEF Answer, NoConsentAsked
  <2> QED BY <1>1, <1>2, <2>1, <2>2, <2>3, NoPageStep
<1> QED BY <1>3, <1>4

LEMMA DeleteStep ==
  ASSUME TokenInv, NEW t \in Tabs, NEW n \in RemoteNames, DeleteRemote(t, n)
  PROVE  TokenInv' /\ (OneTab /\ PageInv => PageInv')
<1> USE DEF TokenInv
<1>1. /\ remotes' \in {[remotes EXCEPT ![n] = NotThere], remotes}
      /\ Show(t, NoConsent) /\ UNCHANGED <<wizard, consents>>
  BY DEF DeleteRemote
<1>2. remotes' \in [RemoteNames -> Remotes] /\ TokenIsOwn'
  <2>1. NotThere \in Remotes /\ NotThere.token = NoName
    BY DEF NotThere, Remotes
  <2> QED BY <1>1, <2>1 DEF WizardTypeOK, TokenIsOwn, Remotes
<1>3. page' \in [Tabs -> Consents \union {NoConsent}] /\ page'[t] = NoConsent
  BY <1>1, ShowIsTyped
<1>4. TokenInv'
  BY <1>1, <1>2, <1>3 DEF WizardTypeOK, Remotes, ConsentIsNamed, Kept
<1>5. OneTab /\ PageInv => PageInv'
  BY <1>1, <1>3, WizardAssumption DEF OneTab, PageInv, QuestionIsOwn, PageIsOwn
<1> QED BY <1>4, <1>5

\* The page of a consent is shown by the wizard that asks for it.
LEMMA QuestionStep ==
  ASSUME TokenInv, NEW t \in Tabs, NEW k \in Consents,
         NEW by \in {"callback", "paste", "thread"}, AskConsent(t, k, by)
  PROVE  TokenInv' /\ (OneTab /\ PageInv => PageInv')
<1> USE DEF TokenInv
<1>1. /\ wizard # NoWizard /\ wizard.name # NoName /\ Show(t, k) /\ UNCHANGED wizard
      /\ remotes' \in Calls(wizard.name, remotes[wizard.name].token, "ok")
      /\ consents' = [consents EXCEPT ![k] =
           [status |-> "running", by |-> by, name |-> wizard.name, type |-> wizard.type]]
  BY DEF AskConsent
<1>2. wizard \in Wizards
  BY <1>1 DEF WizardTypeOK
<1>3. wizard.name \in RemoteNames /\ wizard.type \in Types \union {"none"}
  BY <1>1, <1>2 DEF Wizards
<1>4. remotes' \in [RemoteNames -> Remotes] /\ TokenIsOwn'
  BY <1>1, <1>3, CallsKeepTokens DEF TokenIsOwn
<1>5. page' \in [Tabs -> Consents \union {NoConsent}] /\ page'[t] = k
  BY <1>1, ShowIsTyped
<1>6. consents' \in [Consents -> Tasks] /\ consents'[k].name = wizard.name
      /\ \A i \in Consents \ {k} : consents'[i] = consents[i]
  BY <1>1, <1>3 DEF WizardTypeOK, Tasks
<1>7. ConsentIsNamed'
  BY <1>3, <1>6 DEF ConsentIsNamed, Kept
<1>8. TokenInv'
  BY <1>1, <1>4, <1>5, <1>6, <1>7 DEF WizardTypeOK, Remotes, Tasks
<1>9. ASSUME OneTab, PageInv PROVE PageInv'
  <2>1. \A u \in Tabs : u = t
    BY <1>9 DEF OneTab
  <2>2. PageIsOwn'
    BY <1>1, <1>5, <1>6, <2>1 DEF PageIsOwn
  <2> QED BY <1>1, <1>9, <2>2 DEF PageInv, QuestionIsOwn
<1> QED BY <1>8, <1>9

--------------------------------------------------------------------------------
(* Consents. *)

\* A consent stores a token under its own remote only.
LEMMA GrantedKeepsTokens ==
  ASSUME TokenInv, NEW k \in Consents, Kept(k), NEW reply, Granted(k, reply)
  PROVE  remotes' \in [RemoteNames -> Remotes] /\ TokenIsOwn'
<1>1. consents[k].name \in RemoteNames
  BY DEF TokenInv, ConsentIsNamed
<1> QED BY <1>1, CallsKeepTokens DEF TokenInv, Granted, Target

\* What ends outside of the tabs changes neither the session nor a page.
LEMMA BackgroundStep ==
  ASSUME TokenInv, NEW k \in Consents, NEW reply \in Replies, NEW status \in {"error", "gone"},
         Callback(k, reply) \/ ThreadEnds(k, reply) \/ CallbackFails(k, status)
  PROVE  TokenInv' /\ (OneTab /\ PageInv => PageInv')
<1> USE DEF TokenInv
<1>1. Kept(k) /\ UNCHANGED <<wizard, page>>
  BY DEF Callback, ThreadEnds, CallbackFails, Kept
<1>2. remotes' \in [RemoteNames -> Remotes] /\ TokenIsOwn'
  <2>1. CASE Callback(k, reply) \/ ThreadEnds(k, reply)
    BY <1>1, <2>1, GrantedKeepsTokens DEF Callback, ThreadEnds
  <2>2. CASE CallbackFails(k, status)
    BY <2>2 DEF CallbackFails, WizardTypeOK, TokenIsOwn, Remotes
  <2> QED BY <2>1, <2>2
<1>3. \E s \in {"more_steps", "done", "error", "gone"} : Ends(k, s)
  BY DEF Callback, ThreadEnds, CallbackFails
<1>4. /\ consents' \in [Consents -> Tasks]
      /\ ConsentIsNamed'
      /\ \A i \in Consents : Kept(i)' => Kept(i) /\ consents'[i].name = consents[i].name
  BY <1>1, <1>3, EndsIsTyped
<1>5. TokenInv'
  BY <1>1, <1>2, <1>4 DEF WizardTypeOK, Remotes, Tasks
<1>6. PageInv => PageInv'
  BY <1>1, <1>4 DEF PageInv, QuestionIsOwn, PageIsOwn
<1> QED BY <1>5, <1>6

\* A pasted answer goes on with the remote of the consent.
LEMMA PasteStep ==
  ASSUME TokenInv, NEW t \in Tabs, NEW k \in Consents, NEW reply \in Replies, Paste(t, k, reply)
  PROVE  TokenInv' /\ (OneTab /\ PageInv => PageInv')
<1> USE DEF TokenInv
<1>1. Kept(k) /\ consents[k].name \in RemoteNames /\ consents[k].type \in Types \union {"none"}
  BY DEF Paste, ConsentIsNamed, WizardTypeOK
<1>2. remotes' \in [RemoteNames -> Remotes] /\ TokenIsOwn'
  BY <1>1, GrantedKeepsTokens DEF Paste
<1>3. CASE reply = "fails"
  <2>1. UNCHANGED <<wizard, consents, page>>
    BY <1>3 DEF Paste, Questions
  <2> QED
    BY <1>2, <2>1 DEF WizardTypeOK, Remotes, ConsentIsNamed, Kept, PageInv, QuestionIsOwn, PageIsOwn
<1>4. CASE reply # "fails"
  <2>1. Ends(k, "gone") /\ Show(t, NoConsent)
    BY <1>4 DEF Paste
  <2>2. consents' \in [Consents -> Tasks] /\ ConsentIsNamed'
    BY <1>1, <2>1, EndsIsTyped
  <2>3. page' \in [Tabs -> Consents \union {NoConsent}] /\ page'[t] = NoConsent
    BY <2>1, ShowIsTyped
  <2>4. \/ wizard' = NoWizard
        \/ wizard' = wizard
        \/ /\ reply \in Questions
           /\ wizard' = Question(consents[k].name, consents[k].type, FALSE, reply, consents[k].name)
    <3>1. CASE reply \in Questions
      BY <3>1 DEF Paste, Target, Questions
    <3>2. CASE reply = "ok"
      BY <3>2 DEF Paste, Questions
    <3> QED BY <1>4, <3>1, <3>2 DEF Replies
  <2>5. /\ wizard' \in Wizards \union {NoWizard}
        /\ wizard' # NoWizard => wizard' = wizard \/ wizard'.state = wizard'.name
    <3>1. ASSUME reply \in Questions,
                 wizard' = Question(consents[k].name, consents[k].type, FALSE, reply, consents[k].name)
          PROVE  wizard' \in Wizards /\ wizard'.state = wizard'.name
      <4> DEFINE n == consents[k].name
                 type == consents[k].type
                 q == Question(n, type, FALSE, reply, n)
      <4>1. n \in RemoteNames \union {NoName}
        BY <1>1
      <4>2. q \in Wizards /\ q.name = n /\ q.state = n
        BY <1>1, <3>1, <4>1 DEF Question, Wizards
      <4> QED BY <3>1, <4>2
    <3> QED BY <2>4, <3>1 DEF WizardTypeOK
  <2>6. OneTab => PageIsOwn'
    BY <2>3, WizardAssumption DEF OneTab, PageIsOwn
  <2> QED
    BY <1>2, <2>2, <2>3, <2>5, <2>6 DEF WizardTypeOK, Remotes, Tasks, PageInv, QuestionIsOwn
<1> QED BY <1>3, <1>4

\* The next question of a consent is put under the name in the session: with one tab,
\* and by PageIsOwn, that is the remote of the consent.
LEMMA PollStep ==
  ASSUME TokenInv, NEW t \in Tabs, NEW k \in Consents, NEW asks \in Questions, Poll(t, k, asks)
  PROVE  TokenInv' /\ (OneTab /\ PageInv => PageInv')
<1> USE DEF TokenInv
<1>1. page[t] = k /\ Ends(k, "gone") /\ Show(t, NoConsent) /\ UNCHANGED remotes
  BY DEF Poll
<1>2. page' \in [Tabs -> Consents \union {NoConsent}] /\ page'[t] = NoConsent
  BY <1>1, ShowIsTyped
<1>3. consents' = [consents EXCEPT ![k] = Gone]
  BY <1>1 DEF Ends
<1>4. Gone \in Tasks /\ Gone.status = "gone"
  BY DEF Gone, Unused, Tasks
<1>5. consents' \in [Consents -> Tasks]
  BY <1>3, <1>4 DEF WizardTypeOK, Tasks
<1>6. ConsentIsNamed'
  BY <1>3, <1>4 DEF ConsentIsNamed, Kept, WizardTypeOK
<1>7. CASE consents[k].status # "more_steps"
  <2>1. wizard' \in {wizard, NoWizard}
    BY <1>7 DEF Poll
  <2>2. OneTab => PageIsOwn'
    BY <1>2, WizardAssumption DEF OneTab, PageIsOwn
  <2> QED
    BY <1>1, <1>2, <1>5, <1>6, <2>1, <2>2
    DEF WizardTypeOK, Tasks, TokenIsOwn, PageInv, QuestionIsOwn
<1>8. CASE consents[k].status = "more_steps"
  <2>1. Kept(k) /\ consents[k].name \in RemoteNames
    BY <1>8 DEF Kept, ConsentIsNamed
  <2>2. CASE wizard = NoWizard
    <3>1. wizard' = Question(NoName, "none", FALSE, asks, consents[k].name)
      BY <1>8, <2>2 DEF Poll
    <3>2. wizard' \in Wizards
      <4>1. NoName \in RemoteNames \union {NoName} /\ "none" \in Types \union {"none"}
        OBVIOUS
      <4> QED BY <2>1, <3>1, <4>1, QuestionIsWizard
    <3>3. ~PageInv
      BY <1>1, <2>1, <2>2 DEF PageInv, PageIsOwn
    <3> QED
      BY <1>1, <1>2, <1>5, <1>6, <3>2, <3>3 DEF WizardTypeOK, Tasks, TokenIsOwn
  <2>3. CASE wizard # NoWizard
    <3>1. wizard' = Question(wizard.name, wizard.type, FALSE, asks, consents[k].name)
      BY <1>8, <2>3 DEF Poll
    <3>2. wizard.name \in RemoteNames \union {NoName} /\ wizard.type \in Types \union {"none"}
      BY <2>3 DEF WizardTypeOK, Wizards
    <3>3. wizard' \in Wizards /\ wizard'.name = wizard.name /\ wizard'.state = consents[k].name
      <4> DEFINE q == Question(wizard.name, wizard.type, FALSE, asks, consents[k].name)
      <4>1. q \in Wizards /\ q.name = wizard.name /\ q.state = consents[k].name
        BY <2>1, <3>2 DEF Question, Wizards
      <4> QED BY <3>1, <4>1
    <3>4. PageInv => wizard.name = consents[k].name
      BY <1>1, <2>1 DEF PageInv, PageIsOwn
    <3>5. OneTab => PageIsOwn'
      BY <1>2, WizardAssumption DEF OneTab, PageIsOwn
    <3> QED
      BY <1>1, <1>2, <1>5, <1>6, <3>3, <3>4, <3>5
      DEF WizardTypeOK, Tasks, TokenIsOwn, PageInv, QuestionIsOwn
  <2> QED BY <2>2, <2>3
<1> QED BY <1>7, <1>8

LEMMA DashboardRestarts ==
  ASSUME TokenInv, RestartDashboard
  PROVE  TokenInv' /\ (OneTab /\ PageInv => PageInv')
<1> USE DEF TokenInv
<1>1. /\ consents' = [k \in Consents |-> IF consents[k] = Unused THEN Unused ELSE Gone]
      /\ UNCHANGED <<remotes, wizard, page>>
  BY DEF RestartDashboard
<1>2. /\ Gone \in Tasks /\ Gone.status = "gone"
      /\ Unused \in Tasks /\ Unused.status = "unused"
  BY DEF Gone, Unused, Tasks
<1>3. consents' \in [Consents -> Tasks] /\ \A k \in Consents : ~Kept(k)'
  BY <1>1, <1>2 DEF Kept
<1> QED
  BY <1>1, <1>3
  DEF WizardTypeOK, Tasks, ConsentIsNamed, TokenIsOwn, PageInv, QuestionIsOwn, PageIsOwn

LEMMA WizardInvStep ==
  ASSUME TokenInv, [WizardNext]_wizardVars
  PROVE  TokenInv' /\ (OneTab /\ PageInv => PageInv')
<1>1. ASSUME NEW t \in Tabs, TabStep(t)
      PROVE  TokenInv' /\ (OneTab /\ PageInv => PageInv')
  BY <1>1, FormStep, AnswerStep, QuestionStep, PasteStep, PollStep, DeleteStep DEF TabStep
<1>2. ASSUME NEW k \in Consents, NEW reply \in Replies, NEW status \in {"error", "gone"},
             Callback(k, reply) \/ ThreadEnds(k, reply) \/ CallbackFails(k, status)
      PROVE  TokenInv' /\ (OneTab /\ PageInv => PageInv')
  BY <1>2, BackgroundStep
<1>3. CASE UNCHANGED wizardVars
  BY <1>3
  DEF wizardVars, TokenInv, WizardTypeOK, ConsentIsNamed, Kept, TokenIsOwn, PageInv,
      QuestionIsOwn, PageIsOwn
<1>4. "ok" \in Replies /\ "gone" \in {"error", "gone"}
  BY DEF Replies
<1> QED BY <1>1, <1>2, <1>3, <1>4, DashboardRestarts DEF WizardNext

LEMMA TokenInvariance == WizardSpec => []TokenInv
BY WizardInvInit, WizardInvStep, PTL DEF WizardSpec

--------------------------------------------------------------------------------
(* The theorems. *)

\* Type correctness of the configuration, the session, the table and the tabs.
THEOREM WizardTypeCorrect == WizardSpec => []WizardTypeOK
<1>1. TokenInv => WizardTypeOK
  BY DEF TokenInv
<1> QED BY <1>1, TokenInvariance, PTL

\* However many tabs the user works in, a token is stored under no other remote than
\* the one its page named.
THEOREM TokenIsOwnThm == WizardSpec => []TokenIsOwn
<1>1. TokenInv => TokenIsOwn
  BY DEF TokenInv
<1> QED BY <1>1, TokenInvariance, PTL

\* For a user of one tab a question is put for the remote that it is about, too.
THEOREM WizardIsOwnThm == ASSUME OneTab PROVE WizardSpec => []WizardIsOwn
<1>1. WizardInit => TokenInv /\ PageInv
  BY WizardInvInit
<1>2. TokenInv /\ PageInv /\ [WizardNext]_wizardVars => (TokenInv /\ PageInv)'
  BY WizardInvStep
<1>3. TokenInv /\ PageInv => WizardIsOwn
  BY DEF TokenInv, TokenIsOwn, PageInv, QuestionIsOwn, WizardIsOwn
<1> QED BY <1>1, <1>2, <1>3, PTL DEF WizardSpec
================================================================================
