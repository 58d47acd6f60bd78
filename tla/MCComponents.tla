------------------------------ MODULE MCComponents ------------------------------
(***************************************************************************)
(* Small instances, for TLC, of the components around the jobs: restores   *)
(* from a tree of snapshots, an rclone destination, dumps, the process of  *)
(* "gniza backup", what the daemon tells, and the wizard for remotes.      *)
(* They share no state: a behaviour is one of the component that part      *)
(* names, the others rest.                                                 *)
(***************************************************************************)
EXTENDS Restore, RcloneStore, Dumps, BackupAll, Alerts, RcloneWizard

CONSTANTS r1, g1, x1, a1, a2, a3, j1, n1, n2, k1, k2, t1

VARIABLE part

componentsVars ==
  <<restoreVars, cloudVars, dumpsVars, batchVars, alertsVars, wizardVars, part>>

ComponentsInit ==
  /\ RestoreInit
  /\ CloudInit
  /\ DumpsInit
  /\ BatchInit
  /\ AlertsInit
  /\ WizardInit
  /\ part \in {"tree", "rclone", "dumps", "backup", "alerts", "wizard"}
  /\ part # "backup" => batch.mode = "all"

ComponentsNext ==
  \/ /\ part = "tree"
     /\ RestoreNext
     /\ UNCHANGED <<cloudVars, dumpsVars, batchVars, alertsVars, wizardVars, part>>
  \/ /\ part = "rclone"
     /\ CloudNext
     /\ UNCHANGED <<restoreVars, dumpsVars, batchVars, alertsVars, wizardVars, part>>
  \/ /\ part = "dumps"
     /\ DumpsNext
     /\ UNCHANGED <<restoreVars, cloudVars, batchVars, alertsVars, wizardVars, part>>
  \/ /\ part = "backup"
     /\ BatchNext
     /\ UNCHANGED <<restoreVars, cloudVars, dumpsVars, alertsVars, wizardVars, part>>
  \/ /\ part = "alerts"
     /\ AlertsNext
     /\ UNCHANGED <<restoreVars, cloudVars, dumpsVars, batchVars, wizardVars, part>>
  \/ /\ part = "wizard"
     /\ WizardNext
     /\ UNCHANGED <<restoreVars, cloudVars, dumpsVars, batchVars, alertsVars, part>>

ComponentsSpec == ComponentsInit /\ [][ComponentsNext]_componentsVars

\* Type correctness of all the components.
ComponentsTypeOK ==
  /\ TypeOK
  /\ RestoreTypeOK
  /\ CloudTypeOK
  /\ DumpsTypeOK
  /\ BatchTypeOK
  /\ AlertsTypeOK
  /\ WizardTypeOK

OneRun == {r1}
OnePruner == {g1}
OneReader == {x1}
KeepOne == [a \in {r1, g1} |-> 1]
LastFolder == {3}

TreeFaults == {"crash", "remote", "rm"}
RcloneFaults == {"crash", "list", "purge"}

EveryKind == {"mysql", "postgresql", "crontab"}
ThreeNames == {a1, a2, a3}
OneOdd == {a3}
OneSystem == {a2}

EveryMode == {"single", "schedule", "all"}
ThirdTarget == {3}
SecondTarget == {2}
SomeSticky == {<<<<1, 1>>, <<"dump", 1>>>>, <<<<2, 2>>, <<"staging", 2>>>>}

OneJob == {j1}
QuarterOfAnHour == {2, 3, 4}
EveryDay == {0, 1}

TwoRemotes == {n1, n2}
TwoConsents == {k1, k2}
SingleTab == {t1}
================================================================================
