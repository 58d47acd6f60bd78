---------------------------- MODULE Components_proofs ----------------------------
(***************************************************************************)
(* What puts the components together says about each of them.              *)
(*                                                                         *)
(* MCComponents runs six specifications side by side, one of which moves.  *)
(* That its behaviours are, for each component, behaviours of the          *)
(* component's own specification is what makes a check of the composition  *)
(* a check of the components, and the theorems about them theorems about   *)
(* the composition.                                                        *)
(***************************************************************************)
EXTENDS MCComponents, Restore_proofs, RcloneStore_proofs, BackupAll_proofs, Alerts_proofs

\* Components that share no state do not disturb each other: the composition implements
\* the specification of each.
THEOREM PartsAreUndisturbed ==
  ComponentsSpec => /\ RestoreSpec
                    /\ CloudSpec
                    /\ DumpsSpec
                    /\ BatchSpec
                    /\ AlertsSpec
                    /\ WizardSpec
<1>1. ComponentsInit =>
        RestoreInit /\ CloudInit /\ DumpsInit /\ BatchInit /\ AlertsInit /\ WizardInit
  BY DEF ComponentsInit
<1>2. [ComponentsNext]_componentsVars => /\ [RestoreNext]_restoreVars
                                         /\ [CloudNext]_cloudVars
                                         /\ [DumpsNext]_dumpsVars
                                         /\ [BatchNext]_batchVars
                                         /\ [AlertsNext]_alertsVars
                                         /\ [WizardNext]_wizardVars
  BY DEF ComponentsNext, componentsVars
<1> QED
  BY <1>1, <1>2, PTL
  DEF ComponentsSpec, RestoreSpec, CloudSpec, DumpsSpec, BatchSpec, AlertsSpec, WizardSpec

\* Type correctness of all the components at once, under every fault of each.
THEOREM ComponentsTypeCorrect == ComponentsSpec => []ComponentsTypeOK
<1>1. TypeOK /\ RestoreTypeOK /\ CloudTypeOK /\ DumpsTypeOK /\ BatchTypeOK /\ AlertsTypeOK
        /\ WizardTypeOK => ComponentsTypeOK
  BY DEF ComponentsTypeOK
<1> QED
  BY <1>1, PartsAreUndisturbed, RestoresDisturbNothing, TypeCorrect, RestoreTypeCorrect,
     CloudTypeCorrect, DumpsTypeCorrect, BatchTypeCorrect, AlertsTypeCorrect, WizardTypeCorrect,
     PTL
================================================================================
