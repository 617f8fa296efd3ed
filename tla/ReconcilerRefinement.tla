------------------------ MODULE ReconcilerRefinement ------------------------
(***************************************************************************)
(* The reconcile loop implements MaintenanceRun: the abstract run is read   *)
(* off the status on the API server, so a step of the reconcile is hidden   *)
(* until it is persisted.                                                   *)
(***************************************************************************)
EXTENDS ReconcilerProperties

RunStage ==
    IF ~HasOpenRun(status) THEN "none"
    ELSE IF OpenRun(status).phase = "PatchApplied" THEN "patched"
    ELSE "restarted"

AppliedMemory ==
    IF HasOpenRun(status) THEN OpenRun(status).appliedMemory ELSE NoMemory

Run == INSTANCE MaintenanceRun WITH
    Memory         <- Nat,
    HasPostActions <- PostActions # << >>,
    run            <- RunStage,
    applied        <- AppliedMemory,
    current        <- status.currentMemory,
    failed         <- IsConditionTrue(status, "LastMaintenanceFailed")

\* Whatever crashes, fails or is deleted, the status tells the life of one run
\* at a time: a run completes only after its post-actions and makes its own
\* memory current, and every other change of the status leaves it alone
\* (monitorMaintenance, handleWindowExpired, completeMaintenance,
\* failMaintenance).
ImplementsMaintenanceRun == Run!Spec
=============================================================================
