--------------------------- MODULE ReplicasProofs ---------------------------
(***************************************************************************)
(* With leader election two controllers are one: whatever the leading one   *)
(* does is a step of OneController, and a handover is a crash of it or      *)
(* nothing at all.  The three instances of the reconcile loop have their    *)
(* operators on a status in common, which the first lemmas say.             *)
(***************************************************************************)
EXTENDS Replicas, TLAPS

-----------------------------------------------------------------------------
\* Operators that all controllers share

LEMMA SameExtremes ==
    ASSUME NEW S
    PROVE  /\ OneController!Min(S) = Min(S) /\ Peer!Min(S) = Min(S)
           /\ OneController!Max(S) = Max(S) /\ Peer!Max(S) = Max(S)
  BY DEF OneController!Min, Peer!Min, Min, OneController!Max, Peer!Max, Max

LEMMA SameConditions ==
    ASSUME NEW p, NEW type, NEW value, NEW why
    PROVE  /\ OneController!IsConditionTrue(p, type) = IsConditionTrue(p, type)
           /\ Peer!IsConditionTrue(p, type) = IsConditionTrue(p, type)
           /\ OneController!SetCondition(p, type, value, why) = SetCondition(p, type, value, why)
           /\ Peer!SetCondition(p, type, value, why) = SetCondition(p, type, value, why)
  BY DEF OneController!IsConditionTrue, Peer!IsConditionTrue, IsConditionTrue,
         OneController!SetCondition, Peer!SetCondition, SetCondition

LEMMA SameRuns ==
    ASSUME NEW p
    PROVE  /\ OneController!FindInProgressRecord(p) = FindInProgressRecord(p)
           /\ Peer!FindInProgressRecord(p) = FindInProgressRecord(p)
           /\ OneController!OpenRun(p) = OpenRun(p)
           /\ Peer!OpenRun(p) = OpenRun(p)
           /\ OneController!HasOpenRun(p) = HasOpenRun(p)
           /\ Peer!HasOpenRun(p) = HasOpenRun(p)
<1>1. /\ OneController!InProgressRecords(p) = InProgressRecords(p)
      /\ Peer!InProgressRecords(p) = InProgressRecords(p)
  BY DEF OneController!InProgressRecords, Peer!InProgressRecords, InProgressRecords
<1>2. /\ OneController!FindInProgressRecord(p) = FindInProgressRecord(p)
      /\ Peer!FindInProgressRecord(p) = FindInProgressRecord(p)
  BY <1>1, SameExtremes
     DEF OneController!FindInProgressRecord, Peer!FindInProgressRecord, FindInProgressRecord
<1> QED
  BY <1>2, SameConditions
     DEF OneController!OpenRun, Peer!OpenRun, OpenRun,
         OneController!HasOpenRun, Peer!HasOpenRun, HasOpenRun

\* What ends or advances a run.
LEMMA SameEnds ==
    ASSUME NEW p
    PROVE  /\ OneController!CompleteMaintenance(p) = CompleteMaintenance(p)
           /\ Peer!CompleteMaintenance(p) = CompleteMaintenance(p)
           /\ OneController!FailMaintenance(p) = FailMaintenance(p)
           /\ Peer!FailMaintenance(p) = FailMaintenance(p)
           /\ OneController!AdvancePhase(p) = AdvancePhase(p)
           /\ Peer!AdvancePhase(p) = AdvancePhase(p)
           /\ OneController!ClearStaleCondition(p) = ClearStaleCondition(p)
           /\ Peer!ClearStaleCondition(p) = ClearStaleCondition(p)
<1>1. ASSUME NEW q, NEW outcome
      PROVE  /\ OneController!MarkRecordCompleted(q, outcome) = MarkRecordCompleted(q, outcome)
             /\ Peer!MarkRecordCompleted(q, outcome) = MarkRecordCompleted(q, outcome)
  BY SameRuns DEF OneController!MarkRecordCompleted, Peer!MarkRecordCompleted,
                  MarkRecordCompleted
<1>2. /\ OneController!CompleteMaintenance(p) = CompleteMaintenance(p)
      /\ Peer!CompleteMaintenance(p) = CompleteMaintenance(p)
  BY <1>1, SameRuns, SameConditions
     DEF OneController!CompleteMaintenance, Peer!CompleteMaintenance, CompleteMaintenance
<1>3. /\ OneController!FailMaintenance(p) = FailMaintenance(p)
      /\ Peer!FailMaintenance(p) = FailMaintenance(p)
  BY <1>1, SameConditions
     DEF OneController!FailMaintenance, Peer!FailMaintenance, FailMaintenance
<1>4. /\ OneController!AdvancePhase(p) = AdvancePhase(p)
      /\ Peer!AdvancePhase(p) = AdvancePhase(p)
  BY SameRuns DEF OneController!AdvancePhase, Peer!AdvancePhase, AdvancePhase
<1>5. /\ OneController!ClearStaleCondition(p) = ClearStaleCondition(p)
      /\ Peer!ClearStaleCondition(p) = ClearStaleCondition(p)
  BY SameConditions
     DEF OneController!ClearStaleCondition, Peer!ClearStaleCondition, ClearStaleCondition
<1> QED
  BY <1>2, <1>3, <1>4, <1>5

\* What adds a record; the clock is the same for all.
LEMMA SameRecords ==
    ASSUME NEW p
    PROVE  /\ OneController!SkipMaintenance(p) = SkipMaintenance(p)
           /\ Peer!SkipMaintenance(p) = SkipMaintenance(p)
           /\ OneController!RecordStart(p) = RecordStart(p)
           /\ Peer!RecordStart(p) = RecordStart(p)
<1>1. ASSUME NEW q, NEW rec
      PROVE  /\ OneController!AddMaintenanceRecord(q, rec) = AddMaintenanceRecord(q, rec)
             /\ Peer!AddMaintenanceRecord(q, rec) = AddMaintenanceRecord(q, rec)
  BY DEF OneController!AddMaintenanceRecord, Peer!AddMaintenanceRecord, AddMaintenanceRecord
<1>2. /\ OneController!SkipMaintenance(p) = SkipMaintenance(p)
      /\ Peer!SkipMaintenance(p) = SkipMaintenance(p)
  BY <1>1 DEF OneController!SkipMaintenance, Peer!SkipMaintenance, SkipMaintenance
<1>3. /\ OneController!RecordStart(p) = RecordStart(p)
      /\ Peer!RecordStart(p) = RecordStart(p)
  BY <1>1, SameConditions
     DEF OneController!RecordStart, Peer!RecordStart, RecordStart
<1> QED
  BY <1>2, <1>3

\* The status at the start of a reconcile and at its end.
LEMMA SamePatches ==
    ASSUME NEW server, NEW read, NEW changed
    PROVE  /\ OneController!MergePatch(server, read, changed) = MergePatch(server, read, changed)
           /\ Peer!MergePatch(server, read, changed) = MergePatch(server, read, changed)
           /\ OneController!EmptyStatus = EmptyStatus
           /\ Peer!EmptyStatus = EmptyStatus
<1>1. /\ OneController!MergePatch(server, read, changed) = MergePatch(server, read, changed)
      /\ Peer!MergePatch(server, read, changed) = MergePatch(server, read, changed)
  BY DEF OneController!MergePatch, Peer!MergePatch, MergePatch
<1>2. /\ OneController!ConditionTypes = ConditionTypes
      /\ Peer!ConditionTypes = ConditionTypes
  BY DEF OneController!ConditionTypes, Peer!ConditionTypes, ConditionTypes
<1> QED
  BY <1>1, <1>2 DEF OneController!EmptyStatus, Peer!EmptyStatus, EmptyStatus

LEMMA SameWindows ==
    ASSUME NEW t, NEW p, NEW s, NEW e
    PROVE  /\ OneController!Evaluate(t) = Evaluate(t)
           /\ Peer!Evaluate(t) = Evaluate(t)
           /\ OneController!HasCompletedMaintenanceInWindow(p, s, e)
                = HasCompletedMaintenanceInWindow(p, s, e)
           /\ Peer!HasCompletedMaintenanceInWindow(p, s, e)
                = HasCompletedMaintenanceInWindow(p, s, e)
<1>1. /\ OneController!PrevTicks(t) = PrevTicks(t) /\ Peer!PrevTicks(t) = PrevTicks(t)
      /\ OneController!NextTicks(t) = NextTicks(t) /\ Peer!NextTicks(t) = NextTicks(t)
  BY DEF OneController!PrevTicks, Peer!PrevTicks, PrevTicks,
         OneController!NextTicks, Peer!NextTicks, NextTicks
<1>2. /\ OneController!Evaluate(t) = Evaluate(t)
      /\ Peer!Evaluate(t) = Evaluate(t)
  BY <1>1, SameExtremes DEF OneController!Evaluate, Peer!Evaluate, Evaluate
<1>3. /\ OneController!HasCompletedMaintenanceInWindow(p, s, e)
            = HasCompletedMaintenanceInWindow(p, s, e)
      /\ Peer!HasCompletedMaintenanceInWindow(p, s, e)
            = HasCompletedMaintenanceInWindow(p, s, e)
  BY DEF OneController!HasCompletedMaintenanceInWindow,
         Peer!HasCompletedMaintenanceInWindow, HasCompletedMaintenanceInWindow
<1> QED
  BY <1>2, <1>3

LEMMA SameSizes ==
    ASSUME NEW a, NEW b
    PROVE  /\ OneController!Recommendation(a) = Recommendation(a)
           /\ Peer!Recommendation(a) = Recommendation(a)
           /\ OneController!ChangeGate(a, b) = ChangeGate(a, b)
           /\ Peer!ChangeGate(a, b) = ChangeGate(a, b)
<1>1. /\ OneController!ClampQuantity(a) = ClampQuantity(a)
      /\ Peer!ClampQuantity(a) = ClampQuantity(a)
  BY DEF OneController!ClampQuantity, Peer!ClampQuantity, ClampQuantity
<1>2. /\ OneController!Recommendation(a) = Recommendation(a)
      /\ Peer!Recommendation(a) = Recommendation(a)
  BY <1>1
     DEF OneController!Recommendation, Peer!Recommendation, Recommendation,
         OneController!ApplyMemoryBuffer, Peer!ApplyMemoryBuffer, ApplyMemoryBuffer
<1>3. /\ OneController!AbsDiff(b, a) = AbsDiff(b, a)
      /\ Peer!AbsDiff(b, a) = AbsDiff(b, a)
  BY DEF OneController!AbsDiff, Peer!AbsDiff, AbsDiff
<1> QED
  BY <1>2, <1>3 DEF OneController!ChangeGate, Peer!ChangeGate, ChangeGate

-----------------------------------------------------------------------------
\* The old controller reconciles while it runs.
LEMMA OldLeads ==
    ASSUME peerRuns, peerRuns', Peer!ReconcileStep
    PROVE  OneController!ReconcileStep
<1>1. ASSUME Peer!Begin PROVE OneController!Begin
  BY <1>1
     DEF Leading, OneController!Begin, Peer!Begin, OneController!GoTo,
         Peer!GoTo, OneController!NoFault, Peer!NoFault, OneController!world,
         Peer!world, OneController!history, Peer!history
<1>2. ASSUME Peer!GetCurrentMemory PROVE OneController!GetCurrentMemory
  BY <1>2
     DEF Leading, OneController!GetCurrentMemory, Peer!GetCurrentMemory,
         OneController!GoTo, Peer!GoTo, OneController!Return, Peer!Return,
         OneController!NoFault, Peer!NoFault, OneController!Fault, Peer!Fault,
         OneController!world, Peer!world, OneController!history, Peer!history
<1>3. ASSUME Peer!Bootstrap PROVE OneController!Bootstrap
  BY <1>3
     DEF Leading, OneController!Bootstrap, Peer!Bootstrap,
         OneController!PatchResources, Peer!PatchResources,
         OneController!GoTo, Peer!GoTo, OneController!Return, Peer!Return,
         OneController!NoFault, Peer!NoFault, OneController!Fault, Peer!Fault,
         OneController!history, Peer!history
<1>4. ASSUME Peer!ReadNoRecommendation PROVE OneController!ReadNoRecommendation
  BY <1>4, SameConditions
     DEF Leading, OneController!ReadNoRecommendation,
         Peer!ReadNoRecommendation, OneController!RecommendationReady,
         Peer!RecommendationReady, OneController!GoTo, Peer!GoTo,
         OneController!Return, Peer!Return, OneController!NoFault,
         Peer!NoFault, OneController!Fault, Peer!Fault, OneController!world,
         Peer!world, OneController!history, Peer!history
<1>5. ASSUME Peer!WindowEvaluationFails PROVE OneController!WindowEvaluationFails
  BY <1>5, SameConditions, SameWindows, SameSizes
     DEF Leading, OneController!WindowEvaluationFails,
         Peer!WindowEvaluationFails, OneController!Synced, Peer!Synced,
         OneController!RecommendationReady, Peer!RecommendationReady,
         OneController!GoTo, Peer!GoTo, OneController!Return, Peer!Return,
         OneController!NoFault, Peer!NoFault, OneController!world, Peer!world,
         OneController!history, Peer!history
<1>6. ASSUME Peer!ResumeRun PROVE OneController!ResumeRun
  BY <1>6, SameConditions, SameWindows, SameSizes, SameRuns
     DEF Leading, OneController!ResumeRun, Peer!ResumeRun,
         OneController!Synced, Peer!Synced, OneController!RecommendationReady,
         Peer!RecommendationReady, OneController!GoTo, Peer!GoTo,
         OneController!NoFault, Peer!NoFault, OneController!world, Peer!world,
         OneController!history, Peer!history
<1>7. ASSUME Peer!ConsiderRun PROVE OneController!ConsiderRun
  BY <1>7, SameConditions, SameWindows, SameSizes, SameRuns, SameEnds
     DEF Leading, OneController!ConsiderRun, Peer!ConsiderRun,
         OneController!Synced, Peer!Synced, OneController!RecommendationReady,
         Peer!RecommendationReady, OneController!GoTo, Peer!GoTo,
         OneController!NoFault, Peer!NoFault, OneController!world, Peer!world,
         OneController!history, Peer!history
<1>8. ASSUME Peer!CheckHealthGate PROVE OneController!CheckHealthGate
  BY <1>8, SameRecords
     DEF Leading, OneController!CheckHealthGate, Peer!CheckHealthGate,
         OneController!HealthError, Peer!HealthError, OneController!HealthIs,
         Peer!HealthIs, OneController!GoTo, Peer!GoTo, OneController!Return,
         Peer!Return, OneController!NoFault, Peer!NoFault,
         OneController!Fault, Peer!Fault, OneController!world, Peer!world,
         OneController!history, Peer!history
<1>9. ASSUME Peer!ChangeGateBlocks PROVE OneController!ChangeGateBlocks
  <2>1. OneController!Gate = Peer!Gate
    BY SameSizes DEF OneController!Gate, Peer!Gate, Leading
  <2>2. OneController!Observed = Peer!Observed
    BY DEF OneController!Observed, Peer!Observed, Leading
  <2>3. OneController!SetCondition(OneController!SkipMaintenance(OneController!Observed),
                                   "MaintenanceInProgress", "False", OneController!Gate)
          = Peer!SetCondition(Peer!SkipMaintenance(Peer!Observed),
                              "MaintenanceInProgress", "False", Peer!Gate)
    BY <2>1, <2>2, SameRecords, SameConditions
  <2> QED
    BY <1>9, <2>1, <2>3
       DEF Leading, OneController!ChangeGateBlocks, Peer!ChangeGateBlocks,
           OneController!GoTo, Peer!GoTo, OneController!Return, Peer!Return,
           OneController!NoFault, Peer!NoFault, OneController!world,
           Peer!world, OneController!history, Peer!history
<1>10. ASSUME Peer!StartMaintenance PROVE OneController!StartMaintenance
  BY <1>10, SameRecords, SameEnds, SameSizes
     DEF Leading, OneController!StartMaintenance, Peer!StartMaintenance,
         OneController!Gate, Peer!Gate, OneController!Observed, Peer!Observed,
         OneController!PatchResources, Peer!PatchResources,
         OneController!GoTo, Peer!GoTo, OneController!Return, Peer!Return,
         OneController!NoFault, Peer!NoFault, OneController!Fault, Peer!Fault,
         OneController!history, Peer!history
<1>11. ASSUME Peer!MonitorCluster PROVE OneController!MonitorCluster
  BY <1>11, SameEnds, SameRuns
     DEF Leading, OneController!MonitorCluster, Peer!MonitorCluster,
         OneController!HealthError, Peer!HealthError, OneController!HealthIs,
         Peer!HealthIs, OneController!GoTo, Peer!GoTo, OneController!Return,
         Peer!Return, OneController!NoFault, Peer!NoFault,
         OneController!Fault, Peer!Fault, OneController!world, Peer!world,
         OneController!history, Peer!history
<1>12. ASSUME Peer!TriggerPostAction PROVE OneController!TriggerPostAction
  BY <1>12, SameEnds
     DEF Leading, OneController!TriggerPostAction, Peer!TriggerPostAction,
         OneController!Restart, Peer!Restart, OneController!GoTo, Peer!GoTo,
         OneController!Return, Peer!Return, OneController!NoFault,
         Peer!NoFault, OneController!Fault, Peer!Fault
<1>13. ASSUME Peer!MonitorRollout PROVE OneController!MonitorRollout
  BY <1>13, SameEnds, SameRuns
     DEF Leading, OneController!MonitorRollout, Peer!MonitorRollout,
         OneController!IsRolloutComplete, Peer!IsRolloutComplete,
         OneController!GoTo, Peer!GoTo, OneController!Return, Peer!Return,
         OneController!NoFault, Peer!NoFault, OneController!Fault, Peer!Fault,
         OneController!world, Peer!world, OneController!history, Peer!history
<1>14. ASSUME Peer!HandleWindowExpired PROVE OneController!HandleWindowExpired
  BY <1>14, SameEnds, SameRuns
     DEF Leading, OneController!HandleWindowExpired, Peer!HandleWindowExpired,
         OneController!HealthError, Peer!HealthError, OneController!HealthIs,
         Peer!HealthIs, OneController!GoTo, Peer!GoTo, OneController!Return,
         Peer!Return, OneController!NoFault, Peer!NoFault,
         OneController!Fault, Peer!Fault, OneController!world, Peer!world,
         OneController!history, Peer!history
<1>15. ASSUME Peer!CheckExpiredRollout PROVE OneController!CheckExpiredRollout
  BY <1>15, SameEnds
     DEF Leading, OneController!CheckExpiredRollout, Peer!CheckExpiredRollout,
         OneController!IsRolloutComplete, Peer!IsRolloutComplete,
         OneController!GoTo, Peer!GoTo, OneController!Return, Peer!Return,
         OneController!NoFault, Peer!NoFault, OneController!Fault, Peer!Fault,
         OneController!world, Peer!world, OneController!history, Peer!history
<1>16. ASSUME Peer!Persist PROVE OneController!Persist
  BY <1>16, SamePatches
     DEF Leading, OneController!Persist, Peer!Persist,
         OneController!EndReconcile, Peer!EndReconcile, OneController!NoFault,
         Peer!NoFault, OneController!Fault, Peer!Fault, OneController!history,
         Peer!history
<1> QED
  BY <1>1, <1>2, <1>3, <1>4, <1>5, <1>6, <1>7, <1>8, <1>9, <1>10, <1>11, <1>12, <1>13, <1>14, <1>15, <1>16
     DEF OneController!ReconcileStep, Peer!ReconcileStep

-----------------------------------------------------------------------------
\* The new controller reconciles once the old one has stopped.
LEMMA NewLeads ==
    ASSUME ~peerRuns, ~peerRuns', ReconcileStep
    PROVE  OneController!ReconcileStep
<1>1. ASSUME Begin PROVE OneController!Begin
  BY <1>1
     DEF Leading, OneController!Begin, Begin, OneController!GoTo, GoTo,
         OneController!NoFault, NoFault, OneController!world, world,
         OneController!history, history
<1>2. ASSUME GetCurrentMemory PROVE OneController!GetCurrentMemory
  BY <1>2
     DEF Leading, OneController!GetCurrentMemory, GetCurrentMemory,
         OneController!GoTo, GoTo, OneController!Return, Return,
         OneController!NoFault, NoFault, OneController!Fault, Fault,
         OneController!world, world, OneController!history, history
<1>3. ASSUME Bootstrap PROVE OneController!Bootstrap
  BY <1>3
     DEF Leading, OneController!Bootstrap, Bootstrap,
         OneController!PatchResources, PatchResources, OneController!GoTo,
         GoTo, OneController!Return, Return, OneController!NoFault, NoFault,
         OneController!Fault, Fault, OneController!history, history
<1>4. ASSUME ReadNoRecommendation PROVE OneController!ReadNoRecommendation
  BY <1>4, SameConditions
     DEF Leading, OneController!ReadNoRecommendation, ReadNoRecommendation,
         OneController!RecommendationReady, RecommendationReady,
         OneController!GoTo, GoTo, OneController!Return, Return,
         OneController!NoFault, NoFault, OneController!Fault, Fault,
         OneController!world, world, OneController!history, history
<1>5. ASSUME WindowEvaluationFails PROVE OneController!WindowEvaluationFails
  BY <1>5, SameConditions, SameWindows, SameSizes
     DEF Leading, OneController!WindowEvaluationFails, WindowEvaluationFails,
         OneController!Synced, Synced, OneController!RecommendationReady,
         RecommendationReady, OneController!GoTo, GoTo, OneController!Return,
         Return, OneController!NoFault, NoFault, OneController!world, world,
         OneController!history, history
<1>6. ASSUME ResumeRun PROVE OneController!ResumeRun
  BY <1>6, SameConditions, SameWindows, SameSizes, SameRuns
     DEF Leading, OneController!ResumeRun, ResumeRun, OneController!Synced,
         Synced, OneController!RecommendationReady, RecommendationReady,
         OneController!GoTo, GoTo, OneController!NoFault, NoFault,
         OneController!world, world, OneController!history, history
<1>7. ASSUME ConsiderRun PROVE OneController!ConsiderRun
  BY <1>7, SameConditions, SameWindows, SameSizes, SameRuns, SameEnds
     DEF Leading, OneController!ConsiderRun, ConsiderRun,
         OneController!Synced, Synced, OneController!RecommendationReady,
         RecommendationReady, OneController!GoTo, GoTo, OneController!NoFault,
         NoFault, OneController!world, world, OneController!history, history
<1>8. ASSUME CheckHealthGate PROVE OneController!CheckHealthGate
  BY <1>8, SameRecords
     DEF Leading, OneController!CheckHealthGate, CheckHealthGate,
         OneController!HealthError, HealthError, OneController!HealthIs,
         HealthIs, OneController!GoTo, GoTo, OneController!Return, Return,
         OneController!NoFault, NoFault, OneController!Fault, Fault,
         OneController!world, world, OneController!history, history
<1>9. ASSUME ChangeGateBlocks PROVE OneController!ChangeGateBlocks
  <2>1. OneController!Gate = Gate
    BY SameSizes DEF OneController!Gate, Gate, Leading
  <2>2. OneController!Observed = Observed
    BY DEF OneController!Observed, Observed, Leading
  <2>3. OneController!SetCondition(OneController!SkipMaintenance(OneController!Observed),
                                   "MaintenanceInProgress", "False", OneController!Gate)
          = SetCondition(SkipMaintenance(Observed), "MaintenanceInProgress", "False", Gate)
    BY <2>1, <2>2, SameRecords, SameConditions
  <2> QED
    BY <1>9, <2>1, <2>3
       DEF Leading, OneController!ChangeGateBlocks, ChangeGateBlocks,
           OneController!GoTo, GoTo, OneController!Return, Return,
           OneController!NoFault, NoFault, OneController!world, world,
           OneController!history, history
<1>10. ASSUME StartMaintenance PROVE OneController!StartMaintenance
  BY <1>10, SameRecords, SameEnds, SameSizes
     DEF Leading, OneController!StartMaintenance, StartMaintenance,
         OneController!Gate, Gate, OneController!Observed, Observed,
         OneController!PatchResources, PatchResources, OneController!GoTo,
         GoTo, OneController!Return, Return, OneController!NoFault, NoFault,
         OneController!Fault, Fault, OneController!history, history
<1>11. ASSUME MonitorCluster PROVE OneController!MonitorCluster
  BY <1>11, SameEnds, SameRuns
     DEF Leading, OneController!MonitorCluster, MonitorCluster,
         OneController!HealthError, HealthError, OneController!HealthIs,
         HealthIs, OneController!GoTo, GoTo, OneController!Return, Return,
         OneController!NoFault, NoFault, OneController!Fault, Fault,
         OneController!world, world, OneController!history, history
<1>12. ASSUME TriggerPostAction PROVE OneController!TriggerPostAction
  BY <1>12, SameEnds
     DEF Leading, OneController!TriggerPostAction, TriggerPostAction,
         OneController!Restart, Restart, OneController!GoTo, GoTo,
         OneController!Return, Return, OneController!NoFault, NoFault,
         OneController!Fault, Fault
<1>13. ASSUME MonitorRollout PROVE OneController!MonitorRollout
  BY <1>13, SameEnds, SameRuns
     DEF Leading, OneController!MonitorRollout, MonitorRollout,
         OneController!IsRolloutComplete, IsRolloutComplete,
         OneController!GoTo, GoTo, OneController!Return, Return,
         OneController!NoFault, NoFault, OneController!Fault, Fault,
         OneController!world, world, OneController!history, history
<1>14. ASSUME HandleWindowExpired PROVE OneController!HandleWindowExpired
  BY <1>14, SameEnds, SameRuns
     DEF Leading, OneController!HandleWindowExpired, HandleWindowExpired,
         OneController!HealthError, HealthError, OneController!HealthIs,
         HealthIs, OneController!GoTo, GoTo, OneController!Return, Return,
         OneController!NoFault, NoFault, OneController!Fault, Fault,
         OneController!world, world, OneController!history, history
<1>15. ASSUME CheckExpiredRollout PROVE OneController!CheckExpiredRollout
  BY <1>15, SameEnds
     DEF Leading, OneController!CheckExpiredRollout, CheckExpiredRollout,
         OneController!IsRolloutComplete, IsRolloutComplete,
         OneController!GoTo, GoTo, OneController!Return, Return,
         OneController!NoFault, NoFault, OneController!Fault, Fault,
         OneController!world, world, OneController!history, history
<1>16. ASSUME Persist PROVE OneController!Persist
  BY <1>16, SamePatches
     DEF Leading, OneController!Persist, Persist, OneController!EndReconcile,
         EndReconcile, OneController!NoFault, NoFault, OneController!Fault,
         Fault, OneController!history, history
<1> QED
  BY <1>1, <1>2, <1>3, <1>4, <1>5, <1>6, <1>7, <1>8, <1>9, <1>10, <1>11, <1>12, <1>13, <1>14, <1>15, <1>16
     DEF OneController!ReconcileStep, ReconcileStep

-----------------------------------------------------------------------------
\* The world, and a controller that stops

\* A crash is one of the leading controller, if any.
LEMMA WorldIsShared ==
    ASSUME HandoverInv, leaderElect, World
    PROVE  OneController!Environment
<1> USE DEF World, peer, peerReconcile, OneController!Environment, Leading, reconcile,
            OneController!reconcile
<1>1. CASE Crash
  <2>1. ~peerRuns /\ ~peerRuns'
    BY <1>1 DEF HandoverInv, Crash
  <2> QED
    BY <1>1, <2>1, SamePatches
       DEF Crash, OneController!Crash, EndReconcile, OneController!EndReconcile,
           Fault, OneController!Fault, world, OneController!world,
           history, OneController!history
<1>2. CASE CacheSync
  BY <1>2 DEF CacheSync, OneController!CacheSync, history, OneController!history
<1>3. CASE Tick
  BY <1>3 DEF Tick, OneController!Tick, history, OneController!history
<1>4. CASE VPAChanges
  BY <1>4 DEF VPAChanges, OneController!VPAChanges, history, OneController!history
<1>5. CASE ClusterStopsRunning
  BY <1>5 DEF ClusterStopsRunning, OneController!ClusterStopsRunning,
              EnvironmentUnchanged, OneController!EnvironmentUnchanged,
              NoFault, OneController!NoFault, history, OneController!history
<1>6. CASE ClusterRuns
  BY <1>6 DEF ClusterRuns, OneController!ClusterRuns,
              EnvironmentUnchanged, OneController!EnvironmentUnchanged,
              NoFault, OneController!NoFault, history, OneController!history
<1>7. CASE ClusterDeleted
  BY <1>7 DEF ClusterDeleted, OneController!ClusterDeleted, NoCluster,
              OneController!NoCluster, Fault, OneController!Fault,
              EnvironmentUnchanged, OneController!EnvironmentUnchanged,
              history, OneController!history
<1>8. CASE ClusterCreated
  BY <1>8 DEF ClusterCreated, OneController!ClusterCreated,
              NoFault, OneController!NoFault,
              EnvironmentUnchanged, OneController!EnvironmentUnchanged,
              history, OneController!history
<1>9. ASSUME NEW t \in Targets, RolloutProgresses(t)
      PROVE  OneController!Environment
  <2>1. OneController!RolloutStates = RolloutStates /\ OneController!Targets = Targets
    BY DEF RolloutStates, OneController!RolloutStates, Targets, OneController!Targets
  <2>2. OneController!RolloutProgresses(t)
    BY <1>9, <2>1
       DEF RolloutProgresses, OneController!RolloutProgresses,
           history, OneController!history
  <2> QED
    BY <2>1, <2>2
<1> QED
  BY <1>1, <1>2, <1>3, <1>4, <1>5, <1>6, <1>7, <1>8, <1>9 DEF Environment

\* Stopping between two reconciles is nothing, in one a crash: the new
\* controller has not begun.
LEMMA HandoverIsCrash ==
    ASSUME HandoverInv, leaderElect, OldStops
    PROVE  OneController!Crash \/ UNCHANGED OneController!vars
<1> USE DEF OldStops, Leading, world, reconcile, history, OneController!world,
            OneController!history
<1>1. /\ peerRuns /\ ~peerRuns'
      /\ pc' = "idle" /\ AtRest(pol', base', cur', next')
  BY DEF HandoverInv, AtRest
<1>2. CASE peerPc = "idle"
  <2>1. AtRest(peerPol, peerBase, peerCur, peerNext)
    BY <1>2 DEF HandoverInv
  <2> QED
    BY <1>1, <1>2, <2>1
       DEF AtRest, NoFault, OneController!vars, OneController!reconcile
<1>3. CASE peerPc # "idle"
  BY <1>1, <1>3, SamePatches
     DEF AtRest, OneController!Crash, OneController!EndReconcile,
         Fault, OneController!Fault
<1> QED
  BY <1>2, <1>3

-----------------------------------------------------------------------------
\* One controller at a time

\* A controller that is done holds nothing.
LEMMA OldComesToRest ==
    ASSUME Peer!ReconcileStep, peerPc' = "idle"
    PROVE  AtRest(peerPol', peerBase', peerCur', peerNext')
<1> USE DEF Peer!GoTo, Peer!Return
<1>1. CASE Peer!Persist
  BY <1>1, SamePatches DEF Peer!Persist, Peer!EndReconcile, AtRest
<1>2. CASE Peer!Begin \/ Peer!GetCurrentMemory \/ Peer!Bootstrap
  BY <1>2 DEF Peer!Begin, Peer!GetCurrentMemory, Peer!Bootstrap
<1>3. CASE Peer!ReadNoRecommendation \/ Peer!WindowEvaluationFails \/ Peer!ResumeRun
           \/ Peer!ConsiderRun
  BY <1>3 DEF Peer!ReadNoRecommendation, Peer!WindowEvaluationFails, Peer!ResumeRun,
              Peer!ConsiderRun
<1>4. CASE Peer!CheckHealthGate \/ Peer!ChangeGateBlocks \/ Peer!StartMaintenance
  BY <1>4 DEF Peer!CheckHealthGate, Peer!ChangeGateBlocks, Peer!StartMaintenance
<1>5. CASE Peer!MonitorCluster \/ Peer!TriggerPostAction \/ Peer!MonitorRollout
  BY <1>5 DEF Peer!MonitorCluster, Peer!TriggerPostAction, Peer!MonitorRollout
<1>6. CASE Peer!HandleWindowExpired \/ Peer!CheckExpiredRollout
  BY <1>6 DEF Peer!HandleWindowExpired, Peer!CheckExpiredRollout
<1> QED
  BY <1>1, <1>2, <1>3, <1>4, <1>5, <1>6 DEF Peer!ReconcileStep

LEMMA HandoverKept ==
    ASSUME HandoverInv, [ReplicasNext]_replicaVars
    PROVE  HandoverInv'
<1> USE DEF HandoverInv, AtRest, peer, peerReconcile, reconcile
<1>1. CASE NewReconciles
  BY <1>1 DEF NewReconciles, IsLeader
<1>2. CASE OldReconciles
  BY <1>2, OldComesToRest DEF OldReconciles
<1>3. CASE OldStops
  BY <1>3, SamePatches DEF OldStops, Peer!EndReconcile
<1>4. CASE World
  <2>1. Crash \/ UNCHANGED reconcile
    BY <1>4
       DEF World, Environment, CacheSync, Tick, VPAChanges, ClusterStopsRunning,
           ClusterRuns, ClusterDeleted, ClusterCreated, EnvironmentUnchanged,
           RolloutProgresses
  <2> QED
    BY <1>4, <2>1 DEF World, Crash
<1>5. CASE UNCHANGED replicaVars
  BY <1>5 DEF replicaVars, vars
<1> QED
  BY <1>1, <1>2, <1>3, <1>4, <1>5 DEF ReplicasNext

\* With leader election, a step of the two is one of a single controller.
LEMMA OneLeads ==
    ASSUME HandoverInv, leaderElect, [ReplicasNext]_replicaVars
    PROVE  [OneController!Next]_(OneController!vars)
<1>1. CASE NewReconciles
  BY <1>1, NewLeads DEF NewReconciles, IsLeader, peer, OneController!Next
<1>2. CASE OldReconciles
  BY <1>2, OldLeads DEF OldReconciles, OneController!Next
<1>3. CASE OldStops
  BY <1>3, HandoverIsCrash DEF OneController!Next, OneController!Environment
<1>4. CASE World
  BY <1>4, WorldIsShared DEF OneController!Next
<1>5. CASE UNCHANGED replicaVars
  BY <1>5
     DEF replicaVars, vars, peer, peerReconcile, world, reconcile, history, Leading,
         OneController!vars, OneController!world, OneController!reconcile,
         OneController!history
<1> QED
  BY <1>1, <1>2, <1>3, <1>4, <1>5 DEF ReplicasNext

LEMMA StartsAlike ==
    ASSUME ReplicasInit
    PROVE  HandoverInv /\ OneController!Init
<1>1. HandoverInv
  BY SamePatches DEF ReplicasInit, Init, Peer!Init, HandoverInv, AtRest
<1>2. OneController!NoCluster = NoCluster /\ OneController!Targets = Targets
  BY DEF OneController!NoCluster, NoCluster, OneController!Targets, Targets
<1>3. Peer!NoCluster = NoCluster /\ Peer!Targets = Targets
  BY DEF Peer!NoCluster, NoCluster, Peer!Targets, Targets
<1>4. OneController!Init
  BY <1>2, <1>3, SamePatches DEF ReplicasInit, Peer!Init, OneController!Init, Leading
<1> QED
  BY <1>1, <1>4

\* With leader election a deployment of two controllers, of which one may stop
\* at any call, implements a single one.
THEOREM TwoControllersAreOne == ReplicasSpec => ImplementsOneController
<1>1. ReplicasInit => HandoverInv /\ OneController!Init
  BY StartsAlike
<1>2. HandoverInv /\ [ReplicasNext]_replicaVars => HandoverInv'
  BY HandoverKept
<1>3. HandoverInv /\ [ReplicasNext]_replicaVars
      => [leaderElect => OneController!Next]_(OneController!vars)
  BY OneLeads
<1> QED
  BY <1>1, <1>2, <1>3, PTL DEF ReplicasSpec, ImplementsOneController
=============================================================================
