------------------------------ MODULE RunProofs ------------------------------
(***************************************************************************)
(* What a maintenance run does to the cluster and to the workloads, and     *)
(* that the reconcile loop implements MaintenanceRun.                       *)
(***************************************************************************)
EXTENDS HistoryProofs

-----------------------------------------------------------------------------
\* Runs before and after a reconcile

\* Whether a run is in progress after one reconcile, and which.
LEMMA RunAfter ==
    ASSUME NEW p \in PolicyStatusType, NEW q \in PolicyStatusType, NEW t \in Nat,
           Orderly(p)
    PROVE  /\ Skipped(p, q, t) \/ NotStarted(p, q) \/ Failed(p, q) \/ Completed(p, q)
              => ~RunInProgress(q)
           /\ Started(p, q, t) => /\ RunInProgress(q)
                                  /\ Newest(q).phase = "PatchApplied"
                                  /\ Newest(q).appliedMemory \in Nat
           /\ Advanced(p, q) => /\ RunInProgress(q)
                                /\ Newest(q).phase = "PostActionsTriggered"
                                /\ Newest(q).appliedMemory = Newest(p).appliedMemory
<1> DEFINE h == p.maintenanceHistory
           g == q.maintenanceHistory
<1>1. /\ h \in Seq(MaintenanceRecord) /\ g \in Seq(MaintenanceRecord)
      /\ Len(h) <= MaxHistory
      /\ g # << >> <=> Len(g) # 0
  BY HistoryRecords DEF Orderly
<1>2. Newest(q) = g[Len(g)] /\ (RunInProgress(q) <=> g # << >> /\ Newest(q).status = "InProgress")
  BY DEF Newest, RunInProgress
<1>3. RunInProgress(p) => Newest(p) \in MaintenanceRecord /\ Newest(p).status = "InProgress"
  BY NewestIsRecord
<1>4. ASSUME NEW rec, Grown(h, g, rec)
      PROVE  g # << >> /\ Newest(q) = rec
  <2> HIDE DEF h, g
  <2>1. Len(g) \in 1 .. MaxHistory /\ g[Len(g)] = rec
    BY <1>1, <1>4, GrownRecords
  <2> QED
    BY <1>1, <1>2, <2>1, MaxHistoryAssumption
<1>5. ASSUME NEW rec, NewestReplaced(h, g, rec)
      PROVE  g # << >> /\ Newest(q) = rec
  <2> HIDE DEF h, g
  <2>1. Len(h) \in Nat \ {0} /\ Len(g) = Len(h) /\ g[Len(g)] = rec
    BY <1>1, <1>5, ReplacedRecords
  <2> QED
    BY <1>1, <1>2, <2>1
<1>6. Started(p, q, t) => /\ RunInProgress(q)
                          /\ Newest(q).phase = "PatchApplied"
                          /\ Newest(q).appliedMemory \in Nat
  <2> SUFFICES ASSUME Started(p, q, t)
               PROVE  /\ RunInProgress(q)
                      /\ Newest(q).phase = "PatchApplied"
                      /\ Newest(q).appliedMemory \in Nat
    OBVIOUS
  <2> DEFINE memory == Newest(q).appliedMemory
             rec == [startedAt |-> t, status |-> "InProgress",
                     phase |-> "PatchApplied", appliedMemory |-> memory]
  <2>1. memory \in Nat /\ Grown(h, g, rec)
    BY DEF Started
  <2> HIDE DEF memory
  <2>2. rec.status = "InProgress" /\ rec.phase = "PatchApplied"
    OBVIOUS
  <2> HIDE DEF rec
  <2>3. g # << >> /\ Newest(q) = rec
    BY <1>4, <2>1
  <2> QED
    BY <1>2, <2>1, <2>2, <2>3 DEF memory
<1>7. Advanced(p, q) => /\ RunInProgress(q)
                        /\ Newest(q).phase = "PostActionsTriggered"
                        /\ Newest(q).appliedMemory = Newest(p).appliedMemory
  <2> SUFFICES ASSUME Advanced(p, q)
               PROVE  /\ RunInProgress(q)
                      /\ Newest(q).phase = "PostActionsTriggered"
                      /\ Newest(q).appliedMemory = Newest(p).appliedMemory
    OBVIOUS
  <2> DEFINE rec == [Newest(p) EXCEPT !.phase = "PostActionsTriggered"]
  <2>1. RunInProgress(p) /\ NewestReplaced(h, g, rec)
    BY DEF Advanced
  <2>2. /\ rec.status = "InProgress" /\ rec.phase = "PostActionsTriggered"
        /\ rec.appliedMemory = Newest(p).appliedMemory
    BY <1>3, <2>1 DEF MaintenanceRecord
  <2> HIDE DEF rec
  <2>3. g # << >> /\ Newest(q) = rec
    BY <1>5, <2>1
  <2> QED
    BY <1>2, <2>2, <2>3
<1>8. ASSUME NEW outcome \in {"Failed", "Completed"}, RunInProgress(p),
             NewestReplaced(h, g, [Newest(p) EXCEPT !.status = outcome])
      PROVE  ~RunInProgress(q)
  <2> DEFINE rec == [Newest(p) EXCEPT !.status = outcome]
  <2>1. rec.status # "InProgress"
    BY <1>3, <1>8 DEF MaintenanceRecord
  <2> HIDE DEF rec
  <2>2. Newest(q) = rec
    BY <1>5, <1>8 DEF rec
  <2> QED
    BY <1>2, <2>1, <2>2
<1>9. Failed(p, q) \/ Completed(p, q) => ~RunInProgress(q)
  BY <1>8 DEF Failed, Completed
<1>10. NotStarted(p, q) => ~RunInProgress(q)
  BY DEF NotStarted, RunInProgress, Newest
<1>11. Skipped(p, q, t) => ~RunInProgress(q)
  <2> SUFFICES ASSUME Skipped(p, q, t) PROVE ~RunInProgress(q)
    OBVIOUS
  <2> DEFINE rec == [startedAt |-> t, status |-> "Skipped",
                     phase |-> "", appliedMemory |-> NoMemory]
  <2>1. Grown(h, g, rec)
    BY DEF Skipped
  <2>2. rec.status = "Skipped"
    OBVIOUS
  <2> HIDE DEF rec
  <2>3. Newest(q) = rec
    BY <1>4, <2>1
  <2> QED
    BY <1>2, <2>2, <2>3
<1> QED
  BY <1>6, <1>7, <1>9, <1>10, <1>11
-----------------------------------------------------------------------------
\* What the gates look at

\* What a recommendation is compared with is a recommendation.
LEMMA ConsideredTarget ==
    ASSUME TypeOK, RecommendationReady
    PROVE  ClearStaleCondition(Synced).memoryTarget \in Nat
<1>1. /\ Synced \in PolicyStatusType
      /\ Synced.memoryTarget = Recommendation(vpa) /\ vpa \in Nat
  BY SyncedType, SyncedCarried
<1>2. Synced.memoryTarget \in Nat
  BY <1>1, RecommendationType
<1>3. "MaintenanceInProgress" \in ConditionTypes
  BY DEF ConditionTypes
<1> QED
  BY <1>1, <1>2, <1>3, SetConditionFields DEF ClearStaleCondition

LEMMA MemoryInvInit ==
    ASSUME "delete" \notin Faults
    PROVE  Init => MemoryInv
<1> SUFFICES ASSUME Init PROVE MemoryInv
  OBVIOUS
<1>1. cluster.exists /\ pc = "idle"
  BY DEF Init
<1> QED
  BY <1>1 DEF MemoryInv, StartCalls

LEMMA MemoryInvNext ==
    ASSUME "delete" \notin Faults, TypeInv, MemoryInv, [Next]_vars
    PROVE  MemoryInv'
<1> USE DEF world, reconcile
<1>1. /\ cluster.exists /\ cluster \in ClusterType /\ TypeOK
      /\ pc \in {"readVPA", "healthGate", "start"} => cur = cluster.memory
      /\ pc \in {"healthGate", "start"} => pol.memoryTarget \in Nat
  BY DEF MemoryInv, StartCalls, TypeInv, TypeOK
<1> SUFFICES /\ cluster'.exists
             /\ pc' \in {"readVPA", "healthGate", "start"} => cur' = cluster'.memory
             /\ pc' \in {"healthGate", "start"} => pol'.memoryTarget \in Nat
  BY DEF MemoryInv, StartCalls
<1>2. CASE GetCurrentMemory
  BY <1>1, <1>2 DEF GetCurrentMemory, GoTo, Return
<1>3. CASE Bootstrap \/ StartMaintenance
  <2>1. /\ pc' = "persist"
        /\ cluster' = cluster
           \/ \E memory : cluster' = [cluster EXCEPT !.memory = memory, !.updated = FALSE]
    BY <1>3 DEF Bootstrap, StartMaintenance, PatchResources, GoTo, Return
  <2> QED
    BY <1>1, <2>1 DEF ClusterType
<1>4. CASE ConsiderRun
  <2>1. /\ pc = "readVPA" /\ RecommendationReady
        /\ pol' = ClearStaleCondition(Synced)
        /\ UNCHANGED <<cluster, cur>>
    BY <1>4 DEF ConsiderRun, GoTo
  <2> QED
    BY <1>1, <2>1, ConsideredTarget
<1>5. CASE CheckHealthGate
  <2>1. /\ pc = "healthGate" /\ UNCHANGED <<cluster, cur>>
        /\ pc' \in {"persist", "start"} /\ (pc' = "start" => pol' = pol)
    BY <1>5 DEF CheckHealthGate, GoTo, Return
  <2> QED
    BY <1>1, <2>1
<1>6. CASE \/ Begin \/ ReadNoRecommendation \/ WindowEvaluationFails \/ ResumeRun
           \/ ChangeGateBlocks \/ MonitorCluster \/ TriggerPostAction \/ MonitorRollout
           \/ HandleWindowExpired \/ CheckExpiredRollout \/ Persist \/ Crash
  <2>1. pc' \notin {"readVPA", "healthGate", "start"} /\ cluster' = cluster
    BY <1>6 DEF Begin, ReadNoRecommendation, WindowEvaluationFails, ResumeRun,
                ChangeGateBlocks, MonitorCluster, TriggerPostAction, MonitorRollout,
                HandleWindowExpired, CheckExpiredRollout, Persist, Crash, EndReconcile,
                GoTo, Return
  <2> QED
    BY <1>1, <2>1
<1>7. CASE \/ CacheSync \/ Tick \/ VPAChanges \/ \E t \in Targets : RolloutProgresses(t)
           \/ UNCHANGED vars
  <2>1. UNCHANGED <<cluster, pc, cur, pol>>
    BY <1>7 DEF CacheSync, Tick, VPAChanges, RolloutProgresses, vars
  <2> QED
    BY <1>1, <2>1
<1>8. CASE ClusterStopsRunning \/ ClusterRuns \/ ClusterDeleted \/ ClusterCreated
  <2>1. /\ cluster'.exists /\ cluster'.memory = cluster.memory
        /\ UNCHANGED <<pc, cur, pol>>
    BY <1>1, <1>8 DEF ClusterStopsRunning, ClusterRuns, ClusterDeleted, ClusterCreated,
                      Fault, EnvironmentUnchanged, ClusterType
  <2> QED
    BY <1>1, <2>1
<1> QED
  BY <1>2, <1>3, <1>4, <1>5, <1>6, <1>7, <1>8 DEF Next, ReconcileStep, Environment

\* As long as nobody deletes the cluster, and however stale the reads of the
\* policy are, a run patches the cluster only for a change of its memory that
\* exceeds both thresholds.
THEOREM NoNeedlessPatches ==
    ASSUME "delete" \notin Faults
    PROVE  Spec => NoNeedlessPatch
<1> DEFINE d == AbsDiff(cluster'.memory, cluster.memory)
           needed == MaintenancePatch /\ cluster.memory # NoMemory
                     => /\ d > AbsoluteThreshold
                        /\ 100 * d > RelativeThreshold * cluster.memory
<1>1. ASSUME TypeInv, MemoryInv, [Next]_vars, MaintenancePatch, cluster.memory # NoMemory
      PROVE  d > AbsoluteThreshold /\ 100 * d > RelativeThreshold * cluster.memory
  <2>1. StartMaintenance
    BY <1>1 DEF MaintenancePatch, Next, ReconcileStep, Environment, Begin,
                GetCurrentMemory, Bootstrap, ReadNoRecommendation, WindowEvaluationFails,
                ResumeRun, ConsiderRun, CheckHealthGate, ChangeGateBlocks, MonitorCluster,
                TriggerPostAction, MonitorRollout, HandleWindowExpired,
                CheckExpiredRollout, Persist, Crash, CacheSync, Tick, VPAChanges,
                ClusterStopsRunning, ClusterRuns, ClusterDeleted, ClusterCreated,
                RolloutProgresses, EnvironmentUnchanged, EndReconcile, vars, world,
                reconcile
  <2>2. /\ cur = cluster.memory /\ pol.memoryTarget \in Nat
        /\ cluster \in ClusterType
    BY <1>1 DEF MemoryInv, StartCalls, MaintenancePatch, TypeInv, TypeOK
  <2>3. cluster'.memory = pol.memoryTarget
    BY <1>1, <2>1, <2>2 DEF StartMaintenance, PatchResources, MaintenancePatch, ClusterType
  <2>4. ChangeGate(cluster.memory, cluster'.memory) = ""
    BY <1>1, <2>1, <2>2, <2>3 DEF StartMaintenance, Gate
  <2>5. cluster.memory \in Nat /\ cluster'.memory \in Nat
    BY <1>1, <2>2, <2>3 DEF ClusterType, OptionalMemory
  <2>6. d > AbsoluteThreshold /\ d * 100 > RelativeThreshold * cluster.memory
    BY <2>4, <2>5, GatesAdmitOnlyChanges
  <2>7. d \in Nat
    BY <2>5, AbsDiffType
  <2> HIDE DEF d
  <2>8. d * 100 = 100 * d
    BY <2>7
  <2> QED
    BY <2>6, <2>8
<1>2. TypeInv /\ MemoryInv /\ [Next]_vars => [needed]_vars
  BY <1>1
<1>3. Init => TypeInv /\ MemoryInv
  BY TypeInvInit, MemoryInvInit
<1>4. TypeInv /\ MemoryInv /\ [Next]_vars => (TypeInv /\ MemoryInv)'
  BY TypeInvNext, MemoryInvNext
<1>5. [][needed]_vars <=> NoNeedlessPatch
  BY DEF NoNeedlessPatch
<1> HIDE DEF needed
<1> QED
  BY <1>2, <1>3, <1>4, <1>5, PTL DEF Spec
-----------------------------------------------------------------------------
\* What a run does to the cluster

\* What a call leaves in hand: what it found, no run in progress, a run that is
\* started with the memory the cluster has got, or one whose last workload is
\* restarted.
LEMMA CallOutcome ==
    ASSUME TypeInv, ConsistencyInv, ReconcileInv, pc \notin {"idle", "persist"},
           ReconcileStep
    PROVE  /\ UNCHANGED <<status, base>>
           /\ \/ Carried(pol, pol')
              \/ ~RunInProgress(pol')
              \/ /\ pc = "start"
                 /\ RunInProgress(pol')
                 /\ Newest(pol').appliedMemory = cluster'.memory
              \/ /\ pc = "trigger" /\ next = Len(PostActions)
                 /\ Advanced(pol, pol')
                 /\ restarted' = restarted \cup {PostActions[next]}
                 /\ UNCHANGED cluster
<1> USE DEF world
<1>1. /\ TypeOK /\ pol \in PolicyStatusType /\ Orderly(pol) /\ clock \in Nat
      /\ cluster \in ClusterType
      /\ pc \in RunCalls => RunInProgress(pol) /\ OpenRun(pol) = Newest(pol)
      /\ pc \in StartCalls => ~RunInProgress(pol)
      /\ Newest(pol) = Newest(base)
  BY InHand DEF TypeInv, TypeOK
<1>2. Carried(pol, pol)
  BY DEF Carried, SameCondition
<1>3. UNCHANGED <<status, base>>
  BY DEF ReconcileStep, Begin, GetCurrentMemory, Bootstrap, ReadNoRecommendation,
         WindowEvaluationFails, ResumeRun, ConsiderRun, CheckHealthGate,
         ChangeGateBlocks, StartMaintenance, MonitorCluster, TriggerPostAction,
         MonitorRollout, HandleWindowExpired, CheckExpiredRollout, Persist
<1>4. pc \in RunCalls => ~RunInProgress(FailMaintenance(pol))
  BY <1>1, FailMaintenanceType, FailMaintenanceReconciles, RunAfter
<1>5. /\ pc \in RunCalls
      /\ Newest(pol).phase =
           IF PostActions = << >> THEN "PatchApplied" ELSE "PostActionsTriggered"
      => ~RunInProgress(CompleteMaintenance(pol))
  <2> SUFFICES ASSUME pc \in RunCalls,
                      Newest(pol).phase =
                        IF PostActions = << >> THEN "PatchApplied"
                                               ELSE "PostActionsTriggered"
               PROVE  ~RunInProgress(CompleteMaintenance(pol))
    OBVIOUS
  <2>1. HasOpenRun(pol)
    BY DEF TypeInv
  <2> QED
    BY <1>1, <2>1, CompleteMaintenanceType, CompleteMaintenanceReconciles, RunAfter
<1>6. pc \in RunCalls =>
        /\ Newest(pol).phase \in {"PatchApplied", "PostActionsTriggered"}
        /\ Newest(pol).phase = "PostActionsTriggered" => PostActions # << >>
  BY <1>1 DEF Orderly
<1>7. CASE GetCurrentMemory
  BY <1>2, <1>3, <1>7 DEF GetCurrentMemory, GoTo, Return
<1>8. CASE Bootstrap
  <2>1. pol' = pol \/ pol' = [pol EXCEPT !.currentMemory = InitialMemory]
    BY <1>8 DEF Bootstrap, GoTo, Return
  <2>2. Carried(pol, [pol EXCEPT !.currentMemory = InitialMemory])
    BY <1>1, MemoryFields
  <2> QED
    BY <1>2, <1>3, <2>1, <2>2
<1>9. CASE ReadNoRecommendation
  <2>1. \/ pol' = pol
        \/ \E why : pol' = SetCondition(pol, "VPARecommendationReady", "False", why)
    BY <1>9 DEF ReadNoRecommendation, GoTo, Return
  <2>2. ASSUME NEW why,
               pol' = SetCondition(pol, "VPARecommendationReady", "False", why)
        PROVE  Carried(pol, pol')
    BY <1>1, <2>2, SetConditionFields, SetConditionValue
       DEF Carried, SameCondition, ConditionTypes
  <2> QED
    BY <1>2, <1>3, <2>1, <2>2
<1>10. CASE WindowEvaluationFails \/ ResumeRun
  <2>1. pol' = Synced /\ RecommendationReady
    BY <1>10 DEF WindowEvaluationFails, ResumeRun, GoTo, Return
  <2> QED
    BY <1>1, <1>3, <2>1, SyncedCarried
<1>11. CASE ConsiderRun
  <2>1. pol' = ClearStaleCondition(Synced) /\ RecommendationReady /\ ~HasOpenRun(Synced)
    BY <1>11 DEF ConsiderRun, GoTo
  <2>2. Synced \in PolicyStatusType /\ Carried(pol, Synced)
    BY <1>1, <2>1, SyncedType, SyncedCarried
  <2>3. Orderly(Synced)
    BY <1>1, <2>2, CarriedRun
  <2>4. pol' = Synced
    BY <2>1, <2>2, <2>3, OpenRunIsNewest DEF ClearStaleCondition, Orderly
  <2> QED
    BY <1>3, <2>2, <2>4
<1>12. CASE CheckHealthGate \/ ChangeGateBlocks \/ StartMaintenance
  <2>1. pc \in StartCalls
    BY <1>12 DEF CheckHealthGate, ChangeGateBlocks, StartMaintenance, StartCalls
  <2>2. /\ ~RunInProgress(pol)
        /\ WindowIsFree(base.maintenanceHistory, clock)
        /\ pol.maintenanceHistory = base.maintenanceHistory
        /\ pol.memoryTarget \in Nat
    BY <1>1, <2>1, InHand DEF ReconcileInv
  <2>3. /\ Observed \in PolicyStatusType /\ Carried(pol, Observed)
        /\ Observed.memoryTarget = pol.memoryTarget
    BY <1>1, ObservedType, ObservedCarried
  <2>4. /\ Orderly(Observed) /\ ~RunInProgress(Observed)
        /\ WindowIsFree(Observed.maintenanceHistory, clock)
    BY <1>1, <2>2, <2>3, CarriedRun DEF Carried
  <2>5. CASE CheckHealthGate
    <3>1. pol' = pol \/ pol' = SkipMaintenance(pol)
      BY <2>5 DEF CheckHealthGate, GoTo, Return
    <3>2. ~RunInProgress(SkipMaintenance(pol))
      BY <1>1, <2>2, SkipMaintenanceType, SkipMaintenanceReconciles, RunAfter
    <3> QED
      BY <1>2, <1>3, <3>1, <3>2
  <2>6. CASE ChangeGateBlocks
    <3>1. pol' = SetCondition(SkipMaintenance(Observed),
                              "MaintenanceInProgress", "False", Gate)
      BY <2>6 DEF ChangeGateBlocks, GoTo, Return
    <3>2. Gate \in ConditionReasons /\ "MaintenanceInProgress" \in ConditionTypes
      BY DEF Gate, ChangeGate, ConditionReasons, ConditionTypes
    <3>3. /\ SkipMaintenance(Observed) \in PolicyStatusType
          /\ Skipped(Observed, SkipMaintenance(Observed), clock)
      BY <1>1, <2>3, <2>4, SkipMaintenanceType, SkipMaintenanceReconciles
    <3>4. ~RunInProgress(SkipMaintenance(Observed))
      BY <1>1, <2>3, <2>4, <3>3, RunAfter
    <3>5. ~RunInProgress(pol')
      BY <3>1, <3>2, <3>3, <3>4, SetConditionFields DEF RunInProgress, Newest
    <3> QED
      BY <1>3, <3>5
  <2>7. CASE StartMaintenance
    <3>1. pc = "start"
      BY <2>7 DEF StartMaintenance
    <3>2. CASE pol' = FailMaintenance(Observed)
      BY <1>1, <1>3, <2>3, <2>4, <3>2, FailMaintenanceType, FailMaintenanceReconciles,
         RunAfter
    <3>3. CASE pol' = RecordStart(Observed) /\ PatchResources(pol.memoryTarget, TRUE, TRUE)
      <4>1. cluster' = [cluster EXCEPT !.memory = pol.memoryTarget, !.updated = FALSE]
        BY <3>3 DEF PatchResources
      <4>2. cluster'.memory = pol.memoryTarget
        BY <1>1, <4>1 DEF ClusterType
      <4>3. /\ RunInProgress(pol')
            /\ Newest(pol').appliedMemory = pol.memoryTarget
        BY <1>1, <2>2, <2>3, <2>4, <3>3, RecordStartReconciles
      <4> QED
        BY <1>3, <3>1, <4>2, <4>3
    <3> QED
      BY <2>7, <3>2, <3>3 DEF StartMaintenance, GoTo, Return
  <2> QED
    BY <1>12, <2>5, <2>6, <2>7
<1>13. CASE MonitorCluster
  <2>1. pc \in RunCalls /\ OpenRun(pol).phase = "PatchApplied"
    BY <1>13 DEF MonitorCluster, RunCalls
  <2>2. \/ pol' = pol
        \/ pol' = CompleteMaintenance(pol) /\ PostActions = << >>
    BY <1>13, Zenon DEF MonitorCluster, GoTo, Return
  <2> QED
    BY <1>1, <1>2, <1>3, <1>5, <2>1, <2>2
<1>14. CASE MonitorRollout \/ CheckExpiredRollout
  <2>1. pc \in RunCalls /\ Newest(pol).phase = "PostActionsTriggered"
    <3>1. CASE MonitorRollout
      BY <1>1, <3>1 DEF MonitorRollout, RunCalls
    <3>2. CASE CheckExpiredRollout
      BY <1>1, <3>2 DEF CheckExpiredRollout, RunCalls, ReconcileInv
    <3> QED
      BY <1>14, <3>1, <3>2
  <2>2. pol' \in {pol, FailMaintenance(pol), CompleteMaintenance(pol)}
    BY <1>14 DEF MonitorRollout, CheckExpiredRollout, GoTo, Return
  <2> QED
    BY <1>1, <1>2, <1>3, <1>4, <1>5, <1>6, <2>1, <2>2
<1>15. CASE HandleWindowExpired
  <2>1. pc \in RunCalls
    BY <1>15 DEF HandleWindowExpired, RunCalls
  <2>2. \/ pol' \in {pol, FailMaintenance(pol)}
        \/ /\ pol' = CompleteMaintenance(pol)
           /\ OpenRun(pol).phase # "PostActionsTriggered" /\ PostActions = << >>
    BY <1>15 DEF HandleWindowExpired, GoTo, Return
  <2> QED
    BY <1>1, <1>2, <1>3, <1>4, <1>5, <1>6, <2>1, <2>2
<1>16. CASE TriggerPostAction
  <2>1. pc = "trigger" /\ pc \in RunCalls /\ UNCHANGED cluster
    BY <1>16 DEF TriggerPostAction, RunCalls
  <2>2. Newest(pol).phase = "PatchApplied" /\ PostActions # << >>
    BY <1>1, <2>1 DEF ReconcileInv
  <2>3. \/ pol' \in {pol, FailMaintenance(pol)}
        \/ /\ pol' = AdvancePhase(pol) /\ next = Len(PostActions)
           /\ restarted' = restarted \cup {PostActions[next]}
    BY <1>16 DEF TriggerPostAction, Restart, GoTo, Return
  <2>4. Advanced(pol, AdvancePhase(pol))
    BY <1>1, <2>1, <2>2, AdvancePhaseReconciles
  <2> QED
    BY <1>2, <1>3, <1>4, <2>1, <2>3, <2>4
<1> QED
  BY <1>7, <1>8, <1>9, <1>10, <1>11, <1>12, <1>13, <1>14, <1>15, <1>16
     DEF ReconcileStep, Begin, Persist
\* The memory of the cluster changes in a bootstrap or when a run is started,
\* as long as nobody deletes the cluster.
LEMMA WhoPatches ==
    ASSUME "delete" \notin Faults, TypeInv, MemoryInv, [Next]_vars
    PROVE  cluster'.memory = cluster.memory \/ (Bootstrap \/ StartMaintenance)
<1> USE DEF world, reconcile
<1>1. CASE ReconcileStep
  BY <1>1 DEF ReconcileStep, Begin, GetCurrentMemory, ReadNoRecommendation,
              WindowEvaluationFails, ResumeRun, ConsiderRun, CheckHealthGate,
              ChangeGateBlocks, MonitorCluster, TriggerPostAction, MonitorRollout,
              HandleWindowExpired, CheckExpiredRollout, Persist
<1>2. CASE Crash \/ CacheSync \/ Tick \/ VPAChanges \/ (\E t \in Targets : RolloutProgresses(t))
           \/ UNCHANGED vars
  BY <1>2 DEF Crash, CacheSync, Tick, VPAChanges, RolloutProgresses, vars
<1>3. CASE ClusterStopsRunning \/ ClusterRuns \/ ClusterDeleted \/ ClusterCreated
  BY <1>3 DEF ClusterStopsRunning, ClusterRuns, ClusterDeleted, ClusterCreated, Fault,
              MemoryInv, TypeInv, TypeOK, ClusterType
<1> QED
  BY <1>1, <1>2, <1>3 DEF Next, Environment

\* No run is in progress in the status that the program starts with, or drops.
LEMMA EmptyStatusIdle == ~RunInProgress(EmptyStatus)
BY DEF RunInProgress, EmptyStatus

LEMMA ClusterInvInit == Init => ClusterInv
BY EmptyStatusIdle DEF Init, ClusterInv

LEMMA ClusterInvNext ==
    ASSUME "stale" \notin Faults, "delete" \notin Faults, TypeInv, ConsistencyInv,
           ReconcileInv, MemoryInv, ClusterInv, [Next]_vars
    PROVE  ClusterInv'
<1> USE DEF world, reconcile
<1>1. /\ Orderly(status)
      /\ RunInProgress(status) => Newest(status).appliedMemory = cluster.memory
      /\ RunInProgress(pol) => Newest(pol).appliedMemory = cluster.memory
      /\ pc = "bootstrap" => ~RunInProgress(base)
  BY DEF ReconcileInv, ClusterInv
<1>2. CASE Begin
  <2>1. pol' = status /\ pc' = "getMemory" /\ UNCHANGED <<status, cluster>>
    BY <1>2 DEF Begin, GoTo, ConsistencyInv
  <2> QED
    BY <1>1, <2>1 DEF ClusterInv
<1>3. CASE ReconcileStep /\ pc \notin {"idle", "persist"}
  <2>1. /\ base = status
        /\ RunInProgress(pol) <=> RunInProgress(base)
        /\ pc \in {"start", "bootstrap"} => ~RunInProgress(base)
    BY <1>1, <1>3, InHand DEF StartCalls
  <2>2. cluster'.memory = cluster.memory \/ pc \in {"start", "bootstrap"}
    BY WhoPatches DEF Bootstrap, StartMaintenance
  <2>3. UNCHANGED <<status, base>>
    BY <1>3, CallOutcome
  <2>4. RunInProgress(status') => Newest(status').appliedMemory = cluster'.memory
    BY <1>1, <2>1, <2>2, <2>3
  <2>5. RunInProgress(pol') => Newest(pol').appliedMemory = cluster'.memory
    <3>1. CASE Carried(pol, pol')
      BY <1>1, <2>1, <2>2, <3>1, CarriedRun
    <3>2. CASE Advanced(pol, pol') /\ UNCHANGED cluster
      <4>1. pol \in PolicyStatusType /\ Orderly(pol) /\ clock \in Nat /\ RunInProgress(pol)
        BY <1>3, <3>2, InHand DEF Advanced
      <4>2. pol' \in PolicyStatusType
        BY TypeInvNext DEF TypeInv, TypeOK
      <4>3. Newest(pol').appliedMemory = Newest(pol).appliedMemory
        BY <3>2, <4>1, <4>2, RunAfter
      <4> QED
        BY <1>1, <3>2, <4>1, <4>3
    <3> QED
      BY <1>3, <3>1, <3>2, CallOutcome
  <2>6. pc' = "bootstrap" => ~RunInProgress(base')
    <3> SUFFICES ASSUME pc' = "bootstrap", RunInProgress(base)
                 PROVE  FALSE
      BY <2>3
    <3>1. GetCurrentMemory /\ cur' = NoMemory
      BY <1>3 DEF ReconcileStep, Begin, GetCurrentMemory, Bootstrap, ReadNoRecommendation,
                  WindowEvaluationFails, ResumeRun, ConsiderRun, CheckHealthGate,
                  ChangeGateBlocks, StartMaintenance, MonitorCluster, TriggerPostAction,
                  MonitorRollout, HandleWindowExpired, CheckExpiredRollout, Persist,
                  GoTo, Return
    <3>2. cluster.memory = NoMemory
      BY <3>1 DEF GetCurrentMemory, MemoryInv, Return, GoTo
    <3>3. Newest(status) \in MaintenanceRecord /\ Newest(status).status = "InProgress"
      BY <2>1, NewestIsRecord DEF TypeInv, TypeOK
    <3>4. Newest(status).appliedMemory \in Nat
      <4>1. Len(status.maintenanceHistory) \in DOMAIN status.maintenanceHistory
        BY <2>1, HistoryRecords DEF TypeInv, TypeOK, RunInProgress
      <4> QED
        BY <1>1, <3>3, <4>1 DEF Orderly, Newest
    <3> QED
      BY <1>1, <2>1, <3>2, <3>4, NoMemoryAssumption
  <2> QED
    BY <2>4, <2>5, <2>6 DEF ClusterInv
<1>4. CASE Persist
  <2>1. /\ pc' = "idle" /\ pol' = EmptyStatus /\ UNCHANGED cluster
        /\ status' = status \/ status' = pol
    BY <1>4, StatusStep DEF Persist, EndReconcile
  <2> QED
    BY <1>1, <2>1, EmptyStatusIdle DEF ClusterInv
<1>5. CASE Crash
  <2>1. pc' = "idle" /\ pol' = EmptyStatus /\ UNCHANGED <<cluster, status>>
    BY <1>5 DEF Crash, EndReconcile
  <2> QED
    BY <1>1, <2>1, EmptyStatusIdle DEF ClusterInv
<1>6. CASE \/ CacheSync \/ Tick \/ VPAChanges \/ ClusterStopsRunning \/ ClusterRuns
           \/ ClusterDeleted \/ ClusterCreated \/ (\E t \in Targets : RolloutProgresses(t))
           \/ UNCHANGED vars
  <2>1. UNCHANGED <<status, pc, pol, base>>
    BY <1>6 DEF CacheSync, Tick, VPAChanges, ClusterStopsRunning, ClusterRuns,
                ClusterDeleted, ClusterCreated, RolloutProgresses, EnvironmentUnchanged,
                vars
  <2>2. cluster'.memory = cluster.memory
    BY <1>6, <2>1, WhoPatches DEF Bootstrap, StartMaintenance, GoTo, Return
  <2> QED
    BY <1>1, <2>1, <2>2 DEF ClusterInv
<1>7. pc \in {"idle", "persist"} /\ ReconcileStep => Begin \/ Persist
  BY DEF ReconcileStep, GetCurrentMemory, Bootstrap, ReadNoRecommendation,
         WindowEvaluationFails, ResumeRun, ConsiderRun, CheckHealthGate,
         ChangeGateBlocks, StartMaintenance, MonitorCluster, TriggerPostAction,
         MonitorRollout, HandleWindowExpired, CheckExpiredRollout
<1> QED
  BY <1>2, <1>3, <1>4, <1>5, <1>6, <1>7 DEF Next, Environment

\* As long as reads are fresh and nobody deletes the cluster, the memory that
\* the record of a run in progress says was applied is what the cluster has,
\* whatever failed, was lost or was repeated on the way.
THEOREM AppliedStaysCurrent ==
    ASSUME "stale" \notin Faults, "delete" \notin Faults
    PROVE  Spec => []AppliedIsCurrent
<1>1. Init => MemoryInv /\ ClusterInv
  BY MemoryInvInit, ClusterInvInit
<1>2. HistoryInv /\ MemoryInv /\ ClusterInv /\ [Next]_vars => (MemoryInv /\ ClusterInv)'
  BY MemoryInvNext, ClusterInvNext DEF HistoryInv
<1>3. HistoryInv /\ ClusterInv => AppliedIsCurrent
  <2> SUFFICES ASSUME HistoryInv, ClusterInv, HasOpenRun(status)
               PROVE  OpenRun(status).appliedMemory = cluster.memory
    BY DEF AppliedIsCurrent
  <2>1. status \in PolicyStatusType /\ Orderly(status)
    BY DEF HistoryInv, TypeInv, TypeOK, ReconcileInv
  <2> QED
    BY <2>1, OpenRunIsNewest DEF ClusterInv
<1> QED
  BY <1>1, <1>2, <1>3, HistoryInvariant, PTL DEF Spec
-----------------------------------------------------------------------------
\* What a run does to the workloads

\* The set of restarted targets grows with a restart and is emptied when a run
\* is started.
LEMMA WhoRestarts ==
    ASSUME [Next]_vars
    PROVE  \/ restarted' = restarted
           \/ StartMaintenance
           \/ /\ TriggerPostAction
              /\ restarted' = restarted \cup {PostActions[next]}
<1> USE DEF world, reconcile, history
<1>1. CASE Bootstrap
  BY <1>1 DEF Bootstrap, PatchResources
<1>2. CASE TriggerPostAction
  BY <1>2 DEF TriggerPostAction, Restart
<1>3. CASE \/ Begin \/ GetCurrentMemory \/ ReadNoRecommendation
           \/ WindowEvaluationFails \/ ResumeRun \/ ConsiderRun \/ CheckHealthGate
           \/ ChangeGateBlocks \/ MonitorCluster \/ MonitorRollout
           \/ HandleWindowExpired \/ CheckExpiredRollout \/ Persist
  BY <1>3 DEF Begin, GetCurrentMemory, ReadNoRecommendation,
              WindowEvaluationFails, ResumeRun, ConsiderRun, CheckHealthGate,
              ChangeGateBlocks, MonitorCluster, MonitorRollout,
              HandleWindowExpired, CheckExpiredRollout, Persist
<1>4. CASE Environment \/ UNCHANGED vars
  BY <1>4 DEF Environment, Crash, CacheSync, Tick, VPAChanges, ClusterStopsRunning,
              ClusterRuns, ClusterDeleted, ClusterCreated, RolloutProgresses,
              EnvironmentUnchanged, vars
<1> QED
  BY <1>1, <1>2, <1>3, <1>4 DEF Next, ReconcileStep

\* What runs there are decides what one reconcile can have made of them.
LEMMA OutcomesDiffer ==
    ASSUME NEW p \in PolicyStatusType, NEW q \in PolicyStatusType, Orderly(p)
    PROVE  /\ Carried(p, q) => ~Advanced(p, q) /\ ~Completed(p, q)
           /\ ~RunInProgress(p) => ~Advanced(p, q) /\ ~Completed(p, q)
           /\ ~RunInProgress(q) => ~Advanced(p, q)
           /\ Advanced(p, q) => ~Completed(p, q)
<1>1. 0 \in Nat
  OBVIOUS
<1>2. /\ Advanced(p, q) => RunInProgress(q) /\ Newest(q).phase = "PostActionsTriggered"
      /\ Completed(p, q) => ~RunInProgress(q)
  BY <1>1, RunAfter
<1>3. Carried(p, q) => (RunInProgress(q) <=> RunInProgress(p)) /\ Newest(q) = Newest(p)
  BY CarriedRun
<1> QED
  BY <1>2, <1>3 DEF Advanced, Completed

LEMMA RestartInvInit == Init => RestartInv
BY EmptyStatusIdle DEF Init, RestartInv

\* A call of the reconcile keeps track of what is restarted.
LEMMA CallKeepsRestarts ==
    ASSUME TypeInv, TypeInv', ConsistencyInv, ReconcileInv, RestartInv,
           pc \notin {"idle", "persist"}, ReconcileStep
    PROVE  RestartInv'
<1> USE DEF world
<1>1. /\ base = status /\ Orderly(base)
      /\ base \in PolicyStatusType /\ pol \in PolicyStatusType /\ pol' \in PolicyStatusType
      /\ RunInProgress(pol) <=> RunInProgress(base)
      /\ Newest(pol) = Newest(base)
      /\ Carried(base, pol)
      /\ pc = "start" => ~RunInProgress(base)
      /\ restarted \subseteq Targets /\ restarted' \subseteq Targets
  BY InHand DEF StartCalls, TypeInv, TypeOK
<1>2. UNCHANGED <<status, base>>
  BY CallOutcome
<1>3. pc = "trigger" =>
        /\ Newest(base).phase = "PatchApplied" /\ PostActions # << >>
        /\ next \in DOMAIN PostActions
        /\ \A k \in 1 .. next - 1 : PostActions[k] \in restarted
  BY DEF ReconcileInv, RestartInv, TypeInv
<1>4. \/ restarted' = restarted
      \/ pc = "start"
      \/ pc = "trigger" /\ restarted' = restarted \cup {PostActions[next]}
  BY WhoRestarts DEF Next, StartMaintenance, TriggerPostAction
<1>5. RunInProgress(status') /\ Newest(status').phase = "PostActionsTriggered"
      => restarted' = Targets
  BY <1>1, <1>2, <1>3, <1>4 DEF RestartInv
<1>6. ASSUME pc' = "trigger", NEW k \in 1 .. next' - 1
      PROVE  PostActions[k] \in restarted'
  <2>1. next \in Nat
    BY DEF TypeInv, TypeOK
  <2>2. CASE MonitorCluster
    BY <1>6, <2>2 DEF MonitorCluster
  <2>3. CASE TriggerPostAction
    <3>1. pc = "trigger" /\ next' = next + 1 /\ restarted' = restarted \cup {PostActions[next]}
      BY <1>6, <2>3 DEF TriggerPostAction, Restart, GoTo, Return
    <3>2. k \in 1 .. next - 1 \/ k = next
      BY <1>6, <2>1, <3>1
    <3> QED
      BY <1>3, <3>1, <3>2
  <2>4. CASE ReconcileStep /\ ~MonitorCluster /\ ~TriggerPostAction
    BY <1>6, <2>4 DEF ReconcileStep, Begin, GetCurrentMemory, Bootstrap,
         ReadNoRecommendation, WindowEvaluationFails, ResumeRun, ConsiderRun,
         CheckHealthGate, ChangeGateBlocks, StartMaintenance, MonitorRollout,
         HandleWindowExpired, CheckExpiredRollout, Persist, EndReconcile, GoTo, Return
  <2> QED
    BY <2>2, <2>3, <2>4
<1>7. Completed(base, pol') => restarted' = Targets
  <2> SUFFICES ASSUME Completed(base, pol') PROVE restarted' = Targets
    OBVIOUS
  <2>1. RunInProgress(base)
    BY DEF Completed
  <2>2. CASE PostActions = << >>
    <3>1. Targets = {}
      BY <2>2, EmptySeq DEF Targets
    <3> QED
      BY <1>1, <3>1
  <2>3. CASE PostActions # << >>
    <3>1. Newest(base).phase = "PostActionsTriggered"
      BY <2>3 DEF Completed
    <3>2. restarted' = restarted
      BY <1>1, <1>3, <1>4, <2>1, <3>1
    <3> QED
      BY <1>1, <2>1, <3>1, <3>2 DEF RestartInv
  <2> QED
    BY <2>2, <2>3
<1>8. Advanced(base, pol') => restarted' = Targets
  <2> SUFFICES ASSUME Advanced(base, pol') PROVE restarted' = Targets
    OBVIOUS
  <2>1. ~Carried(base, pol') /\ RunInProgress(base) /\ RunInProgress(pol')
    BY <1>1, OutcomesDiffer
  <2>2. ~Carried(pol, pol')
    BY <1>1, <2>1 DEF Carried, SameCondition
  <2>3. /\ pc = "trigger" /\ next = Len(PostActions)
        /\ restarted' = restarted \cup {PostActions[next]}
    BY <1>1, <2>1, <2>2, CallOutcome
  <2>4. PostActions \in Seq(STRING) /\ DOMAIN PostActions = 1 .. Len(PostActions)
        /\ Len(PostActions) \in Nat
    BY PostActionsAssumption, LenProperties
  <2>5. \A i \in DOMAIN PostActions : i \in 1 .. next - 1 \/ i = next
    BY <2>3, <2>4
  <2>6. Targets \subseteq restarted'
    BY <1>3, <2>3, <2>5 DEF Targets
  <2> QED
    BY <1>1, <2>6
<1> QED
  BY <1>2, <1>5, <1>6, <1>7, <1>8 DEF RestartInv

LEMMA RestartInvNext ==
    ASSUME "stale" \notin Faults, TypeInv, TypeInv', ConsistencyInv, ReconcileInv,
           RestartInv, [Next]_vars
    PROVE  RestartInv'
<1> USE DEF world, reconcile, history
<1>1. CASE ReconcileStep /\ pc \notin {"idle", "persist"}
  BY <1>1, CallKeepsRestarts
<1>2. CASE Persist
  <2>1. pc = "persist" /\ pc' = "idle" /\ UNCHANGED restarted
    BY <1>2 DEF Persist, EndReconcile
  <2>2. ASSUME RunInProgress(status'), Newest(status').phase = "PostActionsTriggered"
        PROVE  restarted = Targets
    <3>1. CASE status' = status
      BY <2>2, <3>1 DEF RestartInv
    <3>2. ASSUME base = status, status' = pol, NEW t \in 0 .. clock,
                 Reconciled(status, status', t)
          PROVE  restarted = Targets
      <4>1. /\ status \in PolicyStatusType /\ status' \in PolicyStatusType
            /\ t \in Nat /\ Orderly(status)
        BY DEF TypeInv, TypeOK, ReconcileInv
      <4>2. Carried(status, status') \/ Advanced(status, status')
        BY <2>2, <3>2, <4>1, RunAfter DEF Reconciled
      <4>3. CASE Carried(status, status')
        BY <2>2, <4>3, CarriedRun DEF RestartInv
      <4>4. CASE Advanced(status, status')
        BY <2>1, <3>2, <4>4 DEF RestartInv
      <4> QED
        BY <4>2, <4>3, <4>4
    <3> QED
      BY <3>1, <3>2, StatusStep
  <2> QED
    BY <2>1, <2>2 DEF RestartInv
<1>3. CASE Begin \/ Crash
  <2>1. UNCHANGED <<status, restarted>> /\ pc' \in {"idle", "getMemory"}
    BY <1>3 DEF Begin, Crash, EndReconcile, GoTo
  <2> QED
    BY <2>1 DEF RestartInv
<1>4. CASE \/ CacheSync \/ Tick \/ VPAChanges \/ ClusterStopsRunning \/ ClusterRuns
           \/ ClusterDeleted \/ ClusterCreated \/ (\E t \in Targets : RolloutProgresses(t))
           \/ UNCHANGED vars
  <2>1. UNCHANGED <<status, pc, pol, base, next, restarted>>
    BY <1>4 DEF CacheSync, Tick, VPAChanges, ClusterStopsRunning, ClusterRuns,
                ClusterDeleted, ClusterCreated, RolloutProgresses, EnvironmentUnchanged,
                vars
  <2> QED
    BY <2>1 DEF RestartInv
<1>5. pc \in {"idle", "persist"} /\ ReconcileStep => Begin \/ Persist
  BY DEF ReconcileStep, GetCurrentMemory, Bootstrap, ReadNoRecommendation,
         WindowEvaluationFails, ResumeRun, ConsiderRun, CheckHealthGate,
         ChangeGateBlocks, StartMaintenance, MonitorCluster, TriggerPostAction,
         MonitorRollout, HandleWindowExpired, CheckExpiredRollout
<1> QED
  BY <1>1, <1>2, <1>3, <1>4, <1>5 DEF Next, Environment

\* As long as reads are fresh, a run is recorded as completed only when every
\* post-action target has been restarted since the cluster was patched,
\* whatever crashed or got lost while they were.
THEOREM CompletedRunsRestarted ==
    ASSUME "stale" \notin Faults
    PROVE  Spec => CompletedRunsRestartedAll
<1> DEFINE i == FindInProgressRecord(status)
           done == i # 0 /\ status'.maintenanceHistory[i].status = "Completed"
<1>1. ASSUME HistoryInv, RestartInv, [Next]_vars, done
      PROVE  restarted = Targets
  <2>1. /\ status \in PolicyStatusType /\ Orderly(status) /\ clock \in Nat
        /\ TypeInv /\ ConsistencyInv /\ ReconcileInv
    BY <1>1 DEF HistoryInv, TypeInv, TypeOK, ReconcileInv
  <2>2. /\ RunInProgress(status)
        /\ i = Len(status.maintenanceHistory)
        /\ i \in DOMAIN status.maintenanceHistory
        /\ Newest(status) = status.maintenanceHistory[i]
        /\ Newest(status) \in MaintenanceRecord /\ Newest(status).status = "InProgress"
    <3>1. RunInProgress(status)
      BY <1>1, <2>1, OpenRunIsNewest, FindInProgress
    <3> QED
      BY <2>1, <3>1, OpenRunIsNewest, HistoryRecords DEF RunInProgress, Newest
  <2>3. CASE status'.maintenanceHistory = status.maintenanceHistory
    BY <1>1, <2>2, <2>3
  <2>4. ASSUME NEW rec, rec.status # "Completed",
               NewestReplaced(status.maintenanceHistory, status'.maintenanceHistory, rec)
        PROVE  FALSE
    BY <1>1, <2>2, <2>4 DEF NewestReplaced
  <2>5. ASSUME pc = "persist", base = status, status' = pol, NEW t \in 0 .. clock,
               Reconciled(status, status', t)
        PROVE  restarted = Targets
    <3>1. \/ status'.maintenanceHistory = status.maintenanceHistory
          \/ Advanced(status, status') \/ Failed(status, status')
          \/ Completed(status, status')
      BY <2>2, <2>5 DEF Reconciled, Carried, Skipped, Started, NotStarted
    <3>2. ~Failed(status, status')
      <4>1. [Newest(status) EXCEPT !.status = "Failed"].status # "Completed"
        BY <2>2 DEF MaintenanceRecord
      <4> QED
        BY <2>4, <4>1 DEF Failed
    <3>3. CASE Advanced(status, status') \/ Completed(status, status')
      BY <1>1, <2>5, <3>3 DEF RestartInv
    <3> QED
      BY <2>3, <3>1, <3>2, <3>3
  <2> QED
    BY <1>1, <2>1, <2>3, <2>5, StatusStep
<1>2. HistoryInv /\ RestartInv /\ [Next]_vars => [done => restarted = Targets]_vars
  BY <1>1
<1>3. HistoryInv /\ HistoryInv' /\ RestartInv /\ [Next]_vars => RestartInv'
  BY RestartInvNext DEF HistoryInv
<1>4. [][done => restarted = Targets]_vars <=> CompletedRunsRestartedAll
  BY DEF CompletedRunsRestartedAll
<1> HIDE DEF done
<1> QED
  BY <1>2, <1>3, <1>4, RestartInvInit, HistoryInvariant, PTL DEF Spec
-----------------------------------------------------------------------------
\* The reconcile loop implements MaintenanceRun

\* How far the run of a policy is, and its memory.
StageOf(policy) ==
    IF ~RunInProgress(policy) THEN "none"
    ELSE IF Newest(policy).phase = "PatchApplied" THEN "patched"
    ELSE "restarted"

MemoryOf(policy) ==
    IF RunInProgress(policy) THEN Newest(policy).appliedMemory ELSE NoMemory

FailureOf(policy) == IsConditionTrue(policy, "LastMaintenanceFailed")

\* What the abstract run sees of an orderly status.
LEMMA AbstractRun ==
    ASSUME NEW policy \in PolicyStatusType, Orderly(policy)
    PROVE  /\ StageOf(policy) = IF ~HasOpenRun(policy) THEN "none"
                                ELSE IF OpenRun(policy).phase = "PatchApplied" THEN "patched"
                                ELSE "restarted"
           /\ MemoryOf(policy) = IF HasOpenRun(policy) THEN OpenRun(policy).appliedMemory
                                                       ELSE NoMemory
           /\ FailureOf(policy) \in BOOLEAN
<1>1. FailureOf(policy) \in BOOLEAN
  BY DEF FailureOf, IsConditionTrue
<1>2. /\ HasOpenRun(policy) <=> RunInProgress(policy)
      /\ RunInProgress(policy) => OpenRun(policy) = Newest(policy)
  BY OpenRunIsNewest
<1> QED
  BY <1>1, <1>2 DEF StageOf, MemoryOf

\* What one reconcile makes of a policy is a step of the abstract run, or one
\* that it does not see.
LEMMA ReconciledRun ==
    ASSUME NEW p \in PolicyStatusType, NEW q \in PolicyStatusType, NEW t \in Nat,
           Orderly(p), Reconciled(p, q, t)
    PROVE  \/ /\ StageOf(q) = StageOf(p) /\ MemoryOf(q) = MemoryOf(p)
              /\ FailureOf(q) = FailureOf(p)
              /\ q.currentMemory = p.currentMemory \/ q.currentMemory \in Nat
           \/ /\ StageOf(p) = "none" /\ StageOf(q) = "patched"
              /\ MemoryOf(q) \in Nat
              /\ q.currentMemory = p.currentMemory \/ q.currentMemory \in Nat
              /\ FailureOf(q) = FailureOf(p)
           \/ /\ StageOf(p) = "none" /\ StageOf(q) = "none"
              /\ MemoryOf(q) = MemoryOf(p)
              /\ q.currentMemory = p.currentMemory \/ q.currentMemory \in Nat
              /\ FailureOf(q) = TRUE
           \/ /\ PostActions # << >>
              /\ StageOf(p) = "patched" /\ StageOf(q) = "restarted"
              /\ MemoryOf(q) = MemoryOf(p) /\ q.currentMemory = p.currentMemory
              /\ FailureOf(q) = FailureOf(p)
           \/ /\ StageOf(p) # "none" /\ StageOf(q) = "none"
              /\ MemoryOf(q) = NoMemory /\ q.currentMemory = p.currentMemory
              /\ FailureOf(q) = TRUE
           \/ /\ StageOf(p) = IF PostActions # << >> THEN "restarted" ELSE "patched"
              /\ StageOf(q) = "none"
              /\ MemoryOf(q) = NoMemory /\ q.currentMemory = MemoryOf(p)
              /\ FailureOf(q) = FALSE
<1>1. /\ Skipped(p, q, t) \/ NotStarted(p, q) \/ Failed(p, q) \/ Completed(p, q)
           => ~RunInProgress(q)
      /\ Started(p, q, t) => /\ RunInProgress(q)
                             /\ Newest(q).phase = "PatchApplied"
                             /\ Newest(q).appliedMemory \in Nat
      /\ Advanced(p, q) => /\ RunInProgress(q)
                           /\ Newest(q).phase = "PostActionsTriggered"
                           /\ Newest(q).appliedMemory = Newest(p).appliedMemory
  BY RunAfter
<1>2. /\ FailureOf(p) \in BOOLEAN /\ FailureOf(q) \in BOOLEAN
      /\ SameCondition(p, q, "LastMaintenanceFailed") => FailureOf(q) = FailureOf(p)
      /\ IsConditionTrue(q, "LastMaintenanceFailed") => FailureOf(q) = TRUE
      /\ ~IsConditionTrue(q, "LastMaintenanceFailed") => FailureOf(q) = FALSE
  BY DEF FailureOf, IsConditionTrue, SameCondition
<1>3. CASE Carried(p, q) /\ CurrentIsRead(p, q)
  <2>1. StageOf(q) = StageOf(p) /\ MemoryOf(q) = MemoryOf(p)
    BY <1>3, CarriedRun DEF StageOf, MemoryOf
  <2> QED
    BY <1>2, <1>3, <2>1 DEF Carried, CurrentIsRead
<1>4. CASE Skipped(p, q, t)
  <2>1. StageOf(q) = StageOf(p) /\ MemoryOf(q) = MemoryOf(p)
    BY <1>1, <1>4 DEF StageOf, MemoryOf, Skipped
  <2> QED
    BY <1>2, <1>4, <2>1 DEF Skipped, CurrentIsRead
<1>5. CASE Started(p, q, t)
  <2>1. StageOf(p) = "none" /\ StageOf(q) = "patched" /\ MemoryOf(q) \in Nat
    BY <1>1, <1>5 DEF StageOf, MemoryOf, Started
  <2> QED
    BY <1>2, <1>5, <2>1 DEF Started, CurrentIsRead
<1>6. CASE NotStarted(p, q)
  <2>1. /\ StageOf(p) = "none" /\ StageOf(q) = "none"
        /\ MemoryOf(q) = NoMemory /\ MemoryOf(p) = NoMemory
    BY <1>1, <1>6 DEF StageOf, MemoryOf, NotStarted
  <2> QED
    BY <1>2, <1>6, <2>1 DEF NotStarted, CurrentIsRead
<1>7. CASE Advanced(p, q)
  <2>1. /\ StageOf(p) = "patched" /\ StageOf(q) = "restarted"
        /\ MemoryOf(q) = MemoryOf(p)
    BY <1>1, <1>7 DEF StageOf, MemoryOf, Advanced
  <2> QED
    BY <1>2, <1>7, <2>1 DEF Advanced
<1>8. CASE Failed(p, q)
  <2>1. StageOf(p) # "none" /\ StageOf(q) = "none" /\ MemoryOf(q) = NoMemory
    BY <1>1, <1>8 DEF StageOf, MemoryOf, Failed
  <2> QED
    BY <1>2, <1>8, <2>1 DEF Failed
<1>9. CASE Completed(p, q)
  <2>1. /\ StageOf(p) = IF PostActions # << >> THEN "restarted" ELSE "patched"
        /\ StageOf(q) = "none" /\ MemoryOf(q) = NoMemory
        /\ MemoryOf(p) = Newest(p).appliedMemory
    BY <1>1, <1>9 DEF StageOf, MemoryOf, Completed
  <2> QED
    BY <1>2, <1>9, <2>1 DEF Completed
<1> QED
  BY <1>3, <1>4, <1>5, <1>6, <1>7, <1>8, <1>9 DEF Reconciled

LEMMA RunInit == Init => Run!Init
<1> SUFFICES ASSUME Init PROVE Run!Init
  OBVIOUS
<1>1. status = EmptyStatus
  BY DEF Init
<1>2. /\ ~IsConditionTrue(EmptyStatus, "MaintenanceInProgress")
      /\ IsConditionTrue(EmptyStatus, "LastMaintenanceFailed") = FALSE
      /\ EmptyStatus.currentMemory = NoMemory
  BY DEF EmptyStatus, IsConditionTrue, ConditionTypes
<1>3. ~HasOpenRun(EmptyStatus)
  BY <1>2 DEF HasOpenRun
<1> QED
  BY <1>1, <1>2, <1>3 DEF Run!Init, RunStage, AppliedMemory

LEMMA RunNext ==
    ASSUME "stale" \notin Faults, HistoryInv, HistoryInv', [Next]_vars
    PROVE  [Run!Next]_(Run!vars)
<1>1. /\ status \in PolicyStatusType /\ status' \in PolicyStatusType /\ clock \in Nat
      /\ Orderly(status) /\ Orderly(status')
      /\ TypeInv /\ ConsistencyInv /\ ReconcileInv
  BY DEF HistoryInv, TypeInv, TypeOK, ReconcileInv
<1>2. /\ RunStage = StageOf(status) /\ RunStage' = StageOf(status')
      /\ AppliedMemory = MemoryOf(status) /\ AppliedMemory' = MemoryOf(status')
  BY <1>1, AbstractRun DEF RunStage, AppliedMemory
<1>3. CASE status' = status
  BY <1>2, <1>3 DEF Run!vars
<1>4. ASSUME NEW t \in 0 .. clock, Reconciled(status, status', t)
      PROVE  [Run!Next]_(Run!vars)
  <2>1. t \in Nat
    BY <1>1
  <2>2. StageOf(status) = "none" => MemoryOf(status) = NoMemory
    BY DEF StageOf, MemoryOf
  <2> QED
    BY <1>1, <1>2, <1>4, <2>1, <2>2, ReconciledRun
       DEF FailureOf, Run!vars, Run!Next, Run!Observe, Run!Start, Run!FailToStart,
           Run!Restart, Run!Complete, Run!Fail, Run!End
<1> QED
  BY <1>1, <1>3, <1>4, StatusStep

\* As long as reads are fresh, the status tells the life of one run at a time,
\* as MaintenanceRun has it: a run completes only after its post-actions and
\* makes its own memory current, it ends once, and every other change of the
\* status leaves it alone.
THEOREM ImplementsRun ==
    ASSUME "stale" \notin Faults
    PROVE  Spec => ImplementsMaintenanceRun
<1>1. HistoryInv /\ HistoryInv' /\ [Next]_vars => [Run!Next]_(Run!vars)
  BY RunNext
<1> QED
  BY <1>1, RunInit, HistoryInvariant, PTL DEF Spec, ImplementsMaintenanceRun, Run!Spec
=============================================================================
