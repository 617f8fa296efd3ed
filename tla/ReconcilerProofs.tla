-------------------------- MODULE ReconcilerProofs --------------------------
(***************************************************************************)
(* Type correctness of the reconcile loop, and the agreement of condition   *)
(* and history, for every policy, schedule, number and kind of failures.    *)
(***************************************************************************)
EXTENDS ReconcilerProperties, SizingProofs, SequenceTheorems, TLAPS

-----------------------------------------------------------------------------
\* What the operations of conditions.go do to a status

\* findInProgressRecord returns an in-progress record whenever there is one.
LEMMA FindInProgress ==
    ASSUME NEW policy \in PolicyStatusType
    PROVE  /\ FindInProgressRecord(policy) = 0 <=> InProgressRecords(policy) = {}
           /\ FindInProgressRecord(policy) # 0
              => FindInProgressRecord(policy) \in InProgressRecords(policy)
<1>1. InProgressRecords(policy) \subseteq 1..Len(policy.maintenanceHistory)
  BY DEF InProgressRecords, PolicyStatusType
<1>2. InProgressRecords(policy) \in SUBSET Nat /\ 0 \notin InProgressRecords(policy)
  BY <1>1, LenProperties DEF PolicyStatusType
<1>3. InProgressRecords(policy) # {}
      => Min(InProgressRecords(policy)) \in InProgressRecords(policy)
  BY <1>2, MinOfNaturals
<1> QED
  BY <1>2, <1>3 DEF FindInProgressRecord

-----------------------------------------------------------------------------
\* Types

LEMMA SetConditionType ==
    ASSUME NEW policy \in PolicyStatusType, NEW type \in ConditionTypes,
           NEW value \in {"Absent", "True", "False"}, NEW why \in ConditionReasons
    PROVE  SetCondition(policy, type, value, why) \in PolicyStatusType
BY DEF SetCondition, PolicyStatusType, Condition

LEMMA AddRecordType ==
    ASSUME NEW policy \in PolicyStatusType, NEW record \in MaintenanceRecord
    PROVE  AddMaintenanceRecord(policy, record) \in PolicyStatusType
<1> DEFINE grown == Append(policy.maintenanceHistory, record)
<1>1. grown \in Seq(MaintenanceRecord)
  BY AppendProperties DEF PolicyStatusType
<1>2. SubSeq(grown, Len(grown) - MaxHistory + 1, Len(grown)) \in Seq(MaintenanceRecord)
      \/ ~(Len(grown) > MaxHistory)
  BY <1>1, MaxHistoryAssumption, SubSeqProperties, LenProperties
<1> QED
  BY <1>1, <1>2 DEF AddMaintenanceRecord, PolicyStatusType

LEMMA MarkRecordType ==
    ASSUME NEW policy \in PolicyStatusType, NEW outcome \in MaintenanceStatus
    PROVE  MarkRecordCompleted(policy, outcome) \in PolicyStatusType
<1> DEFINE h == policy.maintenanceHistory
           i == FindInProgressRecord(policy)
<1>1. CASE i = 0
  BY <1>1 DEF MarkRecordCompleted
<1>2. CASE i # 0
  <2>1. h \in Seq(MaintenanceRecord) /\ i \in 1..Len(h)
    BY <1>2, FindInProgress DEF InProgressRecords, PolicyStatusType
  <2>2. [h[i] EXCEPT !.status = outcome] \in MaintenanceRecord
    <3>1. h[i] \in MaintenanceRecord
      BY <2>1, ElementOfSeq
    <3> HIDE DEF h, i
    <3> QED
      BY <3>1 DEF MaintenanceRecord
  <2>3. [h EXCEPT ![i] = [h[i] EXCEPT !.status = outcome]] \in Seq(MaintenanceRecord)
    BY <2>1, <2>2, ExceptSeq
  <2>4. MarkRecordCompleted(policy, outcome)
        = [policy EXCEPT !.maintenanceHistory =
             [h EXCEPT ![i] = [h[i] EXCEPT !.status = outcome]]]
    BY <1>2 DEF MarkRecordCompleted
  <2> QED
    BY <2>3, <2>4 DEF PolicyStatusType
<1> QED
  BY <1>1, <1>2

LEMMA MergePatchType ==
    ASSUME NEW server \in PolicyStatusType, NEW read \in PolicyStatusType,
           NEW policy \in PolicyStatusType
    PROVE  MergePatch(server, read, policy) \in PolicyStatusType
BY DEF MergePatch, PolicyStatusType

\* A patch against an up-to-date base stores exactly the new status.
LEMMA MergePatchOfCurrent ==
    ASSUME NEW server \in PolicyStatusType, NEW policy \in PolicyStatusType
    PROVE  MergePatch(server, server, policy) = policy
BY DEF MergePatch, PolicyStatusType

-----------------------------------------------------------------------------
\* Records in progress

LEMMA SetConditionRecords ==
    ASSUME NEW policy \in PolicyStatusType, NEW type \in ConditionTypes,
           NEW value, NEW why
    PROVE  InProgressRecords(SetCondition(policy, type, value, why))
           = InProgressRecords(policy)
BY DEF SetCondition, InProgressRecords, PolicyStatusType

\* The condition that is set has the new value, the others keep theirs.
LEMMA SetConditionValue ==
    ASSUME NEW policy \in PolicyStatusType, NEW type \in ConditionTypes,
           NEW value, NEW why, NEW other \in ConditionTypes
    PROVE  IsConditionTrue(SetCondition(policy, type, value, why), other)
           <=> IF other = type THEN value = "True" ELSE IsConditionTrue(policy, other)
BY DEF SetCondition, IsConditionTrue, PolicyStatusType

\* Marking the only record in progress leaves none.
LEMMA MarkedRecords ==
    ASSUME NEW policy \in PolicyStatusType, NEW outcome \in {"Completed", "Failed"},
           \A i, j \in InProgressRecords(policy) : i = j
    PROVE  InProgressRecords(MarkRecordCompleted(policy, outcome)) = {}
<1> DEFINE h == policy.maintenanceHistory
           f == FindInProgressRecord(policy)
           marked == MarkRecordCompleted(policy, outcome)
<1>1. CASE f = 0
  BY <1>1, FindInProgress DEF MarkRecordCompleted
<1>2. CASE f # 0
  <2>1. h \in Seq(MaintenanceRecord) /\ f \in InProgressRecords(policy) /\ f \in DOMAIN h
    BY <1>2, FindInProgress DEF InProgressRecords, PolicyStatusType
  <2>2. marked.maintenanceHistory = [h EXCEPT ![f] = [h[f] EXCEPT !.status = outcome]]
    BY <1>2 DEF MarkRecordCompleted, PolicyStatusType
  <2>3. h[f] \in MaintenanceRecord
    BY <2>1, ElementOfSeq, LenProperties
  <2>4. ASSUME NEW i \in DOMAIN marked.maintenanceHistory
        PROVE  marked.maintenanceHistory[i].status # "InProgress"
    <3>1. i \in DOMAIN h
      BY <2>2, <2>1
    <3>2. CASE i = f
      BY <2>1, <2>2, <2>3, <3>2 DEF MaintenanceRecord
    <3>3. CASE i # f
      BY <2>1, <2>2, <3>1, <3>3 DEF InProgressRecords
    <3> QED
      BY <3>2, <3>3
  <2> QED
    BY <2>4 DEF InProgressRecords
<1> QED
  BY <1>1, <1>2

\* Appending to a history that has no record in progress leaves at most the
\* appended one in progress.
LEMMA AddedRecords ==
    ASSUME NEW policy \in PolicyStatusType, NEW record \in MaintenanceRecord,
           InProgressRecords(policy) = {}
    PROVE  LET added == AddMaintenanceRecord(policy, record)
               last  == Len(added.maintenanceHistory)
           IN  InProgressRecords(added)
               = IF record.status = "InProgress" THEN {last} ELSE {}
<1> DEFINE h == policy.maintenanceHistory
           grown == Append(h, record)
           g == AddMaintenanceRecord(policy, record).maintenanceHistory
           cut == SubSeq(grown, Len(grown) - MaxHistory + 1, Len(grown))
<1>1. /\ h \in Seq(MaintenanceRecord)
      /\ \A i \in 1..Len(h) : h[i].status # "InProgress"
  BY DEF InProgressRecords, PolicyStatusType
<1>2. /\ grown \in Seq(MaintenanceRecord)
      /\ Len(grown) = Len(h) + 1
      /\ grown[Len(grown)] = record
      /\ \A i \in 1..Len(h) : grown[i] = h[i]
  BY <1>1, AppendProperties
<1>3. \A i \in 1..Len(grown) : grown[i].status = "InProgress"
                               <=> i = Len(grown) /\ record.status = "InProgress"
  BY <1>1, <1>2, LenProperties
<1>4. g = IF Len(grown) > MaxHistory THEN cut ELSE grown
  BY DEF AddMaintenanceRecord, PolicyStatusType
<1>5. \A i \in 1..Len(g) : g[i].status = "InProgress"
                           <=> i = Len(g) /\ record.status = "InProgress"
  <2>1. CASE Len(grown) > MaxHistory
    <3>1. /\ Len(grown) \in Nat /\ Len(grown) - MaxHistory + 1 \in 1..Len(grown)
      BY <1>2, <2>1, LenProperties, MaxHistoryAssumption
    <3>2. /\ Len(cut) = MaxHistory
          /\ \A i \in 1..MaxHistory : cut[i] = grown[Len(grown) - MaxHistory + i]
      BY <1>2, <3>1, SubSeqProperties, MaxHistoryAssumption
    <3>3. \A i \in 1..MaxHistory :
            /\ Len(grown) - MaxHistory + i \in 1..Len(grown)
            /\ Len(grown) - MaxHistory + i = Len(grown) <=> i = MaxHistory
      BY <3>1, MaxHistoryAssumption
    <3>4. g = cut
      BY <1>4, <2>1
    <3> HIDE DEF g, cut, grown
    <3> QED
      BY <1>3, <3>2, <3>3, <3>4
  <2>2. CASE ~(Len(grown) > MaxHistory)
    BY <1>3, <1>4, <2>2
  <2> QED
    BY <2>1, <2>2
<1>6. DOMAIN g = 1..Len(g) /\ Len(g) \in 1..Len(g)
  BY <1>2, <1>4, AddRecordType, LenProperties, SubSeqProperties,
     MaxHistoryAssumption
<1> QED
  BY <1>5, <1>6 DEF InProgressRecords

-----------------------------------------------------------------------------
\* Types of what a reconcile computes

\* Clamping and buffering a natural number gives a natural number.
LEMMA RecommendationType ==
    ASSUME NEW raw \in Nat
    PROVE  Recommendation(raw) \in Nat
<1> DEFINE q == ClampQuantity(raw)
<1>1. q \in Nat
  BY MemoryBoundsAssumption DEF ClampQuantity
<1>2. 100 + MemoryBuffer \in Nat /\ MemoryMax \in Nat
  BY MemoryBoundsAssumption, MemoryBufferAssumption
<1>3. \A x, y \in Nat : x * y \in Nat
  OBVIOUS
<1>4. \A x \in Nat : x \div 100 \in Nat
  OBVIOUS
<1>5. (q * (100 + MemoryBuffer)) \div 100 \in Nat
  <2> HIDE DEF q
  <2> QED
    BY <1>1, <1>2, <1>3, <1>4
<1> HIDE DEF q
<1>6. ApplyMemoryBuffer(q) \in Nat
  BY <1>1, <1>2, <1>5 DEF ApplyMemoryBuffer
<1> QED
  BY <1>6 DEF Recommendation, q

-----------------------------------------------------------------------------
\* Types of what a reconcile makes of the status

LEMMA EmptyStatusType == EmptyStatus \in PolicyStatusType
BY DEF EmptyStatus, PolicyStatusType, OptionalMemory, Condition, ConditionReasons

LEMMA MemoryFieldType ==
    ASSUME NEW policy \in PolicyStatusType, NEW memory \in OptionalMemory
    PROVE  /\ [policy EXCEPT !.currentMemory = memory] \in PolicyStatusType
           /\ [policy EXCEPT !.memoryTarget = memory] \in PolicyStatusType
BY DEF PolicyStatusType

\* An open run is a record of the history.
LEMMA OpenRunType ==
    ASSUME NEW policy \in PolicyStatusType, HasOpenRun(policy)
    PROVE  /\ FindInProgressRecord(policy) \in InProgressRecords(policy)
           /\ OpenRun(policy) \in MaintenanceRecord
<1>1. FindInProgressRecord(policy) \in InProgressRecords(policy)
  BY FindInProgress DEF HasOpenRun
<1>2. /\ policy.maintenanceHistory \in Seq(MaintenanceRecord)
      /\ FindInProgressRecord(policy) \in 1..Len(policy.maintenanceHistory)
  BY <1>1 DEF InProgressRecords, PolicyStatusType
<1>3. OpenRun(policy) \in MaintenanceRecord
  BY <1>2, ElementOfSeq DEF OpenRun
<1> QED
  BY <1>1, <1>3

LEMMA FailMaintenanceType ==
    ASSUME NEW policy \in PolicyStatusType
    PROVE  FailMaintenance(policy) \in PolicyStatusType
BY MarkRecordType, SetConditionType DEF FailMaintenance, ConditionTypes, ConditionReasons, MaintenanceStatus

LEMMA CompleteMaintenanceType ==
    ASSUME NEW policy \in PolicyStatusType, HasOpenRun(policy)
    PROVE  CompleteMaintenance(policy) \in PolicyStatusType
<1> DEFINE paid == [policy EXCEPT !.currentMemory = OpenRun(policy).appliedMemory]
<1>1. OpenRun(policy).appliedMemory \in OptionalMemory
  BY OpenRunType DEF MaintenanceRecord
<1>2. paid \in PolicyStatusType
  BY <1>1, MemoryFieldType
<1> HIDE DEF paid
<1>3. MarkRecordCompleted(paid, "Completed") \in PolicyStatusType
  BY <1>2, MarkRecordType DEF MaintenanceStatus
<1> QED
  BY <1>3, SetConditionType DEF CompleteMaintenance, ConditionTypes, ConditionReasons, paid

LEMMA SkipMaintenanceType ==
    ASSUME NEW policy \in PolicyStatusType, clock \in Nat
    PROVE  SkipMaintenance(policy) \in PolicyStatusType
<1>1. [startedAt |-> clock, status |-> "Skipped",
       phase |-> "", appliedMemory |-> NoMemory] \in MaintenanceRecord
  BY DEF MaintenanceRecord, MaintenanceStatus, MaintenancePhase, OptionalMemory
<1> QED
  BY <1>1, AddRecordType DEF SkipMaintenance

LEMMA RecordStartType ==
    ASSUME NEW policy \in PolicyStatusType, clock \in Nat
    PROVE  RecordStart(policy) \in PolicyStatusType
<1>1. [startedAt |-> clock, status |-> "InProgress",
       phase |-> "PatchApplied", appliedMemory |-> policy.memoryTarget]
      \in MaintenanceRecord
  BY DEF MaintenanceRecord, MaintenanceStatus, MaintenancePhase, PolicyStatusType
<1>2. SetCondition(policy, "MaintenanceInProgress", "True", "MaintenanceStarted")
      \in PolicyStatusType
  BY SetConditionType DEF ConditionTypes, ConditionReasons
<1> QED
  BY <1>1, <1>2, AddRecordType DEF RecordStart

LEMMA AdvancePhaseType ==
    ASSUME NEW policy \in PolicyStatusType, HasOpenRun(policy)
    PROVE  AdvancePhase(policy) \in PolicyStatusType
<1> DEFINE h == policy.maintenanceHistory
           i == FindInProgressRecord(policy)
           advanced == [h[i] EXCEPT !.phase = "PostActionsTriggered"]
<1>1. h \in Seq(MaintenanceRecord) /\ i \in 1..Len(h) /\ h[i] \in MaintenanceRecord
  BY OpenRunType DEF InProgressRecords, PolicyStatusType, OpenRun
<1>2. advanced \in MaintenanceRecord
  <2> HIDE DEF h, i
  <2> QED
    BY <1>1 DEF MaintenanceRecord, MaintenancePhase
<1>3. [h EXCEPT ![i] = advanced] \in Seq(MaintenanceRecord)
  BY <1>1, <1>2, ExceptSeq
<1>4. AdvancePhase(policy)
      = [policy EXCEPT !.maintenanceHistory = [h EXCEPT ![i] = advanced]]
  BY DEF AdvancePhase
<1> QED
  BY <1>3, <1>4 DEF PolicyStatusType
LEMMA SyncedType ==
    ASSUME TypeOK, RecommendationReady
    PROVE  Synced \in PolicyStatusType
<1>1. SetCondition(pol, "VPARecommendationReady", "True", "Ready") \in PolicyStatusType
  BY SetConditionType DEF TypeOK, ConditionTypes, ConditionReasons
<1>2. vpa \in Nat
  BY DEF TypeOK, RecommendationReady
<1>3. Recommendation(vpa) \in OptionalMemory
  BY <1>2, RecommendationType DEF OptionalMemory
<1> QED
  BY <1>1, <1>3, MemoryFieldType DEF Synced

LEMMA ObservedType ==
    ASSUME TypeOK
    PROVE  Observed \in PolicyStatusType
BY MemoryFieldType DEF TypeOK, Observed

-----------------------------------------------------------------------------
\* Type correctness

LEMMA TypeInvInit == Init => TypeInv
<1> SUFFICES ASSUME Init PROVE TypeInv
  OBVIOUS
<1>1. cluster \in ClusterType
  <2>1. ClusterMemories \subseteq OptionalMemory /\ NoMemory \in OptionalMemory
    BY ClusterMemoriesAssumption DEF OptionalMemory
  <2>2. CASE cluster \in [exists : {TRUE}, memory : ClusterMemories,
                          updated : {TRUE}, running : BOOLEAN]
    BY <2>1, <2>2 DEF ClusterType
  <2>3. CASE cluster = NoCluster
    BY <2>1, <2>3 DEF ClusterType, NoCluster
  <2> QED
    BY <2>2, <2>3 DEF Init
<1>2. vpa \in Nat \cup {NoVPA, NoRecommendation}
  BY VPAStatesAssumption DEF Init
<1>3. rollout \in [Targets -> RolloutStates]
  BY DEF Init, RolloutStates
<1> QED
  BY <1>1, <1>2, <1>3, EmptyStatusType, FaultsAssumption
     DEF Init, TypeInv, TypeOK, Calls, RunCalls, OptionalMemory

\* PatchResources leaves a well-typed cluster and history.
LEMMA PatchResourcesType ==
    ASSUME TypeInv, NEW memory \in OptionalMemory, NEW ok \in BOOLEAN,
           NEW forRun \in BOOLEAN, PatchResources(memory, ok, forRun)
    PROVE  /\ cluster' \in ClusterType
           /\ faults' \in Nat
           /\ lastPatch' \in Int
           /\ restarted' \subseteq Targets
<1>1. /\ cluster \in ClusterType /\ faults \in Nat /\ clock \in Nat
      /\ lastPatch \in Int /\ restarted \subseteq Targets
  BY DEF TypeInv, TypeOK
<1>2. cluster' \in {cluster, [cluster EXCEPT !.memory = memory, !.updated = FALSE]}
  BY DEF PatchResources
<1>3. cluster' \in ClusterType
  BY <1>1, <1>2 DEF ClusterType
<1>4. faults' \in Nat
  BY <1>1 DEF PatchResources, Fault, NoFault
<1>5. \/ lastPatch' = clock /\ restarted' = {}
      \/ lastPatch' = lastPatch /\ restarted' = restarted
  BY DEF PatchResources, history
<1> QED
  BY <1>1, <1>3, <1>4, <1>5

\* A health check only consumes a failure.
LEMMA HealthType ==
    ASSUME TypeOK, HealthError \/ \E healthy \in BOOLEAN : HealthIs(healthy)
    PROVE  faults' \in Nat
BY DEF TypeOK, HealthError, HealthIs, Fault, NoFault

\* The steps of a reconcile keep TypeInv.
LEMMA TypeInvReconcile == TypeInv /\ ReconcileStep => TypeInv'
<1> SUFFICES ASSUME TypeInv, ReconcileStep PROVE TypeInv'
  OBVIOUS
<1> USE DEF world, history
<1>1. CASE Begin
  BY <1>1 DEF Begin, GoTo, NoFault, TypeInv, TypeOK, Calls, RunCalls
<1>2. CASE GetCurrentMemory
  <2>1. cur' \in OptionalMemory
    BY <1>2 DEF GetCurrentMemory, TypeInv, TypeOK, ClusterType, OptionalMemory
  <2>2. pc' \in {"persist", "bootstrap", "readVPA"} /\ pol' = pol /\ faults' \in Nat
    BY <1>2 DEF GetCurrentMemory, GoTo, Return, Fault, NoFault, TypeInv, TypeOK
  <2> QED
    BY <1>2, <2>1, <2>2 DEF GetCurrentMemory, TypeInv, TypeOK, Calls, RunCalls
<1>3. CASE Bootstrap
  <2>1. CASE Fault("params") /\ Return(pol) /\ UNCHANGED <<cluster, history>>
    BY <1>3, <2>1 DEF Bootstrap, GoTo, Return, Fault, TypeInv, TypeOK, Calls, RunCalls
  <2>2. ASSUME NEW ok \in BOOLEAN, PatchResources(InitialMemory, ok, FALSE),
               Return(IF ok THEN [pol EXCEPT !.currentMemory = InitialMemory] ELSE pol)
        PROVE  TypeInv'
    <3>1. pol' \in PolicyStatusType
      BY <2>2, InitialMemoryAssumption, MemoryFieldType
         DEF GoTo, Return, TypeInv, TypeOK
    <3>2. /\ cluster' \in ClusterType /\ faults' \in Nat
          /\ lastPatch' \in Int /\ restarted' \subseteq Targets
      BY <2>2, InitialMemoryAssumption, PatchResourcesType
    <3> QED
      BY <1>3, <2>2, <3>1, <3>2
         DEF Bootstrap, GoTo, Return, TypeInv, TypeOK, Calls, RunCalls
  <2> QED
    BY <1>3, <2>1, <2>2 DEF Bootstrap
<1>4. CASE ReadNoRecommendation
  <2>1. \A why \in {"VPANotFound", "NoRecommendationYet"} :
          SetCondition(pol, "VPARecommendationReady", "False", why) \in PolicyStatusType
    BY SetConditionType DEF TypeInv, TypeOK, ConditionTypes, ConditionReasons
  <2>2. pol' \in PolicyStatusType
    BY <1>4, <2>1 DEF ReadNoRecommendation, GoTo, Return, TypeInv, TypeOK
  <2> QED
    BY <1>4, <2>2
       DEF ReadNoRecommendation, GoTo, Return, Fault, NoFault, TypeInv, TypeOK, Calls, RunCalls
<1>5. CASE WindowEvaluationFails
  BY <1>5, SyncedType
     DEF WindowEvaluationFails, GoTo, Return, NoFault, TypeInv, TypeOK, Calls, RunCalls
<1>6. CASE ResumeRun
  BY <1>6, SyncedType DEF ResumeRun, GoTo, NoFault, TypeInv, TypeOK, Calls, RunCalls
<1>7. CASE ConsiderRun
  <2>1. pol' \in PolicyStatusType
    BY <1>7, SyncedType, SetConditionType
       DEF ConsiderRun, ClearStaleCondition, GoTo, TypeInv, ConditionTypes, ConditionReasons
  <2>2. pc' \in {"persist", "healthGate", "start"}
    BY <1>7 DEF ConsiderRun, GoTo
  <2> QED
    BY <1>7, <2>1, <2>2 DEF ConsiderRun, NoFault, TypeInv, TypeOK, Calls, RunCalls
<1>8. CASE CheckHealthGate
  <2>1. pol' \in PolicyStatusType
    BY <1>8, SkipMaintenanceType DEF CheckHealthGate, GoTo, Return, TypeInv, TypeOK
  <2>2. faults' \in Nat
    BY <1>8, HealthType DEF CheckHealthGate, TypeInv
  <2> QED
    BY <1>8, <2>1, <2>2 DEF CheckHealthGate, GoTo, Return, TypeInv, TypeOK, Calls, RunCalls
<1>9. CASE ChangeGateBlocks
  <2>1. Gate \in ConditionReasons
    BY DEF Gate, ChangeGate, ConditionReasons
  <2>2. SkipMaintenance(Observed) \in PolicyStatusType
    BY ObservedType, SkipMaintenanceType DEF TypeInv, TypeOK
  <2>3. pol' \in PolicyStatusType
    BY <1>9, <2>1, <2>2, SetConditionType DEF ChangeGateBlocks, GoTo, Return, ConditionTypes
  <2> QED
    BY <1>9, <2>3 DEF ChangeGateBlocks, GoTo, Return, NoFault, TypeInv, TypeOK, Calls, RunCalls
<1>10. CASE StartMaintenance
  <2>1. Observed \in PolicyStatusType /\ clock \in Nat
    BY ObservedType DEF TypeInv, TypeOK
  <2>2. pol' \in PolicyStatusType /\ pc' = "persist"
    BY <1>10, <2>1, FailMaintenanceType, RecordStartType DEF StartMaintenance, GoTo, Return
  <2>3. /\ cluster' \in ClusterType /\ faults' \in Nat
        /\ lastPatch' \in Int /\ restarted' \subseteq Targets
    <3>1. CASE Fault("params") /\ UNCHANGED <<cluster, history>>
      BY <3>1 DEF Fault, TypeInv, TypeOK
    <3>2. CASE \E ok \in BOOLEAN : PatchResources(pol.memoryTarget, ok, TRUE)
      BY <3>2, PatchResourcesType DEF TypeInv, TypeOK, PolicyStatusType
    <3> QED
      BY <1>10, <3>1, <3>2 DEF StartMaintenance
  <2> QED
    BY <1>10, <2>2, <2>3 DEF StartMaintenance, TypeInv, TypeOK, Calls, RunCalls
<1>11. CASE MonitorCluster
  <2>1. HasOpenRun(pol) /\ pol \in PolicyStatusType /\ faults' \in Nat
    BY <1>11, HealthType DEF MonitorCluster, TypeInv, TypeOK, RunCalls
  <2>2. /\ pol' \in PolicyStatusType
        /\ \/ pc' = "persist"
           \/ pc' = "trigger" /\ pol' = pol /\ PostActions # << >>
    BY <1>11, <2>1, CompleteMaintenanceType DEF MonitorCluster, GoTo, Return
  <2>3. next' = 1 /\ (PostActions # << >> => 1 \in DOMAIN PostActions)
    BY <1>11, PostActionsAssumption, EmptySeq, LenProperties DEF MonitorCluster
  <2> QED
    BY <1>11, <2>1, <2>2, <2>3 DEF MonitorCluster, TypeInv, TypeOK, Calls, RunCalls
<1>12. CASE TriggerPostAction
  <2>1. /\ HasOpenRun(pol) /\ pol \in PolicyStatusType
        /\ next \in 1..Len(PostActions) /\ Len(PostActions) \in Nat
    BY <1>12, PostActionsAssumption, LenProperties
       DEF TriggerPostAction, TypeInv, TypeOK, RunCalls
  <2>2. PostActions[next] \in Targets
    BY <1>12 DEF TriggerPostAction, TypeInv, Targets
  <2>3. rollout' \in [Targets -> RolloutStates] /\ restarted' \subseteq Targets
    BY <1>12, <2>2 DEF TriggerPostAction, Restart, TypeInv, TypeOK, RolloutStates
  <2>4. pol' \in PolicyStatusType /\ faults' \in Nat
    BY <1>12, <2>1, FailMaintenanceType, AdvancePhaseType
       DEF TriggerPostAction, GoTo, Return, Fault, NoFault, TypeInv, TypeOK
  <2>5. \/ pc' = "persist" /\ next' \in {next, next + 1}
        \/ /\ pc' = "trigger" /\ pol' = pol
           /\ next' = next + 1 /\ next # Len(PostActions)
    BY <1>12 DEF TriggerPostAction, GoTo, Return
  <2>6. next' \in Nat \ {0} /\ (pc' = "trigger" => next' \in DOMAIN PostActions)
    BY <2>1, <2>5, PostActionsAssumption, LenProperties
  <2> QED
    BY <1>12, <2>1, <2>3, <2>4, <2>5, <2>6
       DEF TriggerPostAction, TypeInv, TypeOK, Calls, RunCalls
<1>13. CASE MonitorRollout
  <2>1. HasOpenRun(pol) /\ pol \in PolicyStatusType
    BY <1>13 DEF MonitorRollout, TypeInv, TypeOK, RunCalls
  <2>2. /\ pol' \in PolicyStatusType /\ faults' \in Nat /\ next' \in Nat \ {0}
        /\ \/ pc' = "persist"
           \/ pc' = "monitor" /\ pol' = pol
    BY <1>13, <2>1, CompleteMaintenanceType
       DEF MonitorRollout, GoTo, Return, Fault, NoFault, TypeInv, TypeOK
  <2> QED
    BY <1>13, <2>1, <2>2 DEF MonitorRollout, TypeInv, TypeOK, Calls, RunCalls
<1>14. CASE HandleWindowExpired
  <2>1. HasOpenRun(pol) /\ pol \in PolicyStatusType /\ faults' \in Nat
    BY <1>14, HealthType DEF HandleWindowExpired, TypeInv, TypeOK, RunCalls
  <2>2. /\ pol' \in PolicyStatusType
        /\ \/ pc' = "persist"
           \/ pc' = "expiredRollouts" /\ pol' = pol
    BY <1>14, <2>1, CompleteMaintenanceType, FailMaintenanceType
       DEF HandleWindowExpired, GoTo, Return
  <2> QED
    BY <1>14, <2>1, <2>2 DEF HandleWindowExpired, TypeInv, TypeOK, Calls, RunCalls
<1>15. CASE CheckExpiredRollout
  <2>1. HasOpenRun(pol) /\ pol \in PolicyStatusType
    BY <1>15 DEF CheckExpiredRollout, TypeInv, TypeOK, RunCalls
  <2>2. /\ pol' \in PolicyStatusType /\ faults' \in Nat /\ next' \in Nat \ {0}
        /\ \/ pc' = "persist"
           \/ pc' = "expiredRollouts" /\ pol' = pol
    BY <1>15, <2>1, CompleteMaintenanceType, FailMaintenanceType
       DEF CheckExpiredRollout, GoTo, Return, Fault, NoFault, TypeInv, TypeOK
  <2> QED
    BY <1>15, <2>1, <2>2 DEF CheckExpiredRollout, TypeInv, TypeOK, Calls, RunCalls
<1>16. CASE Persist
  <2>1. status' \in PolicyStatusType /\ cached' \in PolicyStatusType /\ faults' \in Nat
    BY <1>16, MergePatchType DEF Persist, Fault, NoFault, TypeInv, TypeOK
  <2> QED
    BY <1>16, <2>1, EmptyStatusType
       DEF Persist, EndReconcile, TypeInv, TypeOK, Calls, RunCalls, OptionalMemory
<1> QED
  BY <1>1, <1>2, <1>3, <1>4, <1>5, <1>6, <1>7, <1>8, <1>9, <1>10, <1>11,
     <1>12, <1>13, <1>14, <1>15, <1>16 DEF ReconcileStep

\* So do the steps of the world around it.
LEMMA TypeInvEnvironment == TypeInv /\ Environment => TypeInv'
<1> SUFFICES ASSUME TypeInv, Environment PROVE TypeInv'
  OBVIOUS
<1> USE DEF reconcile, history
<1>1. CASE Crash
  BY <1>1, EmptyStatusType
     DEF Crash, Fault, EndReconcile, world, TypeInv, TypeOK, Calls, RunCalls, OptionalMemory
<1>2. CASE CacheSync
  BY <1>2 DEF CacheSync, TypeInv, TypeOK
<1>3. CASE Tick
  BY <1>3 DEF Tick, TypeInv, TypeOK
<1>4. CASE VPAChanges
  BY <1>4, VPAStatesAssumption DEF VPAChanges, TypeInv, TypeOK
<1>5. CASE ClusterStopsRunning \/ ClusterRuns
  BY <1>5 DEF ClusterStopsRunning, ClusterRuns, NoFault, EnvironmentUnchanged,
              TypeInv, TypeOK, ClusterType
<1>6. CASE ClusterDeleted
  BY <1>6 DEF ClusterDeleted, Fault, NoCluster, EnvironmentUnchanged,
              TypeInv, TypeOK, ClusterType, OptionalMemory
<1>7. CASE ClusterCreated
  BY <1>7, ClusterMemoriesAssumption
     DEF ClusterCreated, NoFault, EnvironmentUnchanged, TypeInv, TypeOK, ClusterType
<1>8. ASSUME NEW t \in Targets, RolloutProgresses(t)
      PROVE  TypeInv'
  BY <1>8 DEF RolloutProgresses, TypeInv, TypeOK, RolloutStates
<1> QED
  BY <1>1, <1>2, <1>3, <1>4, <1>5, <1>6, <1>7, <1>8 DEF Environment

LEMMA TypeInvNext == TypeInv /\ [Next]_vars => TypeInv'
<1>1. TypeInv /\ UNCHANGED vars => TypeInv'
  BY DEF vars, world, reconcile, history, TypeInv, TypeOK
<1> QED
  BY <1>1, TypeInvReconcile, TypeInvEnvironment DEF Next

\* Every variable has its type in every reachable state, whatever fails.
THEOREM TypeCorrect == Spec => []TypeOK
<1>1. TypeInv => TypeOK
  BY DEF TypeInv
<1> QED
  BY <1>1, TypeInvInit, TypeInvNext, PTL DEF Spec
-----------------------------------------------------------------------------
\* The operations on the status keep its condition and history in agreement

LEMMA EmptyStatusConsistent == Consistent(EmptyStatus)
<1>1. InProgressRecords(EmptyStatus) = {}
  <2>1. EmptyStatus.maintenanceHistory = << >>
    BY DEF EmptyStatus
  <2>2. DOMAIN EmptyStatus.maintenanceHistory = {}
    BY <2>1
  <2> QED
    BY <2>2 DEF InProgressRecords
<1>2. ~IsConditionTrue(EmptyStatus, "MaintenanceInProgress")
  BY DEF IsConditionTrue, EmptyStatus, ConditionTypes
<1> QED
  BY <1>1, <1>2 DEF Consistent, OneRunAtATime, ConditionMatchesHistory

\* Agreement is about the history and one condition only.
LEMMA ConsistentSame ==
    ASSUME NEW p, NEW q,
           InProgressRecords(q) = InProgressRecords(p),
           IsConditionTrue(q, "MaintenanceInProgress")
             <=> IsConditionTrue(p, "MaintenanceInProgress")
    PROVE  Consistent(q) <=> Consistent(p)
BY DEF Consistent, OneRunAtATime, ConditionMatchesHistory

LEMMA MemoryFieldSame ==
    ASSUME NEW policy \in PolicyStatusType, NEW memory,
           NEW q \in {[policy EXCEPT !.currentMemory = memory],
                      [policy EXCEPT !.memoryTarget = memory]}
    PROVE  /\ InProgressRecords(q) = InProgressRecords(policy)
           /\ \A type \in ConditionTypes :
                IsConditionTrue(q, type) <=> IsConditionTrue(policy, type)
BY DEF InProgressRecords, IsConditionTrue, PolicyStatusType

\* Changing the history leaves the conditions alone.
LEMMA HistoryKeepsConditions ==
    ASSUME NEW policy \in PolicyStatusType, NEW record, NEW outcome, NEW type
    PROVE  /\ IsConditionTrue(AddMaintenanceRecord(policy, record), type)
              <=> IsConditionTrue(policy, type)
           /\ IsConditionTrue(MarkRecordCompleted(policy, outcome), type)
              <=> IsConditionTrue(policy, type)
<1>1. \A h : [policy EXCEPT !.maintenanceHistory = h].conditions = policy.conditions
  BY DEF PolicyStatusType
<1>2. AddMaintenanceRecord(policy, record).conditions = policy.conditions
  BY <1>1 DEF AddMaintenanceRecord
<1>3. MarkRecordCompleted(policy, outcome).conditions = policy.conditions
  <2> DEFINE h == policy.maintenanceHistory
             i == FindInProgressRecord(policy)
  <2>1. CASE i = 0
    BY <2>1 DEF MarkRecordCompleted
  <2>2. CASE i # 0
    <3>1. MarkRecordCompleted(policy, outcome)
          = [policy EXCEPT !.maintenanceHistory =
               [h EXCEPT ![i] = [h[i] EXCEPT !.status = outcome]]]
      BY <2>2 DEF MarkRecordCompleted
    <3> QED
      BY <1>1, <3>1
  <2> QED
    BY <2>1, <2>2
<1> QED
  BY <1>2, <1>3 DEF IsConditionTrue

LEMMA FailMaintenanceConsistent ==
    ASSUME NEW policy \in PolicyStatusType, OneRunAtATime(policy)
    PROVE  Consistent(FailMaintenance(policy))
<1> DEFINE marked  == MarkRecordCompleted(policy, "Failed")
           cleared == SetCondition(marked, "MaintenanceInProgress", "False",
                                   "MaintenanceFailed")
           failed  == SetCondition(cleared, "LastMaintenanceFailed", "True",
                                   "MaintenanceFailed")
<1>1. marked \in PolicyStatusType /\ InProgressRecords(marked) = {}
  BY MarkRecordType, MarkedRecords DEF OneRunAtATime, MaintenanceStatus
<1> HIDE DEF marked
<1>2. cleared \in PolicyStatusType
  BY <1>1, SetConditionType DEF ConditionTypes, ConditionReasons
<1>3. InProgressRecords(failed) = {}
  BY <1>1, <1>2, SetConditionRecords DEF ConditionTypes
<1>4. ~IsConditionTrue(failed, "MaintenanceInProgress")
  <2>1. ~IsConditionTrue(cleared, "MaintenanceInProgress")
    BY <1>1, SetConditionValue DEF ConditionTypes
  <2> HIDE DEF cleared
  <2> QED
    BY <1>2, <2>1, SetConditionValue DEF ConditionTypes
<1>5. FailMaintenance(policy) = failed
  BY DEF FailMaintenance, marked
<1> HIDE DEF failed
<1> QED
  BY <1>3, <1>4, <1>5 DEF Consistent, OneRunAtATime, ConditionMatchesHistory

LEMMA CompleteMaintenanceConsistent ==
    ASSUME NEW policy \in PolicyStatusType, HasOpenRun(policy), OneRunAtATime(policy)
    PROVE  Consistent(CompleteMaintenance(policy))
<1> DEFINE paid    == [policy EXCEPT !.currentMemory = OpenRun(policy).appliedMemory]
           marked  == MarkRecordCompleted(paid, "Completed")
           cleared == SetCondition(marked, "MaintenanceInProgress", "False",
                                   "MaintenanceCompleted")
           done    == SetCondition(cleared, "LastMaintenanceFailed", "False",
                                   "MaintenanceSucceeded")
<1>1. paid \in PolicyStatusType /\ InProgressRecords(paid) = InProgressRecords(policy)
  <2>1. OpenRun(policy).appliedMemory \in OptionalMemory
    BY OpenRunType DEF MaintenanceRecord
  <2> QED
    BY <2>1, MemoryFieldType, MemoryFieldSame
<1> HIDE DEF paid
<1>2. marked \in PolicyStatusType /\ InProgressRecords(marked) = {}
  BY <1>1, MarkRecordType, MarkedRecords DEF OneRunAtATime, MaintenanceStatus
<1> HIDE DEF marked
<1>3. cleared \in PolicyStatusType
  BY <1>2, SetConditionType DEF ConditionTypes, ConditionReasons
<1>4. InProgressRecords(done) = {}
  BY <1>2, <1>3, SetConditionRecords DEF ConditionTypes
<1>5. ~IsConditionTrue(done, "MaintenanceInProgress")
  <2>1. ~IsConditionTrue(cleared, "MaintenanceInProgress")
    BY <1>2, SetConditionValue DEF ConditionTypes
  <2> HIDE DEF cleared
  <2> QED
    BY <1>3, <2>1, SetConditionValue DEF ConditionTypes
<1>6. CompleteMaintenance(policy) = done
  BY DEF CompleteMaintenance, marked, paid
<1> HIDE DEF done
<1> QED
  BY <1>4, <1>5, <1>6 DEF Consistent, OneRunAtATime, ConditionMatchesHistory

\* A skipped run is not in progress, and changes no condition.
LEMMA SkipMaintenanceSame ==
    ASSUME NEW policy \in PolicyStatusType, clock \in Nat,
           InProgressRecords(policy) = {}
    PROVE  /\ InProgressRecords(SkipMaintenance(policy)) = {}
           /\ \A type \in ConditionTypes :
                IsConditionTrue(SkipMaintenance(policy), type)
                <=> IsConditionTrue(policy, type)
<1> DEFINE record == [startedAt |-> clock, status |-> "Skipped",
                      phase |-> "", appliedMemory |-> NoMemory]
<1>1. record \in MaintenanceRecord /\ record.status # "InProgress"
  BY DEF MaintenanceRecord, MaintenanceStatus, MaintenancePhase, OptionalMemory
<1>2. SkipMaintenance(policy) = AddMaintenanceRecord(policy, record)
  BY DEF SkipMaintenance
<1> HIDE DEF record
<1> QED
  BY <1>1, <1>2, AddedRecords, HistoryKeepsConditions

LEMMA RecordStartConsistent ==
    ASSUME NEW policy \in PolicyStatusType, clock \in Nat,
           InProgressRecords(policy) = {}
    PROVE  Consistent(RecordStart(policy))
<1> DEFINE record == [startedAt |-> clock, status |-> "InProgress",
                      phase |-> "PatchApplied", appliedMemory |-> policy.memoryTarget]
           started == SetCondition(policy, "MaintenanceInProgress", "True",
                                   "MaintenanceStarted")
           new == AddMaintenanceRecord(started, record)
<1>1. record \in MaintenanceRecord /\ record.status = "InProgress"
  BY DEF MaintenanceRecord, MaintenanceStatus, MaintenancePhase, PolicyStatusType
<1>2. /\ started \in PolicyStatusType
      /\ InProgressRecords(started) = {}
      /\ IsConditionTrue(started, "MaintenanceInProgress")
  <2>1. /\ "MaintenanceInProgress" \in ConditionTypes
        /\ "MaintenanceStarted" \in ConditionReasons
    BY DEF ConditionTypes, ConditionReasons
  <2>2. started \in PolicyStatusType
    BY <2>1, SetConditionType
  <2>3. InProgressRecords(started) = {}
    BY <2>1, SetConditionRecords
  <2>4. IsConditionTrue(started, "MaintenanceInProgress")
    BY <2>1, SetConditionValue
  <2> QED
    BY <2>2, <2>3, <2>4
<1> HIDE DEF record, started
<1>3. InProgressRecords(new) = {Len(new.maintenanceHistory)}
  BY <1>1, <1>2, AddedRecords
<1>4. IsConditionTrue(new, "MaintenanceInProgress")
  BY <1>2, HistoryKeepsConditions
<1>5. RecordStart(policy) = new
  BY DEF RecordStart, record, started
<1> HIDE DEF new
<1> QED
  BY <1>3, <1>4, <1>5 DEF Consistent, OneRunAtATime, ConditionMatchesHistory

\* Advancing the phase keeps every record's status.
LEMMA AdvancePhaseConsistent ==
    ASSUME NEW policy \in PolicyStatusType, HasOpenRun(policy), Consistent(policy)
    PROVE  Consistent(AdvancePhase(policy))
<1> DEFINE h == policy.maintenanceHistory
           f == FindInProgressRecord(policy)
           new == AdvancePhase(policy)
<1>1. h \in Seq(MaintenanceRecord) /\ f \in DOMAIN h /\ h[f] \in MaintenanceRecord
  BY OpenRunType DEF InProgressRecords, PolicyStatusType, OpenRun
<1>2. /\ new.maintenanceHistory
         = [h EXCEPT ![f] = [h[f] EXCEPT !.phase = "PostActionsTriggered"]]
      /\ new.conditions = policy.conditions
  <2> DEFINE g == [h EXCEPT ![f] = [h[f] EXCEPT !.phase = "PostActionsTriggered"]]
  <2>1. new = [policy EXCEPT !.maintenanceHistory = g]
    BY DEF AdvancePhase
  <2> HIDE DEF g, new, h
  <2>2. new.maintenanceHistory = g /\ new.conditions = policy.conditions
    BY <2>1 DEF PolicyStatusType
  <2> QED
    BY <2>2 DEF g
<1> HIDE DEF h, f, new
<1>3. /\ DOMAIN new.maintenanceHistory = DOMAIN h
      /\ \A i \in DOMAIN h : new.maintenanceHistory[i].status = h[i].status
  BY <1>1, <1>2 DEF MaintenanceRecord
<1>4. InProgressRecords(new) = InProgressRecords(policy)
  BY <1>3 DEF InProgressRecords, h
<1>5. IsConditionTrue(new, "MaintenanceInProgress")
      <=> IsConditionTrue(policy, "MaintenanceInProgress")
  BY <1>2 DEF IsConditionTrue
<1> QED
  BY <1>4, <1>5, ConsistentSame DEF new

\* Reading the recommendation or the current memory starts and ends no run.
LEMMA SyncedSame ==
    ASSUME TypeOK
    PROVE  /\ InProgressRecords(Synced) = InProgressRecords(pol)
           /\ IsConditionTrue(Synced, "MaintenanceInProgress")
              <=> IsConditionTrue(pol, "MaintenanceInProgress")
<1> DEFINE ready == SetCondition(pol, "VPARecommendationReady", "True", "Ready")
<1>1. ready \in PolicyStatusType
  BY SetConditionType DEF TypeOK, ConditionTypes, ConditionReasons
<1>2. /\ InProgressRecords(ready) = InProgressRecords(pol)
      /\ IsConditionTrue(ready, "MaintenanceInProgress")
         <=> IsConditionTrue(pol, "MaintenanceInProgress")
  BY SetConditionRecords, SetConditionValue DEF TypeOK, ConditionTypes
<1>3. Synced = [ready EXCEPT !.memoryTarget = Recommendation(vpa)]
  BY DEF Synced
<1> HIDE DEF ready
<1>4. \A type \in ConditionTypes : IsConditionTrue(Synced, type) <=> IsConditionTrue(ready, type)
  BY <1>1, <1>3, MemoryFieldSame
<1>5. InProgressRecords(Synced) = InProgressRecords(ready)
  BY <1>1, <1>3, MemoryFieldSame
<1> QED
  BY <1>2, <1>4, <1>5 DEF ConditionTypes

LEMMA ObservedSame ==
    ASSUME TypeOK
    PROVE  /\ InProgressRecords(Observed) = InProgressRecords(pol)
           /\ IsConditionTrue(Observed, "MaintenanceInProgress")
              <=> IsConditionTrue(pol, "MaintenanceInProgress")
BY MemoryFieldSame DEF TypeOK, Observed, ConditionTypes
-----------------------------------------------------------------------------
\* Agreement of condition and history in every reachable state

LEMMA ConsistencyInvInit == Init => ConsistencyInv
BY EmptyStatusConsistent DEF Init, ConsistencyInv, ReadCalls, StartCalls

\* Every step of a reconcile but Begin and Persist changes the policy object in
\* hand only; it suffices that what it makes of it is consistent.
LEMMA CallKeepsConsistency ==
    ASSUME ConsistencyInv, pc # "idle", UNCHANGED <<status, cached, base>>,
           Consistent(pol'), pc' \in ReadCalls => pol' = pol /\ pc \in ReadCalls,
           pc' \in StartCalls => /\ InProgressRecords(pol') = {}
                                 /\ InProgressRecords(status) = {}
    PROVE  ConsistencyInv'
BY DEF ConsistencyInv

LEMMA ConsistencyInvReconcile ==
    ASSUME "stale" \notin Faults, TypeInv, ConsistencyInv, ReconcileStep
    PROVE  ConsistencyInv'
<1> USE DEF world, history
<1>1. CASE Begin
  BY <1>1 DEF Begin, GoTo, ConsistencyInv, ReadCalls, StartCalls
<1>2. CASE GetCurrentMemory
  <2>1. /\ pol' = pol /\ UNCHANGED <<status, cached, base>> /\ pc = "getMemory"
        /\ pc' \in {"persist", "bootstrap", "readVPA"}
    BY <1>2 DEF GetCurrentMemory, GoTo, Return
  <2>2. Consistent(pol')
    BY <2>1 DEF ConsistencyInv
  <2> QED
    BY <2>1, <2>2, CallKeepsConsistency DEF ReadCalls, StartCalls
<1>3. CASE Bootstrap
  <2>1. /\ pol' \in {pol, [pol EXCEPT !.currentMemory = InitialMemory]}
        /\ UNCHANGED <<status, cached, base>> /\ pc = "bootstrap" /\ pc' = "persist"
    BY <1>3 DEF Bootstrap, GoTo, Return
  <2>2. pol \in PolicyStatusType /\ Consistent(pol)
    BY <2>1 DEF TypeInv, TypeOK, ConsistencyInv
  <2>3. Consistent(pol')
    BY <2>1, <2>2, MemoryFieldSame, ConsistentSame DEF ConditionTypes
  <2> QED
    BY <2>1, <2>3, CallKeepsConsistency DEF ReadCalls, StartCalls
<1>4. CASE ReadNoRecommendation
  <2>1. /\ \/ pol' = pol
           \/ \E why \in ConditionReasons :
                pol' = SetCondition(pol, "VPARecommendationReady", "False", why)
        /\ UNCHANGED <<status, cached, base>> /\ pc = "readVPA" /\ pc' = "persist"
    BY <1>4 DEF ReadNoRecommendation, GoTo, Return, ConditionReasons
  <2>2. pol \in PolicyStatusType /\ Consistent(pol)
    BY <2>1 DEF TypeInv, TypeOK, ConsistencyInv
  <2>3. Consistent(pol')
    BY <2>1, <2>2, SetConditionRecords, SetConditionValue, ConsistentSame
       DEF ConditionTypes
  <2> QED
    BY <2>1, <2>3, CallKeepsConsistency DEF ReadCalls, StartCalls
<1>5. CASE WindowEvaluationFails \/ ResumeRun
  <2>1. /\ pol' = Synced /\ UNCHANGED <<status, cached, base>> /\ pc = "readVPA"
        /\ pc' \in {"persist", "monitor", "expired"}
    BY <1>5 DEF WindowEvaluationFails, ResumeRun, GoTo, Return
  <2>2. Consistent(pol')
    BY <2>1, SyncedSame, ConsistentSame DEF TypeInv, ConsistencyInv
  <2> QED
    BY <2>1, <2>2, CallKeepsConsistency DEF ReadCalls, StartCalls
<1>6. CASE ConsiderRun
  <2>1. /\ UNCHANGED <<status, cached, base>> /\ pc = "readVPA"
        /\ pc' \in {"persist", "healthGate", "start"}
        /\ RecommendationReady /\ ~HasOpenRun(Synced)
    BY <1>6 DEF ConsiderRun, ClearStaleCondition, GoTo
  <2>2. Consistent(pol) /\ pol = base /\ base = status
    BY <2>1 DEF ConsistencyInv, ReadCalls
  <2>3. Consistent(Synced) /\ Synced \in PolicyStatusType
    BY <2>1, <2>2, SyncedSame, SyncedType, ConsistentSame DEF TypeInv
  <2>4. ~IsConditionTrue(Synced, "MaintenanceInProgress") /\ InProgressRecords(Synced) = {}
    BY <2>1, <2>3, FindInProgress DEF HasOpenRun, Consistent, ConditionMatchesHistory
  <2>5. pol' = Synced
    BY <1>6, <2>4 DEF ConsiderRun, ClearStaleCondition, GoTo
  <2>6. InProgressRecords(status) = {}
    BY <2>2, <2>4, SyncedSame DEF TypeInv
  <2> QED
    BY <2>1, <2>3, <2>4, <2>5, <2>6, CallKeepsConsistency DEF ReadCalls, StartCalls
<1>7. CASE CheckHealthGate
  <2>1. /\ \/ pol' = pol
           \/ pol' = SkipMaintenance(pol) /\ pc' = "persist"
        /\ UNCHANGED <<status, cached, base>> /\ pc = "healthGate"
        /\ pc' \in {"persist", "start"}
    BY <1>7 DEF CheckHealthGate, GoTo, Return
  <2>2. /\ pol \in PolicyStatusType /\ clock \in Nat /\ Consistent(pol)
        /\ InProgressRecords(pol) = {} /\ InProgressRecords(status) = {}
    BY <2>1 DEF TypeInv, TypeOK, ConsistencyInv, StartCalls
  <2>3. Consistent(SkipMaintenance(pol))
    BY <2>2, SkipMaintenanceSame, ConsistentSame DEF ConditionTypes
  <2> QED
    BY <2>1, <2>2, <2>3, CallKeepsConsistency DEF ReadCalls, StartCalls
<1>8. CASE ChangeGateBlocks
  <2> DEFINE skipped == SkipMaintenance(Observed)
  <2>1. /\ pol' = SetCondition(skipped, "MaintenanceInProgress", "False", Gate)
        /\ UNCHANGED <<status, cached, base>> /\ pc = "start" /\ pc' = "persist"
    BY <1>8 DEF ChangeGateBlocks, GoTo, Return
  <2>2. /\ Observed \in PolicyStatusType /\ clock \in Nat
        /\ InProgressRecords(Observed) = {}
    BY <2>1, ObservedType, ObservedSame DEF TypeInv, TypeOK, ConsistencyInv, StartCalls
  <2>3. skipped \in PolicyStatusType /\ InProgressRecords(skipped) = {}
    BY <2>2, SkipMaintenanceType, SkipMaintenanceSame
  <2> HIDE DEF skipped
  <2>4. InProgressRecords(pol') = {} /\ ~IsConditionTrue(pol', "MaintenanceInProgress")
    BY <2>1, <2>3, SetConditionRecords, SetConditionValue DEF ConditionTypes
  <2>5. Consistent(pol')
    BY <2>4 DEF Consistent, OneRunAtATime, ConditionMatchesHistory
  <2> QED
    BY <2>1, <2>5, CallKeepsConsistency DEF ReadCalls, StartCalls
<1>9. CASE StartMaintenance
  <2>1. /\ pol' \in {FailMaintenance(Observed), RecordStart(Observed)}
        /\ UNCHANGED <<status, cached, base>> /\ pc = "start" /\ pc' = "persist"
    BY <1>9 DEF StartMaintenance, GoTo, Return
  <2>2. /\ Observed \in PolicyStatusType /\ clock \in Nat
        /\ InProgressRecords(Observed) = {}
    BY <2>1, ObservedType, ObservedSame DEF TypeInv, TypeOK, ConsistencyInv, StartCalls
  <2>3. Consistent(pol')
    BY <2>1, <2>2, FailMaintenanceConsistent, RecordStartConsistent DEF OneRunAtATime
  <2> QED
    BY <2>1, <2>3, CallKeepsConsistency DEF ReadCalls, StartCalls
<1>10. CASE MonitorCluster \/ MonitorRollout \/ HandleWindowExpired \/ CheckExpiredRollout
  <2>1. /\ pol' \in {pol, CompleteMaintenance(pol), FailMaintenance(pol)}
        /\ UNCHANGED <<status, cached, base>> /\ pc \in RunCalls
        /\ pc' \in RunCalls \cup {"persist"}
    BY <1>10 DEF MonitorCluster, MonitorRollout, HandleWindowExpired,
                 CheckExpiredRollout, GoTo, Return, RunCalls
  <2>2. /\ pol \in PolicyStatusType /\ Consistent(pol) /\ HasOpenRun(pol)
        /\ OneRunAtATime(pol)
    BY <2>1 DEF TypeInv, TypeOK, ConsistencyInv, Consistent, RunCalls
  <2>3. Consistent(pol')
    BY <2>1, <2>2, CompleteMaintenanceConsistent, FailMaintenanceConsistent
  <2> QED
    BY <2>1, <2>3, CallKeepsConsistency DEF RunCalls, ReadCalls, StartCalls
<1>11. CASE TriggerPostAction
  <2>1. /\ pol' \in {pol, FailMaintenance(pol), AdvancePhase(pol)}
        /\ UNCHANGED <<status, cached, base>> /\ pc = "trigger"
        /\ pc' \in {"trigger", "persist"}
    BY <1>11 DEF TriggerPostAction, GoTo, Return
  <2>2. /\ pol \in PolicyStatusType /\ Consistent(pol) /\ HasOpenRun(pol)
        /\ OneRunAtATime(pol)
    BY <2>1 DEF TypeInv, TypeOK, ConsistencyInv, Consistent, RunCalls
  <2>3. Consistent(pol')
    BY <2>1, <2>2, FailMaintenanceConsistent, AdvancePhaseConsistent
  <2> QED
    BY <2>1, <2>3, CallKeepsConsistency DEF ReadCalls, StartCalls
<1>12. CASE Persist
  <2>1. base = status /\ Consistent(pol) /\ Consistent(status) /\ cached = status
    BY <1>12 DEF Persist, ConsistencyInv
  <2>2. MergePatch(status, base, pol) = pol
    BY <2>1, MergePatchOfCurrent DEF TypeInv, TypeOK
  <2>3. Consistent(status') /\ cached' = status' /\ pc' = "idle"
    BY <1>12, <2>1, <2>2 DEF Persist, EndReconcile
  <2> QED
    BY <2>3 DEF ConsistencyInv, ReadCalls, StartCalls
<1> QED
  BY <1>1, <1>2, <1>3, <1>4, <1>5, <1>6, <1>7, <1>8, <1>9, <1>10, <1>11, <1>12
     DEF ReconcileStep

LEMMA ConsistencyInvNext ==
    ASSUME "stale" \notin Faults, TypeInv, ConsistencyInv, [Next]_vars
    PROVE  ConsistencyInv'
<1> USE DEF ConsistencyInv, ReadCalls, StartCalls
<1>1. CASE ReconcileStep
  BY <1>1, ConsistencyInvReconcile
<1>2. CASE Crash
  BY <1>2 DEF Crash, EndReconcile, world
<1>3. CASE CacheSync
  BY <1>3 DEF CacheSync
<1>4. CASE Tick \/ VPAChanges \/ \E t \in Targets : RolloutProgresses(t)
  BY <1>4 DEF Tick, VPAChanges, RolloutProgresses, reconcile
<1>5. CASE ClusterStopsRunning \/ ClusterRuns \/ ClusterDeleted \/ ClusterCreated
  BY <1>5 DEF ClusterStopsRunning, ClusterRuns, ClusterDeleted, ClusterCreated,
              EnvironmentUnchanged, reconcile
<1>6. CASE UNCHANGED vars
  BY <1>6 DEF vars, world, reconcile
<1> QED
  BY <1>1, <1>2, <1>3, <1>4, <1>5, <1>6 DEF Next, Environment

\* When the informer cache is up to date at every read, the condition and the
\* history agree in every reachable state, whatever fails and however often.
THEOREM StatusStaysConsistent ==
    ASSUME "stale" \notin Faults
    PROVE  Spec => []StatusConsistent
<1>1. TypeInv /\ ConsistencyInv /\ [Next]_vars => (TypeInv /\ ConsistencyInv)'
  BY TypeInvNext, ConsistencyInvNext
<1>2. Init => TypeInv /\ ConsistencyInv
  BY TypeInvInit, ConsistencyInvInit
<1>3. ConsistencyInv => StatusConsistent
  BY DEF ConsistencyInv, StatusConsistent
<1> QED
  BY <1>1, <1>2, <1>3, PTL DEF Spec

\* Under the same condition no maintenance run patches the cluster while
\* another run is in progress.
THEOREM NoPatchDuringRuns ==
    ASSUME "stale" \notin Faults
    PROVE  Spec => NoPatchDuringRun
<1>1. TypeInv /\ ConsistencyInv /\ [Next]_vars => (TypeInv /\ ConsistencyInv)'
  BY TypeInvNext, ConsistencyInvNext
<1>2. Init => TypeInv /\ ConsistencyInv
  BY TypeInvInit, ConsistencyInvInit
<1>3. ConsistencyInv /\ [Next]_vars
      => [MaintenancePatch => InProgressRecords(status) = {}]_vars
  BY DEF ConsistencyInv, MaintenancePatch, StartCalls
<1> QED
  BY <1>1, <1>2, <1>3, PTL DEF Spec, NoPatchDuringRun
=============================================================================
