----------------------------- MODULE Reconciler -----------------------------
(***************************************************************************)
(* The reconcile loop of postgresmemorpolicy_controller.go for one policy,  *)
(* between the API server and the cluster it maintains.                     *)
(*                                                                         *)
(* One reconcile is a thread of control: every call it makes to the API     *)
(* server is a step of its own (pc names the next one), so that the clock,  *)
(* the VPA, the Zalando operator, the workload controllers and failures     *)
(* interleave with it wherever the code can be overtaken.  The code between *)
(* two calls is part of the step of the call before it.                     *)
(*                                                                         *)
(* Simplifications: the policy's spec does not change; one reconcile runs   *)
(* at a time (one worker; Replicas has two controllers); it may start       *)
(* whenever none is running, since the controller requeues itself in every  *)
(* branch and its own status patches wake it; memory quantities are natural *)
(* numbers and CPU, limits and PostgreSQL parameters follow them silently.  *)
(***************************************************************************)
EXTENDS PolicyStatus, MaintenanceWindow, Sizing

CONSTANTS
    InitialMemory,          \* spec.initialMemory, or NoMemory
    RequireHealthyCluster,  \* spec.safetyGates.requireHealthyCluster
    PostActions,            \* spec.postActions: a sequence of rollout targets
    NoVPA,                  \* the VPA object does not exist
    NoRecommendation,       \* it has no memory recommendation for the container
    VPAStates,              \* what the VPA may say: NoVPA, NoRecommendation, memory
    ClusterMemories,        \* memory a cluster may be created with
    Faults,                 \* the kinds of failure that may happen
    MaxFaults,              \* how many of them (bound)
    MaxTime                 \* last instant of the clock (bound)

FaultKinds ==
    {"crash",      \* the controller dies inside a reconcile
     "api",        \* a call fails without effect
     "lostReply",  \* a patch takes effect and reports an error
     "params",     \* a PostgreSQL parameter template does not evaluate
     "delete",     \* the Zalando resource is deleted (and may come back)
     "stale"}      \* the informer cache lags behind the API server

ASSUME InitialMemoryAssumption == InitialMemory \in OptionalMemory
ASSUME RequireHealthyAssumption == RequireHealthyCluster \in BOOLEAN
ASSUME PostActionsAssumption == PostActions \in Seq(STRING)
ASSUME VPAStatesAssumption == VPAStates \subseteq Nat \cup {NoVPA, NoRecommendation}
ASSUME NoVPAAssumption == NoVPA \notin Nat /\ NoRecommendation \notin Nat
ASSUME ClusterMemoriesAssumption == ClusterMemories \subseteq OptionalMemory
ASSUME FaultsAssumption == Faults \subseteq FaultKinds /\ MaxFaults \in Nat
ASSUME MaxTimeAssumption == MaxTime \in Nat

Targets == {PostActions[i] : i \in DOMAIN PostActions}

VARIABLES
    clock,      \* the time
    status,     \* the policy's status on the API server
    cached,     \* its copy in the informer cache
    cluster,    \* the Zalando resource
    vpa,        \* what the VPA says
    rollout,    \* how far the rollout of each post-action target is
    pc,         \* the next call of the running reconcile, "idle" when none runs
    pol,        \* reconcile: the policy object being changed
    base,       \* reconcile: the snapshot patchBase
    cur,        \* reconcile: currentMemory
    next,       \* reconcile: position in spec.postActions
    faults,     \* failures still allowed (bound)
    lastPatch,  \* history: when a maintenance run last patched the cluster, -1 never
    restarted   \* history: targets restarted since then

reconcile == <<pc, pol, base, cur, next>>
world     == <<clock, status, cached, cluster, vpa, rollout>>
history   == <<lastPatch, restarted>>
vars      == <<world, reconcile, faults, history>>

Calls ==
    {"idle", "getMemory", "bootstrap", "readVPA", "monitor", "trigger",
     "expired", "expiredRollouts", "healthGate", "start", "persist"}

\* "misread": the rollout is not over and the replica counts, as the controller
\* reads them, say that it is: the status has not yet observed the template, or
\* the counts of new pods and of ready old pods add up (see Rollouts).
RolloutStates == {"settled", "misread", "rolling"}

ClusterType ==
    [exists  : BOOLEAN,
     memory  : OptionalMemory,  \* spec.resources.requests.memory
     updated : BOOLEAN,         \* the pods run with that memory
     running : BOOLEAN]         \* status.PostgresClusterStatus is "Running"

NoCluster == [exists |-> FALSE, memory |-> NoMemory,
              updated |-> TRUE, running |-> FALSE]

TypeOK ==
    /\ clock \in Nat
    /\ status \in PolicyStatusType
    /\ cached \in PolicyStatusType
    /\ cluster \in ClusterType
    /\ vpa \in Nat \cup {NoVPA, NoRecommendation}
    /\ rollout \in [Targets -> RolloutStates]
    /\ pc \in Calls
    /\ pol \in PolicyStatusType
    /\ base \in PolicyStatusType
    /\ cur \in OptionalMemory
    /\ next \in Nat \ {0}
    /\ faults \in Nat
    /\ lastPatch \in Int
    /\ restarted \subseteq Targets

Init ==
    /\ clock = 0
    /\ status = EmptyStatus
    /\ cached = EmptyStatus
    /\ \/ cluster \in [exists : {TRUE}, memory : ClusterMemories,
                       updated : {TRUE}, running : BOOLEAN]
       \/ "delete" \in Faults /\ cluster = NoCluster
    /\ vpa \in VPAStates
    /\ rollout = [t \in Targets |-> "settled"]
    /\ pc = "idle"
    /\ pol = EmptyStatus
    /\ base = EmptyStatus
    /\ cur = NoMemory
    /\ next = 1
    /\ faults = MaxFaults
    /\ lastPatch = -1
    /\ restarted = {}

-----------------------------------------------------------------------------
\* Failures

NoFault == UNCHANGED faults

Fault(kind) ==
    /\ kind \in Faults
    /\ faults > 0
    /\ faults' = faults - 1

-----------------------------------------------------------------------------
\* Steps that a reconcile ends a call with

GoTo(call, policy) ==
    /\ pc' = call
    /\ pol' = policy

\* reconcilePolicy returns; its caller patches the status next.
Return(policy) == GoTo("persist", policy)

\* The variables of Reconcile go out of scope.
EndReconcile ==
    /\ pc' = "idle"
    /\ pol' = EmptyStatus
    /\ base' = EmptyStatus
    /\ cur' = NoMemory
    /\ next' = 1

\* PatchResources with the given memory, for a maintenance run or not.
PatchResources(memory, succeeds, forRun) ==
    \/ /\ cluster.exists
       /\ IF succeeds THEN NoFault ELSE Fault("lostReply")
       /\ cluster' = [cluster EXCEPT !.memory = memory, !.updated = FALSE]
       /\ IF forRun THEN lastPatch' = clock /\ restarted' = {}
                    ELSE UNCHANGED history
    \/ /\ ~succeeds
       /\ IF cluster.exists THEN Fault("api") ELSE NoFault
       /\ UNCHANGED <<cluster, history>>

\* IsClusterHealthy returns an error, or whether the cluster is running.
HealthError == IF cluster.exists THEN Fault("api") ELSE NoFault
HealthIs(healthy) ==
    /\ cluster.exists
    /\ cluster.running = healthy
    /\ NoFault

\* isRolloutComplete compares replica counts only.
IsRolloutComplete(target) == rollout[target] # "rolling"

-----------------------------------------------------------------------------
\* What a reconcile does to the status

\* Slips of the operators below, for mutation runs: each is the operator with
\* one thing forgotten or confused.
HasOpenRunBeforePostActions(policy) ==
    /\ IsConditionTrue(policy, "MaintenanceInProgress")
    /\ \E i \in InProgressRecords(policy) :
          policy.maintenanceHistory[i].phase = "PatchApplied"

FailMaintenanceKeepsRecord(policy) ==
    SetCondition(
      SetCondition(policy, "MaintenanceInProgress", "False", "MaintenanceFailed"),
      "LastMaintenanceFailed", "True", "MaintenanceFailed")

FailMaintenanceSilently(policy) ==
    SetCondition(MarkRecordCompleted(policy, "Failed"),
                 "MaintenanceInProgress", "False", "MaintenanceFailed")

FailMaintenanceUnsettled(policy) ==
    SetCondition(policy, "LastMaintenanceFailed", "True", "MaintenanceFailed")

RecordStartWithOldMemory(policy) ==
    AddMaintenanceRecord(
        SetCondition(policy, "MaintenanceInProgress", "True", "MaintenanceStarted"),
        [startedAt |-> clock, status |-> "InProgress",
         phase |-> "PatchApplied", appliedMemory |-> policy.currentMemory])

RecordStartTriggered(policy) ==
    AddMaintenanceRecord(
        SetCondition(policy, "MaintenanceInProgress", "True", "MaintenanceStarted"),
        [startedAt |-> clock, status |-> "InProgress",
         phase |-> "PostActionsTriggered", appliedMemory |-> policy.memoryTarget])

AdvancePhaseToUnknown(policy) ==
    [policy EXCEPT
        !.maintenanceHistory[FindInProgressRecord(policy)].phase = "Completed"]

OpenRun(policy) == policy.maintenanceHistory[FindInProgressRecord(policy)]

HasOpenRun(policy) ==
    /\ IsConditionTrue(policy, "MaintenanceInProgress")
    /\ FindInProgressRecord(policy) # 0

CompleteMaintenance(policy) ==
    LET marked == MarkRecordCompleted(
                    [policy EXCEPT !.currentMemory = OpenRun(policy).appliedMemory],
                    "Completed")
    IN  SetCondition(
          SetCondition(marked, "MaintenanceInProgress", "False", "MaintenanceCompleted"),
          "LastMaintenanceFailed", "False", "MaintenanceSucceeded")

FailMaintenance(policy) ==
    SetCondition(
      SetCondition(MarkRecordCompleted(policy, "Failed"),
                   "MaintenanceInProgress", "False", "MaintenanceFailed"),
      "LastMaintenanceFailed", "True", "MaintenanceFailed")

SkipMaintenance(policy) ==
    AddMaintenanceRecord(policy,
        [startedAt |-> clock, status |-> "Skipped",
         phase |-> "", appliedMemory |-> NoMemory])

RecordStart(policy) ==
    AddMaintenanceRecord(
        SetCondition(policy, "MaintenanceInProgress", "True", "MaintenanceStarted"),
        [startedAt |-> clock, status |-> "InProgress",
         phase |-> "PatchApplied", appliedMemory |-> policy.memoryTarget])

AdvancePhase(policy) ==
    [policy EXCEPT
        !.maintenanceHistory[FindInProgressRecord(policy)].phase = "PostActionsTriggered"]
-----------------------------------------------------------------------------
\* Reconcile, up to the window check

\* Reads the policy from the informer cache and keeps a copy to diff against.
\* (A cache that is synced fails for a deleted policy only, which leaves nothing
\* to do and nothing to come back to.)
Begin ==
    /\ pc = "idle"
    /\ GoTo("getMemory", cached)
    /\ base' = cached
    /\ NoFault
    /\ UNCHANGED <<world, cur, next, history>>

\* A cluster that does not exist, or has no memory set, has no current memory.
GetCurrentMemory ==
    /\ pc = "getMemory"
    /\ \/ /\ Fault("api")
          /\ Return(pol)
          /\ UNCHANGED cur
       \/ /\ NoFault
          /\ cur' = IF cluster.exists THEN cluster.memory ELSE NoMemory
          /\ GoTo(IF cur' = NoMemory /\ InitialMemory # NoMemory
                  THEN "bootstrap" ELSE "readVPA", pol)
    /\ UNCHANGED <<world, base, next, history>>

\* Applies initialMemory: no window, no gates, no record.
Bootstrap ==
    /\ pc = "bootstrap"
    /\ \/ /\ Fault("params")
          /\ Return(pol)
          /\ UNCHANGED <<cluster, history>>
       \/ \E ok \in BOOLEAN :
            /\ PatchResources(InitialMemory, ok, FALSE)
            /\ Return(IF ok THEN [pol EXCEPT !.currentMemory = InitialMemory] ELSE pol)
    /\ UNCHANGED <<clock, status, cached, vpa, rollout, base, cur, next>>

RecommendationReady == vpa \notin {NoVPA, NoRecommendation}

\* The status once the recommendation is read.
Synced ==
    [SetCondition(pol, "VPARecommendationReady", "True", "Ready")
        EXCEPT !.memoryTarget = Recommendation(vpa)]

\* Without a recommendation the reconcile ends here, whatever it was about to do.
ReadNoRecommendation ==
    /\ pc = "readVPA"
    /\ \/ /\ Fault("api")
          /\ Return(pol)
       \/ /\ ~RecommendationReady
          /\ NoFault
          /\ Return(SetCondition(pol, "VPARecommendationReady", "False",
                        IF vpa = NoVPA THEN "VPANotFound" ELSE "NoRecommendationYet"))
    /\ UNCHANGED <<world, base, cur, next, history>>

WindowEvaluationFails ==
    /\ pc = "readVPA"
    /\ RecommendationReady
    /\ Evaluate(clock).error
    /\ Return(Synced)
    /\ NoFault
    /\ UNCHANGED <<world, base, cur, next, history>>

\* A run is in progress: monitor it in the window, settle it outside.
ResumeRun ==
    /\ pc = "readVPA"
    /\ RecommendationReady
    /\ ~Evaluate(clock).error
    /\ HasOpenRun(Synced)
    /\ GoTo(IF Evaluate(clock).inWindow THEN "monitor" ELSE "expired", Synced)
    /\ NoFault
    /\ UNCHANGED <<world, base, cur, next, history>>

\* A slip for a mutation run: a run is considered outside windows as well.
ConsiderRunAnyTime ==
    LET window == Evaluate(clock)
        proceed == ~HasCompletedMaintenanceInWindow(Synced, window.nextOpen, window.windowEnd)
    IN  /\ pc = "readVPA"
        /\ RecommendationReady
        /\ ~window.error
        /\ ~HasOpenRun(Synced)
        /\ GoTo(IF ~proceed THEN "persist"
                ELSE IF RequireHealthyCluster THEN "healthGate" ELSE "start", Synced)
        /\ NoFault
        /\ UNCHANGED <<world, base, cur, next, history>>

\* A slip for a mutation run: the condition stays.
KeepStaleCondition(policy) == policy

\* The condition of a policy without an open run.
ClearStaleCondition(policy) ==
    IF IsConditionTrue(policy, "MaintenanceInProgress")
    THEN SetCondition(policy, "MaintenanceInProgress", "False", "StaleConditionCleared")
    ELSE policy

\* No run is in progress (a condition that says otherwise is cleared): go on
\* to the safety gates in a window that has no completed run yet.
ConsiderRun ==
    LET window == Evaluate(clock)
        cleared == ClearStaleCondition(Synced)
        proceed ==
            /\ window.inWindow
            /\ ~HasCompletedMaintenanceInWindow(cleared, window.nextOpen, window.windowEnd)
    IN  /\ pc = "readVPA"
        /\ RecommendationReady
        /\ ~window.error
        /\ ~HasOpenRun(Synced)
        /\ GoTo(IF ~proceed THEN "persist"
                ELSE IF RequireHealthyCluster THEN "healthGate" ELSE "start", cleared)
        /\ NoFault
        /\ UNCHANGED <<world, base, cur, next, history>>

-----------------------------------------------------------------------------
\* Starting a run

CheckHealthGate ==
    /\ pc = "healthGate"
    /\ \/ HealthError /\ Return(pol)
       \/ HealthIs(FALSE) /\ Return(SkipMaintenance(pol))
       \/ HealthIs(TRUE) /\ GoTo("start", pol)
    /\ UNCHANGED <<world, base, cur, next, history>>

\* The memory read at the start of the reconcile, shown in the status.
Observed == IF cur = NoMemory THEN pol ELSE [pol EXCEPT !.currentMemory = cur]

\* A slip for a mutation run: the gates look at the status, not at the cluster.
GateOnStatus ==
    IF pol.currentMemory = NoMemory THEN ""
    ELSE ChangeGate(pol.currentMemory, pol.memoryTarget)

Gate == IF cur = NoMemory THEN "" ELSE ChangeGate(cur, pol.memoryTarget)

ChangeGateBlocks ==
    /\ pc = "start"
    /\ Gate # ""
    /\ Return(SetCondition(SkipMaintenance(Observed),
                           "MaintenanceInProgress", "False", Gate))
    /\ NoFault
    /\ UNCHANGED <<world, base, cur, next, history>>

\* The record of the run is only written to the policy object after the patch;
\* a start that fails marks the in-progress record, of which there is none.
StartMaintenance ==
    /\ pc = "start"
    /\ Gate = ""
    /\ \/ /\ Fault("params")
          /\ Return(FailMaintenance(Observed))
          /\ UNCHANGED <<cluster, history>>
       \/ \E ok \in BOOLEAN :
            /\ PatchResources(pol.memoryTarget, ok, TRUE)
            /\ Return(IF ok THEN RecordStart(Observed) ELSE FailMaintenance(Observed))
    /\ UNCHANGED <<clock, status, cached, vpa, rollout, base, cur, next>>

-----------------------------------------------------------------------------
\* Monitoring a run inside its window

MonitorCluster ==
    /\ pc = "monitor"
    /\ OpenRun(pol).phase = "PatchApplied"
    /\ \/ HealthError /\ Return(pol)
       \/ HealthIs(FALSE) /\ Return(pol)
       \/ /\ HealthIs(TRUE)
          /\ IF PostActions = << >> THEN Return(CompleteMaintenance(pol))
                                    ELSE GoTo("trigger", pol)
    /\ next' = 1
    /\ UNCHANGED <<world, base, cur, history>>

Restart(target) ==
    /\ rollout' = [rollout EXCEPT ![target] = "misread"]
    /\ restarted' = restarted \cup {target}

\* One target of TriggerPostActions; the first error fails the run.
TriggerPostAction ==
    /\ pc = "trigger"
    /\ \/ /\ Fault("api")
          /\ Return(FailMaintenance(pol))
          /\ UNCHANGED <<rollout, restarted, next>>
       \/ /\ Fault("lostReply")
          /\ Return(FailMaintenance(pol))
          /\ Restart(PostActions[next])
          /\ UNCHANGED next
       \/ /\ NoFault
          /\ Restart(PostActions[next])
          /\ next' = next + 1
          /\ IF next = Len(PostActions) THEN Return(AdvancePhase(pol))
                                        ELSE GoTo("trigger", pol)
    /\ UNCHANGED <<clock, status, cached, cluster, vpa, base, cur, lastPatch>>

\* One target of ArePostActionsComplete, up to the first that is not complete.
MonitorRollout ==
    /\ pc = "monitor"
    /\ OpenRun(pol).phase = "PostActionsTriggered"
    /\ \/ /\ Fault("api")
          /\ Return(pol)
          /\ UNCHANGED next
       \/ /\ ~IsRolloutComplete(PostActions[next])
          /\ NoFault
          /\ Return(pol)
          /\ UNCHANGED next
       \/ /\ IsRolloutComplete(PostActions[next])
          /\ NoFault
          /\ next' = next + 1
          /\ IF next = Len(PostActions) THEN Return(CompleteMaintenance(pol))
                                        ELSE GoTo("monitor", pol)
    /\ UNCHANGED <<world, base, cur, history>>
-----------------------------------------------------------------------------
\* Settling a run whose window has closed

\* A slip for a mutation run: the grace check forgets that post-actions which
\* were never triggered are not done.
HandleWindowExpiredWithoutPhase ==
    /\ pc = "expired"
    /\ \/ HealthError /\ Return(FailMaintenance(pol))
       \/ HealthIs(FALSE) /\ Return(FailMaintenance(pol))
       \/ /\ HealthIs(TRUE)
          /\ IF OpenRun(pol).phase = "PostActionsTriggered"
             THEN GoTo("expiredRollouts", pol)
             ELSE Return(CompleteMaintenance(pol))
    /\ UNCHANGED <<world, base, cur, next, history>>

\* Errors fail the run here, unlike in the window.
HandleWindowExpired ==
    /\ pc = "expired"
    /\ \/ HealthError /\ Return(FailMaintenance(pol))
       \/ HealthIs(FALSE) /\ Return(FailMaintenance(pol))
       \/ /\ HealthIs(TRUE)
          /\ IF OpenRun(pol).phase = "PostActionsTriggered"
             THEN GoTo("expiredRollouts", pol)
             ELSE IF PostActions = << >>
             THEN Return(CompleteMaintenance(pol))
             ELSE Return(FailMaintenance(pol))
    /\ UNCHANGED <<world, base, cur, next, history>>

CheckExpiredRollout ==
    /\ pc = "expiredRollouts"
    /\ \/ /\ Fault("api")
          /\ Return(FailMaintenance(pol))
          /\ UNCHANGED next
       \/ /\ ~IsRolloutComplete(PostActions[next])
          /\ NoFault
          /\ Return(FailMaintenance(pol))
          /\ UNCHANGED next
       \/ /\ IsRolloutComplete(PostActions[next])
          /\ NoFault
          /\ next' = next + 1
          /\ IF next = Len(PostActions) THEN Return(CompleteMaintenance(pol))
                                        ELSE GoTo("expiredRollouts", pol)
    /\ UNCHANGED <<world, base, cur, history>>

-----------------------------------------------------------------------------
\* Persisting the status

\* The informer cache follows at once unless it is allowed to be stale.
Persist ==
    /\ pc = "persist"
    /\ \/ /\ NoFault \/ Fault("lostReply")
          /\ status' = MergePatch(status, base, pol)
          /\ cached' = IF "stale" \in Faults THEN cached ELSE status'
       \/ /\ Fault("api")
          /\ UNCHANGED <<status, cached>>
    /\ EndReconcile
    /\ UNCHANGED <<clock, cluster, vpa, rollout, history>>

ReconcileStep ==
    \/ Begin
    \/ GetCurrentMemory
    \/ Bootstrap
    \/ ReadNoRecommendation
    \/ WindowEvaluationFails
    \/ ResumeRun
    \/ ConsiderRun
    \/ CheckHealthGate
    \/ ChangeGateBlocks
    \/ StartMaintenance
    \/ MonitorCluster
    \/ TriggerPostAction
    \/ MonitorRollout
    \/ HandleWindowExpired
    \/ CheckExpiredRollout
    \/ Persist

-----------------------------------------------------------------------------
\* The world around the reconcile loop

\* The controller is killed: what the reconcile held is lost.
Crash ==
    /\ pc # "idle"
    /\ Fault("crash")
    /\ EndReconcile
    /\ UNCHANGED <<world, history>>

CacheSync ==
    /\ "stale" \in Faults
    /\ cached # status
    /\ cached' = status
    /\ UNCHANGED <<clock, status, cluster, vpa, rollout, reconcile, faults, history>>

Tick ==
    /\ clock < MaxTime
    /\ clock' = clock + 1
    /\ UNCHANGED <<status, cached, cluster, vpa, rollout, reconcile, faults, history>>

VPAChanges ==
    /\ vpa' \in VPAStates \ {vpa}
    /\ UNCHANGED <<clock, status, cached, cluster, rollout, reconcile, faults, history>>

EnvironmentUnchanged ==
    UNCHANGED <<clock, status, cached, vpa, rollout, reconcile, history>>

\* The Zalando operator starts an update, or the cluster degrades.
ClusterStopsRunning ==
    /\ cluster.running
    /\ cluster' = [cluster EXCEPT !.running = FALSE]
    /\ NoFault
    /\ EnvironmentUnchanged

\* The Zalando operator has brought the cluster to its spec.
ClusterRuns ==
    /\ cluster.exists
    /\ ~cluster.running
    /\ cluster' = [cluster EXCEPT !.running = TRUE, !.updated = TRUE]
    /\ NoFault
    /\ EnvironmentUnchanged

ClusterDeleted ==
    /\ cluster.exists
    /\ Fault("delete")
    /\ cluster' = NoCluster
    /\ EnvironmentUnchanged

ClusterCreated ==
    /\ ~cluster.exists
    /\ cluster' \in [exists : {TRUE}, memory : ClusterMemories,
                     updated : {TRUE}, running : {FALSE}]
    /\ NoFault
    /\ EnvironmentUnchanged

\* The workload controller sees the new template, replaces the pods and, in
\* the end, is through.
RolloutProgresses(target) ==
    /\ rollout[target] # "settled"
    /\ \E stage \in RolloutStates \ {rollout[target]} :
          rollout' = [rollout EXCEPT ![target] = stage]
    /\ UNCHANGED <<clock, status, cached, cluster, vpa, reconcile, faults, history>>

Environment ==
    \/ Crash
    \/ CacheSync
    \/ Tick
    \/ VPAChanges
    \/ ClusterStopsRunning
    \/ ClusterRuns
    \/ ClusterDeleted
    \/ ClusterCreated
    \/ \E t \in Targets : RolloutProgresses(t)

Next == ReconcileStep \/ Environment

\* The work queue keeps handing the policy to the reconcile loop, whose calls
\* return; time passes; the watch behind the informer cache catches up.
\* Nothing is promised of the cluster, the VPA or the workloads.
Fairness == WF_vars(ReconcileStep) /\ WF_vars(Tick) /\ WF_vars(CacheSync)

Spec == Init /\ [][Next]_vars /\ Fairness
=============================================================================
