------------------------ MODULE ReconcilerProperties ------------------------
(***************************************************************************)
(* What the reconcile loop must keep true of the status it persists, of the *)
(* cluster it patches and of the workloads it restarts.                     *)
(***************************************************************************)
EXTENDS Reconciler

OneRunAtATime(policy) ==
    \A i, j \in InProgressRecords(policy) : i = j

ConditionMatchesHistory(policy) ==
    IsConditionTrue(policy, "MaintenanceInProgress") <=> InProgressRecords(policy) # {}

Consistent(policy) ==
    OneRunAtATime(policy) /\ ConditionMatchesHistory(policy)

\* The two places that say a run is in progress, the MaintenanceInProgress
\* condition and the history, never disagree on the server, and the history
\* has one such run at most: otherwise findInProgressRecord picks a record the
\* condition is not about, or a run is orphaned (StaleConditionCleared).
StatusConsistent == Consistent(status)

\* While a run is in progress the cluster has the memory that the record says
\* was applied, whatever failed or was repeated, so that completeMaintenance
\* reports what the cluster really has.  (Provided nobody else edits or
\* recreates the cluster.)
AppliedIsCurrent ==
    HasOpenRun(status) => OpenRun(status).appliedMemory = cluster.memory

\* The calls a reconcile makes before it changes the policy object, on behalf of
\* the run in progress, and towards a new one.
ReadCalls == {"getMemory", "bootstrap", "readVPA"}
RunCalls == {"monitor", "trigger", "expired", "expiredRollouts"}
StartCalls == {"healthGate", "start"}

\* What types need to be inductive: a run is only monitored when there is one,
\* and the loop over the post-actions stays within them.
TypeInv ==
    /\ TypeOK
    /\ pc \in RunCalls => HasOpenRun(pol)
    /\ pc = "trigger" => next \in DOMAIN PostActions

\* What StatusConsistent needs to be inductive when reads are fresh: the policy
\* object in hand is consistent too, it was read from what is still stored, and
\* a reconcile on its way to a new run has no run in progress.
ConsistencyInv ==
    /\ Consistent(status)
    /\ cached = status
    /\ pc # "idle" => base = status /\ Consistent(pol)
    /\ pc \in ReadCalls => pol = base
    /\ pc \in StartCalls => /\ InProgressRecords(pol) = {}
                            /\ InProgressRecords(status) = {}

WindowStart(t) == Max(PrevTicks(t))
InWindow(t) == PrevTicks(t) # {} /\ t < WindowStart(t) + TimeoutMinutes

\* No two completed runs of the history started in the same window
\* (hasCompletedMaintenanceInWindow), through crashes, retries and the
\* trimming of the history.
OneCompletedRunPerWindow ==
    \A i, j \in DOMAIN status.maintenanceHistory :
        LET a == status.maintenanceHistory[i]
            b == status.maintenanceHistory[j]
        IN  ( /\ i # j
              /\ a.status = "Completed" /\ b.status = "Completed"
              /\ InWindow(a.startedAt) /\ InWindow(b.startedAt) )
            => WindowStart(a.startedAt) # WindowStart(b.startedAt)

\* The LastMaintenanceFailed condition is never False over a failed run: if
\* the newest run that has ended failed, the condition says so.
FailureIsReported ==
    LET h == status.maintenanceHistory
        ended == {i \in DOMAIN h : h[i].status \in {"Completed", "Failed"}}
    IN  ended # {} /\ h[Max(ended)].status = "Failed"
        => IsConditionTrue(status, "LastMaintenanceFailed")

\* A run applies a memory within the policy's bounds, whatever the VPA says and
\* the buffer adds (README.md: the buffer never pushes memory above memoryMax).
\* Only where the bounds are ordered, which nothing checks.
AppliedWithinBounds ==
    MemoryMin <= MemoryMax =>
        \A i \in DOMAIN status.maintenanceHistory :
            LET rec == status.maintenanceHistory[i]
            IN  rec.status # "Skipped" =>
                    rec.appliedMemory \in MemoryMin .. MemoryMax

-----------------------------------------------------------------------------
\* Action properties

SameRun(old, new) ==
    \/ new = old
    \/ /\ old.status = "InProgress"
       /\ new.status \in {"InProgress", "Completed", "Failed"}
       /\ new.startedAt = old.startedAt
       /\ new.appliedMemory = old.appliedMemory

\* At most the oldest record is gone from h and at most one is new in g.
Continues(h, g) ==
    \E dropped \in {0, 1} :
        /\ dropped = 1 => Len(h) = MaxHistory /\ h[1].status # "InProgress"
        /\ Len(g) \in Len(h) - dropped .. Len(h) - dropped + 1
        /\ \A i \in dropped + 1 .. Len(h) : SameRun(h[i], g[i - dropped])

\* The history is append-only: a step keeps every record but the oldest, which
\* goes only from a full history and never while its run is in progress; a
\* record that has ended never changes again, and a run in progress stays the
\* same run until it ends.
HistoryIsAppendOnly ==
    [][Continues(status.maintenanceHistory, status'.maintenanceHistory)]_vars

\* The record that closes the open window for further runs is not trimmed away
\* while that window is open.
WindowGuardIsKept ==
    [][ LET h == status.maintenanceHistory
        IN  ( /\ h # << >>
              /\ h[1].status = "Completed"
              /\ Evaluate(clock).inWindow
              /\ Evaluate(clock).nextOpen <= h[1].startedAt )
            => \E i \in DOMAIN status'.maintenanceHistory :
                  status'.maintenanceHistory[i] = h[1]
      ]_vars

\* A run is recorded as completed only when every post-action target has been
\* restarted since the cluster was patched, even if a crash or a lost answer
\* made the controller trigger them again.
CompletedRunsRestartedAll ==
    [][ LET i == FindInProgressRecord(status)
        IN  (i # 0 /\ status'.maintenanceHistory[i].status = "Completed")
            => restarted = Targets
      ]_vars

\* The cluster is patched by a step of the running reconcile.
MaintenancePatch == pc = "start" /\ pc' = "persist" /\ cluster' # cluster

\* A maintenance run never patches the cluster while another is in progress.
NoPatchDuringRun ==
    [][MaintenancePatch => InProgressRecords(status) = {}]_vars

\* No run restarts the database for a change of the memory that the cluster
\* really has which a threshold calls too small, whatever the status believes
\* its memory to be after failed, repeated or unrecorded patches
\* (EvaluateChangeGates, on the memory read by GetCurrentMemory).
NoNeedlessPatch ==
    [][ MaintenancePatch /\ cluster.memory # NoMemory
        => LET change == AbsDiff(cluster'.memory, cluster.memory)
           IN  /\ change > AbsoluteThreshold
               /\ 100 * change > RelativeThreshold * cluster.memory ]_vars

-----------------------------------------------------------------------------
\* Liveness

\* A reconcile gets past the bootstrap: there is no initialMemory to apply or
\* a cluster to apply it to.
CanBootstrap == InitialMemory # NoMemory => cluster.exists

AnyRunInProgress == InProgressRecords(status) # {}

\* If the VPA ends up having a recommendation and a cluster that is deleted
\* comes back where initialMemory needs one, a run that the history has in
\* progress is settled there as completed or failed, with whatever the cluster
\* and the post-action targets do (handleWindowExpired).  For one controller
\* with fresh reads, and windows that do not follow each other without a gap.
RunsTerminate ==
    <>[](RecommendationReady /\ CanBootstrap)
        => [](AnyRunInProgress ~> ~AnyRunInProgress)

\* The condition tells of a run that the history does not know.
Disagrees ==
    IsConditionTrue(status, "MaintenanceInProgress") /\ ~AnyRunInProgress

\* A patch of the history from a stale copy, or by a second controller, may lose
\* a run that the condition still tells of, which never happens to one
\* controller with fresh reads.  Once there is a recommendation, such a condition
\* is cleared, and no later patch of that kind brings it back for ever
\* (reconcilePolicy, stale condition).
ConditionIsRepaired == <>[]RecommendationReady => [](Disagrees ~> ~Disagrees)

-----------------------------------------------------------------------------
\* What documents say of the program and it does not do

\* non-blocking-single-update-per-window.md: the cluster is patched once per
\* window at most.
OnePatchPerWindow ==
    [][ (MaintenancePatch /\ lastPatch # -1 /\ InWindow(lastPatch) /\ InWindow(clock))
        => WindowStart(lastPatch) # WindowStart(clock) ]_vars

\* types.go: post-actions are executed after a successful cluster update.
PostActionsFollowUpdate ==
    [][restarted' # {} /\ restarted' # restarted => cluster.updated]_vars

\* postactions.go: completion means that all targets have finished their
\* rollout.
CompletedRunsRolledOut ==
    [][ (\E i \in DOMAIN pol.maintenanceHistory :
            /\ pol.maintenanceHistory[i].status = "InProgress"
            /\ pol.maintenanceHistory[i].phase = "PostActionsTriggered"
            /\ pc' = "persist"
            /\ pol'.maintenanceHistory[i].status = "Completed")
        => \A t \in Targets : rollout[t] = "settled" ]_vars

\* README.md: a run whose window expires is marked as failed, so no run stays in
\* progress forever.
ExpiredRunsEnd == AnyRunInProgress ~> ~AnyRunInProgress
=============================================================================
