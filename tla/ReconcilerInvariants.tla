------------------------ MODULE ReconcilerInvariants ------------------------
(***************************************************************************)
(* Why the properties of the reconcile loop hold: what one reconcile, from  *)
(* the status it read to the one it persists, can make of a policy, and the *)
(* inductive invariants built on it.  All but BoundsInv and MemoryInv are   *)
(* about fresh reads.                                                       *)
(***************************************************************************)
EXTENDS ReconcilerRefinement

-----------------------------------------------------------------------------
\* The status at rest

Newest(policy) == policy.maintenanceHistory[Len(policy.maintenanceHistory)]

\* While a run is in progress nothing is appended, so it is the newest record.
RunInProgress(policy) ==
    /\ policy.maintenanceHistory # << >>
    /\ Newest(policy).status = "InProgress"

\* How the parts of a status fit together.
Orderly(policy) ==
    LET h == policy.maintenanceHistory
    IN  /\ Len(h) <= MaxHistory
        /\ \A i \in DOMAIN h : h[i].status = "InProgress" => i = Len(h)
        /\ \A i \in DOMAIN h : h[i].status # "Skipped" => h[i].appliedMemory \in Nat
        /\ IsConditionTrue(policy, "MaintenanceInProgress") <=> RunInProgress(policy)
        /\ RunInProgress(policy) =>
             /\ Newest(policy).phase \in {"PatchApplied", "PostActionsTriggered"}
             /\ Newest(policy).phase = "PostActionsTriggered" => PostActions # << >>

EndedStatus == {"Completed", "Failed"}

\* A failure that no later run has ended after is reported.
Reported(policy) ==
    LET h == policy.maintenanceHistory
    IN  \A i \in DOMAIN h :
          ( /\ h[i].status = "Failed"
            /\ \A j \in DOMAIN h : j > i => h[j].status \notin EndedStatus )
          => IsConditionTrue(policy, "LastMaintenanceFailed")

WithinBounds(memory) == MemoryMin <= MemoryMax => memory \in MemoryMin .. MemoryMax

AppliedBounded(policy) ==
    LET h == policy.maintenanceHistory
    IN  \A i \in DOMAIN h : h[i].status # "Skipped" => WithinBounds(h[i].appliedMemory)

StartedBy(h, t) == \A i \in DOMAIN h : h[i].startedAt <= t

SameWindow(s, t) ==
    InWindow(s) /\ InWindow(t) /\ WindowStart(s) = WindowStart(t)

\* The window that is open at t, if any, has no completed run.
WindowIsFree(h, t) ==
    \A i \in DOMAIN h :
        h[i].status = "Completed" => ~SameWindow(h[i].startedAt, t)

\* No two runs of a window both completed, or may yet.
RunsApart(h) ==
    \A i, j \in DOMAIN h :
        ( /\ i # j
          /\ h[i].status \in {"Completed", "InProgress"}
          /\ h[j].status \in {"Completed", "InProgress"} )
        => ~SameWindow(h[i].startedAt, h[j].startedAt)

-----------------------------------------------------------------------------
\* What one reconcile makes of the status p that it read

\* g is h with a record appended and the oldest trimmed if there is no room.
Grown(h, g, rec) ==
    \E dropped \in {0, 1} :
        /\ dropped = 1 <=> Len(h) = MaxHistory
        /\ Len(g) = Len(h) + 1 - dropped
        /\ \A i \in dropped + 1 .. Len(h) : g[i - dropped] = h[i]
        /\ g[Len(g)] = rec

\* g is h with another newest record.
NewestReplaced(h, g, rec) ==
    /\ h # << >>
    /\ g = [h EXCEPT ![Len(h)] = rec]

SameCondition(p, q, type) == IsConditionTrue(q, type) <=> IsConditionTrue(p, type)

\* The memory read at the start of the reconcile may be shown.
CurrentIsRead(p, q) ==
    q.currentMemory = p.currentMemory \/ q.currentMemory \in Nat

\* Nothing about runs.
Carried(p, q) ==
    /\ q.maintenanceHistory = p.maintenanceHistory
    /\ SameCondition(p, q, "MaintenanceInProgress")
    /\ SameCondition(p, q, "LastMaintenanceFailed")

Skipped(p, q, t) ==
    /\ ~RunInProgress(p)
    /\ WindowIsFree(p.maintenanceHistory, t)
    /\ Grown(p.maintenanceHistory, q.maintenanceHistory,
             [startedAt |-> t, status |-> "Skipped",
              phase |-> "", appliedMemory |-> NoMemory])
    /\ SameCondition(p, q, "MaintenanceInProgress")
    /\ SameCondition(p, q, "LastMaintenanceFailed")
    /\ CurrentIsRead(p, q)

Started(p, q, t) ==
    /\ ~RunInProgress(p)
    /\ WindowIsFree(p.maintenanceHistory, t)
    /\ q.maintenanceHistory # << >>
    /\ LET memory == Newest(q).appliedMemory
       IN  /\ memory \in Nat
           /\ Grown(p.maintenanceHistory, q.maintenanceHistory,
                    [startedAt |-> t, status |-> "InProgress",
                     phase |-> "PatchApplied", appliedMemory |-> memory])
    /\ IsConditionTrue(q, "MaintenanceInProgress")
    /\ SameCondition(p, q, "LastMaintenanceFailed")
    /\ CurrentIsRead(p, q)

NotStarted(p, q) ==
    /\ ~RunInProgress(p)
    /\ q.maintenanceHistory = p.maintenanceHistory
    /\ ~IsConditionTrue(q, "MaintenanceInProgress")
    /\ IsConditionTrue(q, "LastMaintenanceFailed")
    /\ CurrentIsRead(p, q)

Advanced(p, q) ==
    /\ RunInProgress(p)
    /\ Newest(p).phase = "PatchApplied"
    /\ PostActions # << >>
    /\ NewestReplaced(p.maintenanceHistory, q.maintenanceHistory,
                      [Newest(p) EXCEPT !.phase = "PostActionsTriggered"])
    /\ SameCondition(p, q, "MaintenanceInProgress")
    /\ SameCondition(p, q, "LastMaintenanceFailed")
    /\ q.currentMemory = p.currentMemory

Failed(p, q) ==
    /\ RunInProgress(p)
    /\ NewestReplaced(p.maintenanceHistory, q.maintenanceHistory,
                      [Newest(p) EXCEPT !.status = "Failed"])
    /\ ~IsConditionTrue(q, "MaintenanceInProgress")
    /\ IsConditionTrue(q, "LastMaintenanceFailed")
    /\ q.currentMemory = p.currentMemory

Completed(p, q) ==
    /\ RunInProgress(p)
    /\ Newest(p).phase =
          IF PostActions = << >> THEN "PatchApplied" ELSE "PostActionsTriggered"
    /\ NewestReplaced(p.maintenanceHistory, q.maintenanceHistory,
                      [Newest(p) EXCEPT !.status = "Completed"])
    /\ ~IsConditionTrue(q, "MaintenanceInProgress")
    /\ ~IsConditionTrue(q, "LastMaintenanceFailed")
    /\ q.currentMemory = Newest(p).appliedMemory

\* One reconcile, which changed the history, if it did, at time t.
Reconciled(p, q, t) ==
    \/ Carried(p, q) /\ CurrentIsRead(p, q)
    \/ Skipped(p, q, t)
    \/ Started(p, q, t)
    \/ NotStarted(p, q)
    \/ Advanced(p, q)
    \/ Failed(p, q)
    \/ Completed(p, q)

-----------------------------------------------------------------------------
\* Inductive invariants, together with TypeInv and ConsistencyInv

\* The policy object in hand is what was read until a call decides, and then
\* what one reconcile may make of it.
ReconcileInv ==
    /\ Orderly(status)
    /\ StartedBy(status.maintenanceHistory, clock)
    /\ pc \notin {"idle", "persist"} =>
         Carried(base, pol) /\ pol.currentMemory = base.currentMemory
    /\ pc = "bootstrap" => InitialMemory \in Nat
    /\ pc \in StartCalls =>
         /\ pol.memoryTarget \in Nat
         /\ WindowIsFree(base.maintenanceHistory, clock)
    /\ pc = "trigger" => Newest(base).phase = "PatchApplied" /\ PostActions # << >>
    /\ pc = "expiredRollouts" => Newest(base).phase = "PostActionsTriggered"
    /\ pc = "persist" =>
         \E t \in 0 .. clock :
            StartedBy(base.maintenanceHistory, t) /\ Reconciled(base, pol, t)

\* What the persisted status keeps from one reconcile to the next.
StatusInv ==
    /\ Reported(status)
    /\ RunsApart(status.maintenanceHistory)

\* Whatever is read, every copy of the history has only runs within the bounds,
\* and so has what the merge patch makes of two.
BoundsInv ==
    /\ AppliedBounded(status)
    /\ AppliedBounded(cached)
    /\ AppliedBounded(pol)
    /\ pc \in StartCalls => WithinBounds(pol.memoryTarget)

\* The memory that the gates look at is what the cluster has: nobody else
\* patches it while it exists.  They compare it to a recommendation.
MemoryInv ==
    /\ cluster.exists
    /\ pc \in {"readVPA"} \cup StartCalls => cur = cluster.memory
    /\ pc \in StartCalls => pol.memoryTarget \in Nat

\* A run in progress is the last that patched the cluster, also before it is
\* persisted; the bootstrap finds a cluster without memory, hence without a run.
ClusterInv ==
    /\ RunInProgress(status) => Newest(status).appliedMemory = cluster.memory
    /\ RunInProgress(pol) => Newest(pol).appliedMemory = cluster.memory
    /\ pc = "bootstrap" => ~RunInProgress(base)

\* Which targets have been restarted since the patch of the run in progress.
RestartInv ==
    /\ pc = "trigger" => \A k \in 1 .. next - 1 : PostActions[k] \in restarted
    /\ pc = "persist" /\ (Completed(base, pol) \/ Advanced(base, pol))
         => restarted = Targets
    /\ RunInProgress(status) /\ Newest(status).phase = "PostActionsTriggered"
         => restarted = Targets
=============================================================================
