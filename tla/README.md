# Verification of the Zalando vertical autoscaler

A TLA+ model of the operator in `src/`, checked with TLC and proved about with
TLAPS. The operator watches `PostgresMemoryPolicy` objects and, in cron-defined
maintenance windows, patches a Zalando PostgreSQL cluster with the memory that a
VPA recommends, waits for the cluster, restarts dependent workloads
(post-actions) and records the run in the policy's status.

## 1. Inventory

| Component | Source | State it keeps | Operations |
|---|---|---|---|
| Policy status, conditions, history | `internal/controller/conditions.go`, `api/v1alpha1/types.go` | `.status`: memory target, current memory, three conditions, bounded history of runs | `setCondition`, `addMaintenanceRecord`, `findInProgressRecord`, `hasCompletedMaintenanceInWindow`, `markRecordCompleted` |
| Reconcile loop and maintenance state machine | `internal/controller/postgresmemorpolicy_controller.go` | only what one reconcile holds: the policy object, the snapshot to diff against, the memory it read | bootstrap, read VPA, window, start, monitor, settle, complete, fail, persist |
| Work queue and requeueing | `SetupWithManager`, the results of `Reconcile`, `RequeueAfter`; controller-runtime | in memory: whether the policy is queued, the earliest delay | hand out, requeue after a delay or an error, enqueue on a watch event |
| Maintenance window | `internal/controller/cron.go` | none | `Evaluate`, `RequeueAfter` |
| VPA reader | `internal/controller/vpa.go` | none | find the recommendation, clamp, buffer |
| Zalando patcher and change gates | `internal/controller/zalando.go` | none (reads and patches the `postgresql` resource) | `GetCurrentMemory`, `PatchResources`, `IsClusterHealthy`, `EvaluateChangeGates`, `WaitForClusterReady` (unused) |
| Post-actions | `internal/controller/postactions.go` | none (patches workload templates, reads their replica counts) | `TriggerPostActions`, `ArePostActionsComplete`; blocking `Execute` (unused) |
| Parameter templates | `internal/controller/parameters.go` | none | evaluate PostgreSQL parameters from the memory |
| Manager set-up | `cmd/main.go` | whether this controller leads | flags, leader election, probes, wiring |
| API registration, generated code | `api/v1alpha1` | none | scheme, deep copies |
| CRD and Helm chart | `config`, `charts` | none | schema, deployment |

**Interaction.** The operator has no memory of its own. A reconcile reads the
policy from the informer cache, calls the API server several times (cluster, VPA,
workloads) and at the end writes the status with one merge patch, whatever it
did before. Between these calls the Zalando operator updates the cluster, the
workload controllers roll out, the VPA changes its mind, the clock moves and any
call may fail. The next reconcile knows only what the status says. When it comes is
decided by the work queue: after the delay or the error that this one
returned, or at once when its status patch changed the policy. Nothing else wakes
the operator (`SetupWithManager` watches policies only).

**What is hard.** (a) the side effects come before the record of them, so
a crash or a failed status patch leaves effects without a record; (b) two fields,
the `MaintenanceInProgress` condition and the `InProgress` record, say the same thing;
(c) signals of other controllers (`Running`, replica counts) may predate the patch
they are taken to answer; (d) the record that closes a window sits in a history
that is trimmed; (e) every early return of the reconcile delays the settling of a
run in progress; (f) the cache may be older than the operator's own last patch; (g) the delays are
the only way back to a policy, and the operator's own patches cut them short;
(h) replica counts say that a rollout is over while it is not; (i) leader election is off by
default, so during a rolling update two controllers work on one status.

**What makes each part correct.** Status: at most one run in progress, condition
and history agree, ended records never change. Reconcile loop: one completed run
per window, no patch while a run is in progress, a completed run really restarted
all its targets, failures are reported, runs end. Window: the closed-open
interval the cron expression and the timeout define. Sizing: result within the bounds,
gates block exactly the small changes. Patch: limit, CPU and parameters belong to the
memory they are written with. Queue: no policy is forgotten, every window is met, the
loop comes to rest. Post-actions: completion means rolled out.

`PROJECT.json` lists the hazards line by line, with the properties aimed at each.

## 2. Modules

| Module | Models | Role |
|---|---|---|
| `PolicyStatus` | `types.go`, `conditions.go`, the merge patch | operators on a status record |
| `MaintenanceWindow` | `cron.go` | `Evaluate(now)` over a set of fire times |
| `Sizing` | clamp and buffer of `vpa.go`, gates of `zalando.go` | operators on quantities |
| `Reconciler` | the reconcile loop, the calls it makes, and the world around it | state machine, extends the three above |
| `ReconcilerProperties` | - | type, safety, action and liveness properties and the first inductive invariants |
| `ReconcilerInvariants` | - | what one reconcile makes of a status; the inductive invariants built on that |
| `MaintenanceRun` | what the operator promises of a run | abstract specification |
| `ReconcilerRefinement` | - | refinement mapping from `Reconciler` to `MaintenanceRun` |
| `WorkQueue` | the controller-runtime queue for one policy (external) | actions that `Operator` composes |
| `Operator` | what each branch of the reconcile returns, `SetupWithManager` | state machine: `Reconciler` under `WorkQueue` |
| `Quantities` | container choice, limit, initial CPU, whole cores | operators, extends `Sizing` |
| `Parameters` | `parameters.go` | parameters of a policy; what a template evaluates to is a constant operator |
| `Templates` | the template functions of `parameters.go` | that operator for TLC: evaluation of template trees (recursive) |
| `ClusterSpec` | all that `PatchResources` writes, over many patches | state machine, extends `Quantities` and `Parameters` |
| `Rollouts` | `isRolloutComplete`, workload controllers (external) | pods and status counts of workloads |
| `PostActionExecutor` | the blocking `Execute` | state machine, extends `Rollouts` |
| `Replicas` | two controllers, leader election of `main.go` | state machine: two `Reconciler`s on one world |
| `MCReconciler`, `MCOperator`, `MCClusterSpec`, `MCPostActionExecutor`, `MCReplicas` | - | constant values for TLC |
| `ReconcilerProofs`, `HistoryProofs`, `RunProofs` | - | theorems about `Reconciler`, each extends the one before |
| `SizingProofs`, `ClusterSpecProofs` | - | theorems about quantities and about `ClusterSpec` |
| `OperatorProofs`, `RolloutsProofs`, `ReplicasProofs` | - | theorems about `Operator`, `PostActionExecutor`, `Replicas` |

### State of `Reconciler`

`status` is the policy's status on the API server and `cached` the informer's copy;
`cluster` is the `postgresql` resource (memory of its spec, whether the pods run
with it, whether its status says Running); `vpa` what the VPA says; `rollout` one
state per post-action target: `rolling` while the replica counts tell that it rolls
out, `misread` while it does and they do not (`Rollouts` shows how that comes about: a
status that has not observed the new template, or a surge), `settled` at its end.
`pc, pol, base, cur, next` are the local variables of `Reconcile`: the next API
call, the policy object being changed (`policy`), the snapshot (`patchBase`),
`currentMemory` and the position in the loops over `spec.postActions`.
`faults` counts failures still allowed. `lastPatch` and `restarted` are
history variables that properties read and no action depends on.

### Actions

One step is one call to the API server with the code up to the next call:

| pc | Action | Code |
|---|---|---|
| idle | `Begin` | `Reconcile`: get the policy, copy it |
| getMemory | `GetCurrentMemory` | `GetCurrentMemory`, the bootstrap test |
| bootstrap | `Bootstrap` | `initialMemory`: templates, `PatchResources` |
| readVPA | `ReadNoRecommendation`, `WindowEvaluationFails`, `ResumeRun`, `ConsiderRun` | `ReadRecommendation`, `Evaluate`, the in-progress and once-per-window tests |
| healthGate, start | `CheckHealthGate`, `ChangeGateBlocks`, `StartMaintenance` | `startMaintenance` |
| monitor, trigger | `MonitorCluster`, `TriggerPostAction`, `MonitorRollout` | `monitorMaintenance`, `TriggerPostActions`, `ArePostActionsComplete` |
| expired, expiredRollouts | `HandleWindowExpired`, `CheckExpiredRollout` | `handleWindowExpired` |
| persist | `Persist` | `Status().Patch` with `MergeFrom(patchBase)` |

Every branch that returns from `reconcilePolicy` goes to `persist`: the
caller patches the status also after an error. `MergePatch` is what the server does with
that patch: a field that the reconcile changed replaces the stored one, a list as
a whole, and there is no resource version to conflict.

The world is `Crash` (the reconcile's locals are lost), `Tick`, `CacheSync`,
`VPAChanges`, `ClusterStopsRunning`, `ClusterRuns`, `ClusterDeleted`,
`ClusterCreated`, `RolloutProgresses`. Each call can fail without effect (`api`),
each patch of a cluster, a workload or the status can take effect and report an error (`lostReply`).
`Faults` selects the kinds a run allows, `MaxFaults` how many.

### `Operator`

`Reconciler` lets a reconcile begin whenever none is running. `Operator` takes the same
steps with what they return: `result` is the delay or error of `reconcilePolicy`,
`windowDelay` the `RequeueAfter` computed when the window was evaluated (time `evaluated`), `queued` and
`wakeAt` the queue. `FinishPolicy` is `Persist` followed by the queue's bookkeeping: an
error of the status patch counts when there was none before, and a patch that changes the
status comes back as an event and queues the policy at once. `OperatorRestarts`
loses the queue and lists the policies again. `met` is a history variable. Every step of
`Operator` is a step of `Reconciler` or leaves its variables alone, but for a restart between two
reconciles, which uses up a failure that `Reconciler` would have left.

The delays of the code (1 minute, 30 seconds, 5 minutes, the jitter, the
rate limiter's back-off) are constants that keep their order. A queued policy is
taken before time passes; from the evaluation of the window on a reconcile takes
`ReconcileTime` at most. The world changes between reconciles only: a reconcile reads
the recommendation, the health and each rollout once, so that this loses no behaviour.
Deletions of the cluster are left to the runs of `Reconciler`.

### `ClusterSpec`

`spec` is the part of the `postgresql` resource that a patch writes: memory request
and limit, CPU request, parameters. `Bootstrap` and `Maintain` are every
patch the gates admit (when they happen is `Reconciler`'s business); the VPA changes and
users recreate the cluster. What a template evaluates to is the constant operator `ExecuteTemplate`.
In the run it is `Eval` of `Templates`: trees of `div`, `mul`, `add`, `max`
over memory and cores, with division by zero and unknown variables as errors.

### `Rollouts` and `PostActionExecutor`

A workload has old pods, new pods that start and new pods that are ready, and a status that
counts them, possibly late (`Lagging`). `IsRolloutComplete` is the code's test on
the counts. `PostActionExecutor` is the thread that `Execute` would be: get, patch, poll,
wait, under one timeout per target.

### `Replicas`

Leader election is off unless the chart sets it, and a Deployment without a strategy
starts the new pod before the old one is gone. `Replicas` runs two reconcile loops on one
status, cluster and clock: the variables of `Reconciler` and an instance of it (`Peer`) whose
local variables are its own. The old controller may stop at any call (`OldStops`): its context is
cancelled and what it held is lost; patches it sent may have arrived. With `leaderElect` the
new one begins when the old one is gone (`IsLeader`; that a lease is only passed on when its
holder has stopped is taken from the library). `OneController` maps the two to whichever
may act.

### Abstractions

* Conditions keep status and reason; records keep start, status, phase and applied
  memory. The messages, completion times and previous memory are shown to users
  and read by no code. A condition of which only the message changes makes the code patch the list of
  conditions and the model not: with fresh reads this is the same, under stale reads or
  two controllers it is one more way to lose the condition of a run (disagreement 5).
* The policy exists. `Reconcile` gets it from the informer cache, which, once synced, has no other
  error than that the policy is gone; the code then returns without a requeue, and there is no status
  to keep.
* A status patch succeeds, fails, or takes effect and reports an error (`lostReply`).
* Memory is a natural number. In `Reconciler`, CPU, limits and parameters are patched along
  with it and decide nothing; that a template may fail to evaluate is kept (`params`).
  `ClusterSpec` has them.
* A cron expression is the set of instants at which it fires.
* The spec is fixed. One reconcile runs at a time, except in `Replicas`.
* Deployment, StatefulSet and DaemonSet share one model: each patches an annotation
  and compares replica counts only (the counts by kind are in `Rollouts`). An annotation has the resolution of a second, so two
  restarts within one second are one; the model counts both.
* Two branches cannot be taken and are left out: the default of the phase switch
  (only two phases are written) and the parse errors of quantities that the
  operator itself wrote.
* In `Reconciler` a reconcile may start whenever none is running, a superset of what the
  queue of `Operator` lets happen.
* `ClusterRuns` is the only way a cluster reaches its spec; a cluster may claim
  Running long before, since its operator needs time to notice a patch.

## 3. Runs

| Run | Question | Answer |
|---|---|---|
| `reconciler_safety` | With fresh reads, two failures of any kind, a bootstrap and two windows: is the status consistent and true of the cluster, and is every run worth it? | yes, ten properties |
| `reconciler_liveness` | With two targets, `initialMemory`, a VPA and a cluster that come and go: does the loop implement the abstract run, did completed runs restart everything, and do runs end? | yes |
| `reconciler_stale` | With a lagging cache, is a condition whose record was overwritten from an old copy cleared? | yes |
| `operator` | Under the work queue, with overlapping windows and a crash or failed call: is the policy ever forgotten, a window missed, the cluster changed after it, the loop restless? | no |
| `cluster_spec` | Do limit and parameters always belong to the memory of the cluster? | yes |
| `post_action_executor` | Does the blocking executor restart one workload at a time and return, and what do replica counts tell? | yes; all but surges and late statuses |
| `replicas` | Is a handover with leader election more than a crash of one controller? Without it, is a condition whose record is lost cleared? | no; yes |
| `one_patch_per_window` | "Do NOT allow multiple patches in the same maintenance window" | violated |
| `post_actions_follow_update` | post-actions run "after a successful PG cluster update" | violated |
| `completed_runs_rolled_out` | "Returns true only if ALL targets are ready" | violated |
| `expired_runs_end` | "If the window expires mid-maintenance, the run is marked as failed" | violated |
| `stale_reads` | condition "Maintenance is currently running", under a stale cache | violated |

The properties of the passing runs:

* `StatusConsistent`: at most one record is `InProgress`, and the condition is True
  exactly when there is one.
* `AppliedIsCurrent`: the cluster's spec has the memory the run in progress recorded, so
  completion reports the truth. Needs nobody else to edit or recreate the
  cluster, hence a run without `delete`.
* `OneCompletedRunPerWindow`: through crashes, retries and trimming.
* `FailureIsReported`: if the newest ended run failed, `LastMaintenanceFailed` is True.
* `HistoryIsAppendOnly`: the oldest record goes only from a full history and
  never while in progress; ended records are final; a run keeps its identity.
* `WindowGuardIsKept`: the trimming does not reopen the window that is open.
* `NoPatchDuringRun`: no maintenance patch while a run is in progress on the server.
* `CompletedRunsRestartedAll`: completion is recorded only when every target was
  restarted after the cluster was patched.
* `RunsTerminate`: if the VPA eventually keeps a recommendation, and there is a cluster
  to bootstrap or nothing to bootstrap it with, a record that is `InProgress` is settled as completed
  or failed, whatever the cluster and the workloads do. For one controller with fresh reads:
  without either the record of a run may lose its condition, and then nothing settles it
  (disagreement 5 and below; TLC refutes the property when it is added to `ReconcilerStale.cfg` or
  `Replicas.cfg`). The clock of the run ends outside the windows; windows
  that overlap without end, in which a run may be monitored forever, are not covered. A deleted
  cluster that does not come back while `initialMemory` is set is assumed away.
* `AppliedWithinBounds`: every run applied a memory within `memoryMin` and `memoryMax`
  (ordered bounds).
* `NoNeedlessPatch`: a run changes the cluster's real memory by more than both
  thresholds, also when the status has another idea of it.
* `ImplementsMaintenanceRun`: the status, read through `RunStage` and `AppliedMemory`, behaves
  like `MaintenanceRun`: one run at a time, completed only after its post-actions, and only
  completion makes its memory the current one. A step of a reconcile stutters until persisted.
* `PolicyIsWatched`: an idle operator has the policy queued or delayed, and
  within the longest retry while a run is in progress.
* `WindowsAreMet`: a reconcile begins inside every window, overlapping ones included.
* `ChangesInsideWindow`: patches and restarts happen in a window or no later after its end
  than the reconcile that saw it open takes. Nothing looks at the window again before the
  patch, so this bound is all there is (see below).
* `WakeUpsEnd`: unless the VPA keeps changing, the operator's status patches stop waking it.
* `LimitCoversRequest`, `ParametersFollowResources`: each patch writes all or none; the
  parameters of the policy are those of one memory and one number of cores. With
  a VPA that recommends no CPU the number is 0 while the cluster keeps its old CPU request.
* `CompleteMeansRolledOut`: fresh counts never hide the end of a rollout, and tell it
  exactly when there is no surge. Late counts and surges are disagreement 3.
* `OneRolloutAtATime`, `ExecuteReturns`: the blocking executor restarts the next workload
  after the rollout of those before, and returns within its timeouts.

* `ImplementsOneController`: with leader election the deployment implements `Reconciler`, a
  handover in the middle of a reconcile being a crash; so what holds of one controller holds
  of it. Without leader election this fails, and with it `StatusConsistent`.
* `ConditionIsRepaired`: a patch of the history from a stale copy, or by a second controller, loses a run
  that the condition still tells of. The branch that clears a stale condition, which one
  controller with fresh reads never takes, repairs that. Nothing repairs the opposite, a record
  without its condition.

### Disagreements found

1. *A second patch in one window.* The window is closed by `Completed` records only. A
   run whose patch took effect and whose answer was lost is failed and
   retried with the VPA's new target in the same window.
2. *Post-actions before the update.* `Running` right after the patch is
   still the old cluster's; nothing relates it to the patch.
3. *Completion before the rollout.* The replica counts are compared without
   `observedGeneration`, so a template nobody has noticed counts as rolled out; and with `maxSurge`
   the new pods of which some are not ready and the ready pods of which some are old both
   number what is desired.
4. *Expired runs that stay.* A missing recommendation returns before the in-progress test.
5. *Stale reads.* A reconcile from an old copy replaces the list of conditions and
   drops `MaintenanceInProgress` under a running record. No branch settles that record: it stays
   `InProgress` until it is trimmed, or until a later run ends in its place and leaves its own
   record behind.

Met on the way, without a run of their own: a start that fails on a template or the patch calls
`failMaintenance` before there is a record, so the condition reports the failure and the history
(README.md: with "failure reasons") does not; `safetyGates.minReadyReplicas`
(`types.go`) is read by no code; a gate that blocks adds a `Skipped` record and asks for
the next window, but its own status patch wakes it at once, until all ten records carry the same
second or the window closes: the operator may reconcile without a pause for a whole window,
and the history then holds nothing else; a template that divides by
`.cpu` fails every start once the VPA stops recommending CPU; `WaitForClusterReady` polls
without a pause. "Changes are only applied during defined windows, never outside them"
(README.md:259), but the window is evaluated once in a reconcile, and the health check and the
patch may come when it has closed: `ChangesInsideWindow` bounds how late, which is not never. Of two controllers
the one may patch the conditions over the other's, which does to the record of a new run what a
stale copy does in disagreement 5: the window expires and the run is neither failed nor completed.

### Bounds

* `Reconciler` runs: timeout 1, fire times 0 and 2. The clock of `reconciler_safety` and `reconciler_stale` goes to
  3: a window, a gap, a second window and the time after it; of the others to 1, the end of the first. The safety run has no later fire time, so that
  `Evaluate` fails at the end (a cron expression that never fires again); the others
  have one at 9, which the clock does not reach. A third window adds nothing: what one
  window leaves behind is the status, and its history is full by then.
* `MaxHistory` 2 (the code has 10): the history is full after two records, and
  the third trims it; with 1 a record in progress would always be alone. `operator` has 1, its
  properties ask of the history only whether a run is in progress.
* Two failures in the safety run: a failure and a failure during the recovery from it. One in
  the liveness and operator runs, where the state is larger.
* Safety run: bounds 3..8, a buffer of 34%, recommendations 1 and 9: both clamp, one is
  buffered to the minimum plus one and one beyond the maximum; initial memory 2 lies outside
  both. The absolute gate stops the change from 2 to 4; the relative one stops nothing it lets pass, and
  is the theorem's (`NoNeedlessPatches`). Elsewhere memory 2 (initial) and 4 or more: the gates
  block equal values and admit the others. One target is enough for the order of cluster and
  workload; two for a trigger loop that breaks off half way.
* `operator`: fire times 1 and 4, timeout 4, clock 0..8, so the windows overlap in one
  instant and the clock passes both ends. Jitter, poll and bootstrap delays 1, retry and
  back-off 2, a reconcile up to 1. Two windows that open less than jitter and reconcile
  time apart can merge into one for the operator; fire times are further apart than that.
* `cluster_spec`: every recommendation around the bounds with and without CPU, a sidecar
  before the container, policies with and without initial memory, overcommit and two sets of
  templates; unbounded in length.
* `post_action_executor`: three workloads of two pods, one per kind; the Deployment
  surges by one, the statuses of two lag. One failure, a timeout of two ticks.
* `reconciler_stale`, `stale_reads`: the cache may lag by any number of patches.
* `replicas`: with and without leader election (`leaderElect` is chosen by the initial state), one window,
  one record of history, no post-actions, one reconcile cut short at most; two reconciles in
  every order is what the run is about, and one record is enough to be overwritten.

Deadlock is checked in every run: an idle reconcile can always begin, and in `operator` the VPA
can always change.

### Fairness

`Reconciler`: `WF(ReconcileStep) /\ WF(Tick) /\ WF(CacheSync)`. Every branch of the
controller requeues or returns an error, which the work queue retries (`PolicyIsWatched` checks
that this is so), and each of its calls returns an answer or an error (its context ends); time passes; the
watch behind the cache delivers. Weak fairness of the whole loop suffices, since a
reconcile in hand has always exactly one call to make. Nothing is
assumed of the cluster, the VPA or the workloads: they may stay as they are forever.

`Operator`: weak fairness of the operator or the clock moving at all. `PostActionExecutor`: calls return
(`WF(ExecuteStep)`) and time passes; a rollout may be stuck forever.

`Replicas`: both loops and the clock, each by weak fairness; the old controller need not stop.

## 4. Proofs

`tlapm` proves every invariant, action property and refinement that the passing runs check,
for all values of the constants under the named assumptions of the modules.

| Theorem | States | Besides the assumptions on the constants |
|---|---|---|
| `TypeCorrect` | `TypeOK` of `Reconciler` | |
| `StatusStaysConsistent` | `StatusConsistent` | fresh reads |
| `NoPatchDuringRuns` | `NoPatchDuringRun` | fresh reads |
| `HistoryOnlyGrows` | `HistoryIsAppendOnly` | fresh reads |
| `FailureStaysReported` | `FailureIsReported` | fresh reads |
| `RunsApplyWithinBounds` | `AppliedWithinBounds` | |
| `OneCompletionPerWindow` | `OneCompletedRunPerWindow` | fresh reads |
| `WindowGuardStays` | `WindowGuardIsKept` | fresh reads |
| `NoNeedlessPatches` | `NoNeedlessPatch` | no deletion |
| `AppliedStaysCurrent` | `AppliedIsCurrent` | fresh reads, no deletion |
| `CompletedRunsRestarted` | `CompletedRunsRestartedAll` | fresh reads |
| `ImplementsRun` | `ImplementsMaintenanceRun` | fresh reads |
| `OperatorTypeCorrect` | `OperatorTypeOK` | |
| `PolicyStaysWatched` | `PolicyIsWatched` | fresh reads |
| `EveryWindowIsMet` | `WindowsAreMet` | `RoomyWindows` |
| `ChangesStayInWindows` | `ChangesInsideWindow` | |
| `SpecTypeCorrect` | `TypeOK` of `ClusterSpec` | |
| `LimitAlwaysCovers` | `LimitCoversRequest` | `UserLimitsCover` |
| `ParametersAlwaysFollow` | `ParametersFollowResources` | `UsersLeaveParameters` |
| `ExecutorTypeCorrect` | `TypeOK` of `PostActionExecutor` | |
| `CompletionIsTold` | `CompleteMeansRolledOut` | |
| `OneRolloutAfterTheOther` | `OneRolloutAtATime` | |
| `TwoControllersAreOne` | `ImplementsOneController` | (the property itself is about `leaderElect`) |

Theorems about operators: `AddedRecords`, `RecommendationWithinBounds`,
`RecommendationWithUnorderedBounds` (a policy may get `memoryMin` above its maximum),
`RecommendationMonotone`, `GatesAdmitOnlyChanges`, `LimitCovers`, `CoresRoundUp`.

### The assumptions

* *Fresh reads* is `"stale" \notin Faults`. `stale_reads` is the counterexample to consistency
  without it, and what builds on the history falls with that: a reconcile from an old copy
  writes an old history back. Crashes, failed calls, lost replies, template errors and deletions
  stay allowed.
* *No deletion* is `"delete" \notin Faults`: a cluster that somebody recreates has the memory they
  gave it. `NoNeedlessPatches` needs no fresh reads: the gates look at the cluster, not at the status.
* `RoomyWindows`: a window is longer than a reconcile with its longest retry or its jitter, and the
  next opens later than a reconcile and the jitter after it. The code has no such check; it
  is what a schedule must give for windows not to be missed. `MCOperator` has TLC confirm it for its schedule.
* `UserLimitsCover`, `UsersLeaveParameters`: users create clusters whose limit covers the
  request and leave the parameters of the policy to it. `MCClusterSpec` has TLC confirm them for its clusters.

### The arguments

*Types.* `TypeOK` alone is not inductive: a monitoring step indexes the history at the open run, and
the trigger loop indexes `PostActions`. `TypeInv` adds that `pc` is at a run's call
only when the policy object has an open run, and that the position lies within the post-actions.

*Consistency.* `ConsistencyInv` adds what a reconcile knows in the middle: its
snapshot is still what is stored, its policy object is itself consistent, and on the way to a new
run neither has a run in progress. So the merge patch replaces the stored status by the object in
hand (`MergePatchOfCurrent`). A lemma per status operator (`FailMaintenance`, `RecordStart`, ...) says
what it does to the type and to consistency.

*One reconcile.* Everything about the history rests on one relation: `Reconciled(p, q, t)` says what a
reconcile that read `p` may persist, namely `p` with nothing of a run changed (`Carried`), or with a
run skipped, started, not started, advanced, failed or completed. `ReconcileInv` follows the
policy object in hand through the calls: until a call decides it is `Carried` from the snapshot, and
at `persist` it is `Reconciled`. The persisted status then changes by `Reconciled` or not at all
(`StatusStep` in `HistoryProofs`), and each property is a question about that one relation:

* `Orderly`: the run in progress is the newest record, so the trimming of the oldest never meets it
  (`HistoryIsAppendOnly`), and the condition agrees with it.
* `StatusInv`, with `Reported` and `RunsApart`: no property of the
  *newest* ended run is inductive under trimming, of *all* records it is. `RunsApart` counts runs in progress as completed, since
  they may be; a new one starts in a window without a completed run (`WindowIsFree`).
* `MemoryInv`: what the gates compare with is what the cluster has.
* `ClusterInv`: the run in progress, stored or in hand, is the last that patched the cluster; the
  bootstrap meets no run because it meets no memory.
* `RestartInv`: the loop over the targets has restarted those before its position, and a
  triggered phase means all.

*Bounds.* `BoundsInv` does without fresh reads: every copy of the history, stored, cached or in hand,
has only runs within the bounds, so the merge of an old copy into a newer one does too.

*The abstract run.* The refinement mapping reads the status only, so every step but a persisted one
stutters, and a persisted one is one of the seven cases (`ReconciledRun`): each is an action of
`MaintenanceRun` or a stutter (`RunNext`).

*The work queue.* `OperatorProofs` inherits the invariants of `Reconciler` through
`StepsOfReconciler`. `QueueInv` follows the delay from the evaluation of the window to the queue; `WatchInv`
says that a reconcile which returns a window's delay persists no run in progress. `MetInv` is the
reason why no window is missed: at every moment, every delay that is waited for, or will be asked for
at the latest moment a reconcile may end, is over before a window that nobody has met closes.
`InWindowInv` keeps that the window was open when it was evaluated.

*The patched resource.* That the parameters belong to one memory and one number of cores is inductive
because a merge patch writes all parameters of the policy or none. `ExecuteTemplate` is a
constant operator, so that this holds whatever templates evaluate to, failures included.

*Rollouts.* `NoSurplus`: a workload without a surge never has more pods than desired, so a full set
of new ready pods leaves no room for an old one. `ExecutorInv` and `OneByOne`: the executor was told that
each target before its position is complete before it patched the next.

*Two controllers.* `HandoverInv`: a controller that is idle holds nothing, and with leader election the new one is idle
while the old one runs. So the variables of the leading controller do not jump
at a handover but by what a crash loses. Action by action, each step of either is that of `OneController`.

### Only model-checked

Liveness (`RunsTerminate`, `ConditionIsRepaired`, `WakeUpsEnd`, `ExecuteReturns`), out of the
prover's reach; what template trees evaluate to, a recursive definition. The abstract run and the single
controller are stated without fairness, so the refinements are proved in full.

## 5. Plan

Done: the core (`PolicyStatus`, `MaintenanceWindow`, `Sizing`, `Reconciler`), the
abstract run and the refinement, the work queue, the patched resource with its parameters, the
rollouts and the blocking executor, two controllers, the proofs of all their safety properties.

Left, in order of importance:

1. What else stale reads leave true: of the history, only that its runs are within the
   bounds is proved without fresh reads.
2. Edits of the spec between runs: parameters that are removed, post-actions that change under a run.

## 6. Not modelled

* Manager set-up, scheme registration, deep copies, CRD and chart: no behaviour
  of their own. The CRD's validation appears as the assumptions on the constants.
* Events, logs, messages; parsing of cron expressions, quantities and templates.
* Edits of the spec during a run, and edits of the cluster by others except its deletion and
  recreation.
* `WaitForClusterReady`: nothing calls it, and it changes nothing.
* CPU limits: never patched.
* Leases and their renewal; three controllers at once.
