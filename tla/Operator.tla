------------------------------ MODULE Operator ------------------------------
(***************************************************************************)
(* The reconcile loop under its work queue.  Reconciler lets a reconcile    *)
(* begin at any time; here one begins only when the queue hands out the     *)
(* policy: when the controller starts, when the result of an earlier        *)
(* reconcile says so, or when the operator's own status patch comes back as *)
(* a watch event.  (SetupWithManager watches the policies and nothing else: *)
(* a change of the VPA, the cluster or a workload wakes nobody.)  Each step *)
(* of Reconciler is taken with what it returns to the queue.                *)
(*                                                                         *)
(* Time: a queued policy is taken before time passes, and a reconcile       *)
(* returns within ReconcileTime once it has evaluated the window; nothing   *)
(* before that depends on the clock.  The delays of the code keep their     *)
(* order.                                                                   *)
(***************************************************************************)
EXTENDS ReconcilerProperties, WorkQueue

CONSTANTS
    BootstrapDelay,   \* after initialMemory is applied (1 minute)
    PollDelay,        \* while a run is in progress (30 seconds)
    RetryDelay,       \* after a failure or without a recommendation (5 minutes)
    ReconcileTime     \* the longest reconcile, from its window check on (bound)

ASSUME DelaysAssumption == {BootstrapDelay, PollDelay, RetryDelay} \subseteq Nat \ {0}
ASSUME ReconcileTimeAssumption == ReconcileTime \in Nat

VARIABLES
    result,        \* what reconcilePolicy returns: a delay, or Error
    windowDelay,   \* reconcile: RequeueAfter(windowResult, now)
    evaluated,     \* when the running reconcile evaluated the window
    met            \* history: the fire times in whose window one began

operator == <<result, windowDelay, evaluated, met>>
allVars  == <<vars, queue, operator>>

OperatorTypeOK ==
    /\ TypeOK
    /\ QueueTypeOK
    /\ result \in Nat \cup {Error}
    /\ windowDelay \in Nat
    /\ evaluated \in Nat
    /\ met \subseteq FireTimes

OperatorInit ==
    /\ Init
    /\ QueueInit
    /\ result = 0
    /\ windowDelay = 0
    /\ evaluated = 0
    /\ met = {}

-----------------------------------------------------------------------------
\* What a step of the reconcile returns, if it returns

CallFails == faults' # faults

\* A call about the cluster fails as well where there is none.
ClusterCallFails == CallFails \/ ~cluster.exists

OnReturn(value) == result' = IF pc' = "persist" THEN value ELSE result

EvaluatesWindow ==
    ResumeRun \/ ConsiderRun

Returns ==
    \/ GetCurrentMemory /\ OnReturn(Error)
    \/ Bootstrap /\ OnReturn(IF ClusterCallFails THEN Error ELSE BootstrapDelay)
    \/ ReadNoRecommendation /\ OnReturn(IF CallFails THEN Error ELSE RetryDelay)
    \/ WindowEvaluationFails /\ OnReturn(Error)
    \/ CheckHealthGate /\ OnReturn(IF ClusterCallFails THEN Error ELSE windowDelay)
    \/ ChangeGateBlocks /\ OnReturn(windowDelay)
    \/ StartMaintenance /\ OnReturn(IF ClusterCallFails THEN RetryDelay ELSE PollDelay)
    \/ MonitorCluster /\ OnReturn(IF ClusterCallFails THEN Error
                                  ELSE IF cluster.running THEN windowDelay
                                  ELSE PollDelay)
    \/ TriggerPostAction /\ OnReturn(IF CallFails THEN RetryDelay ELSE PollDelay)
    \/ MonitorRollout /\ OnReturn(IF CallFails THEN Error
                                  ELSE IF IsRolloutComplete(PostActions[next])
                                  THEN windowDelay
                                  ELSE PollDelay)
    \/ HandleWindowExpired /\ OnReturn(RetryDelay)
    \/ CheckExpiredRollout /\ OnReturn(RetryDelay)

\* Time of the next window, or of the end of this one, from the time at which
\* the window was evaluated.
ReturnsAfterWindow ==
    /\ EvaluatesWindow
    /\ windowDelay' = RequeueAfter(Evaluate(clock), clock)
    /\ evaluated' = clock
    /\ OnReturn(windowDelay')

OpenWindows == {t \in FireTimes : t <= clock /\ clock < t + TimeoutMinutes}

TakePolicy ==
    /\ Begin
    /\ TakeFromQueue
    /\ met' = met \cup OpenWindows
    /\ UNCHANGED <<result, windowDelay, evaluated>>

CallAPI ==
    /\ \/ Returns /\ UNCHANGED <<windowDelay, evaluated>>
       \/ ReturnsAfterWindow
    /\ UNCHANGED <<queue, met>>

ForgetReconcile == result' = 0 /\ windowDelay' = 0 /\ evaluated' = 0

\* Slips for mutation runs: a failed status patch is only logged; every patch
\* changes the status, say by the time of the last reconcile.
OutcomeOfReconcile == result
EveryPatchIsAnEvent == TRUE

\* An error of the status patch counts when reconcilePolicy returned none.
Outcome == IF CallFails THEN Error ELSE result

\* The API server announces a policy that has changed.
StatusChanges == cached' # cached

FinishPolicy ==
    /\ Persist
    /\ PutBack(Outcome, clock, StatusChanges)
    /\ ForgetReconcile
    /\ UNCHANGED met

DelayEnds ==
    /\ DelayIsOver(clock)
    /\ UNCHANGED <<vars, operator>>

\* The controller dies, in a reconcile or between two, and is started again.
OperatorRestarts ==
    /\ \/ Crash
       \/ /\ pc = "idle"
          /\ Fault("crash")
          /\ UNCHANGED <<world, reconcile, history>>
    /\ QueueIsLost
    /\ ForgetReconcile
    /\ UNCHANGED met

\* Nothing is to be done before time passes.
Quiet == pc = "idle" /\ ~queued /\ ~IsDue(clock)

TimePasses ==
    /\ Quiet \/ (windowDelay # 0 /\ clock < evaluated + ReconcileTime)
    /\ Tick
    /\ UNCHANGED <<queue, operator>>

\* A reconcile reads the recommendation, the health of the cluster and each
\* rollout once, and none after changing it: what changes during a reconcile
\* might as well change before or after it, and is changed there.  (The runs of
\* Reconciler interleave the world with the calls, and delete the cluster.)
\* A rollout that is over reads like one that is misread.
World ==
    /\ pc = "idle"
    /\ \/ VPAChanges
       \/ ClusterStopsRunning
       \/ ClusterRuns
       \/ \E t \in Targets : RolloutProgresses(t) /\ rollout'[t] # "settled"
    /\ UNCHANGED <<queue, operator>>

OperatorStep == TakePolicy \/ CallAPI \/ FinishPolicy \/ DelayEnds

OperatorNext == OperatorStep \/ OperatorRestarts \/ TimePasses \/ World

OperatorSpec ==
    /\ OperatorInit
    /\ [][OperatorNext]_allVars
    /\ WF_allVars(OperatorStep \/ TimePasses)

-----------------------------------------------------------------------------

RetryDelays == {BootstrapDelay, PollDelay, RetryDelay}
LongestRetry == Max(RetryDelays \cup {Backoff})

\* The operator never loses sight of a policy: there is always a next
\* reconcile, and while a run is in progress it comes within the longest retry
\* and not with the next window, whatever call failed, the last status patch
\* included (Result and error of Reconcile, the queue's delays).
PolicyIsWatched ==
    pc = "idle" =>
        /\ queued \/ wakeAt # Never
        /\ HasOpenRun(status) => queued \/ wakeAt <= clock + LongestRetry

\* No window passes without a reconcile, also when windows overlap since the
\* cron period is shorter than the timeout, or the policy was last seen in the
\* window before (RequeueAfter).  Windows are longer than a retry.
WindowsAreMet ==
    \A t \in FireTimes : t + TimeoutMinutes <= clock => t \in met

\* README.md: changes are only applied during windows.  A run patches the cluster
\* and restarts workloads in a window, or no later after its end than the
\* reconcile takes that evaluated it.
ChangesInsideWindow ==
    [][ MaintenancePatch \/ (restarted' # restarted /\ restarted' # {})
        => \E t \in clock - ReconcileTime .. clock : InWindow(t) ]_allVars

\* The operator's own status patches wake it, but not forever: unless the VPA
\* keeps changing it comes to rest and waits for the clock (Reconcile, whose
\* status patch comes back as a watch event).
WakeUpsEnd == \A v \in VPAStates : <>[](vpa = v) => []<>Quiet

-----------------------------------------------------------------------------
\* Why these hold: inductive invariants, with those of Reconciler

\* The calls after the window was evaluated.
WindowCalls == RunCalls \cup StartCalls

\* A reconcile leaves a delay behind, and takes time only after its look at the
\* window.
QueueInv ==
    /\ pc = "idle" => queued \/ wakeAt # Never
    /\ pc \in {"idle"} \cup ReadCalls => windowDelay = 0
    /\ pc \in WindowCalls => windowDelay # 0
    /\ pc = "persist" =>
         result \in RetryDelays \cup {Error} \/ (windowDelay # 0 /\ result = windowDelay)
    /\ windowDelay # 0 => evaluated <= clock /\ clock <= evaluated + ReconcileTime

\* Only a reconcile that leaves no run in progress waits for a window.
WatchInv ==
    /\ pc = "idle" /\ HasOpenRun(status) => queued \/ wakeAt <= clock + LongestRetry
    /\ pc = "persist" => result \in RetryDelays \cup {Error} \/ ~HasOpenRun(pol)

\* When the running reconcile began, as far as windows can tell.
BeganAt == IF windowDelay = 0 THEN clock ELSE evaluated

\* Every delay ends before the next window that has not been met closes.
MetInv ==
    \A t \in FireTimes \ met :
        /\ clock < t + TimeoutMinutes
        /\ pc = "idle" => queued \/ wakeAt < t + TimeoutMinutes
        /\ pc # "idle" => BeganAt < t
        /\ windowDelay # 0 => evaluated + ReconcileTime + windowDelay < t + TimeoutMinutes

\* A run in hand was considered, or is resumed, in a window.
InWindowInv ==
    pc \in StartCalls \cup {"monitor", "trigger"} => InWindow(evaluated)

\* Windows are longer than what a reconcile and its delays take, and open one
\* after the other: what WindowsAreMet asks of a policy's schedule.
RoomyWindows ==
    /\ ReconcileTime + LongestRetry <= TimeoutMinutes
    /\ ReconcileTime + Jitter < TimeoutMinutes
    /\ \A s, t \in FireTimes : s < t => s + ReconcileTime + Jitter < t
=============================================================================
