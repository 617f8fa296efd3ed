---------------------------- MODULE OperatorProofs ----------------------------
(***************************************************************************)
(* That the operator under its work queue never loses sight of a policy,    *)
(* meets every window and changes the cluster in windows only.              *)
(***************************************************************************)
EXTENDS Operator, RunProofs

-----------------------------------------------------------------------------
\* Delays

LEMMA LongestRetryBounds ==
    /\ LongestRetry \in Nat
    /\ \A d \in RetryDelays \cup {Backoff} : d \in Nat /\ 1 <= d /\ d <= LongestRetry
<1> DEFINE S == RetryDelays \cup {Backoff}
           n == BootstrapDelay + PollDelay + RetryDelay + Backoff
<1>1. /\ BootstrapDelay \in Nat /\ 1 <= BootstrapDelay
      /\ PollDelay \in Nat /\ 1 <= PollDelay
      /\ RetryDelay \in Nat /\ 1 <= RetryDelay
      /\ Backoff \in Nat /\ 1 <= Backoff
  BY DelaysAssumption, BackoffAssumption
<1>2. n \in Nat /\ S \in SUBSET (0 .. n) /\ S # {}
  BY <1>1 DEF RetryDelays
<1>3. LongestRetry \in S /\ \A d \in S : d <= LongestRetry
  BY <1>2, MaxOfNaturals DEF LongestRetry
<1>4. \A d \in S : d \in Nat /\ 1 <= d
  BY <1>1 DEF RetryDelays
<1> QED
  BY <1>3, <1>4

\* An error or a short delay brings the policy back within the longest retry.
LEMMA DelaysBounded ==
    ASSUME NEW value \in RetryDelays \cup {Error}
    PROVE  /\ Delays(value) # {}
           /\ \A d \in Delays(value) : d \in Nat /\ d <= LongestRetry
<1>1. CASE value = Error
  <2>1. Delays(value) = 1 .. Backoff
    BY <1>1 DEF Delays
  <2>2. Backoff \in Nat /\ 1 <= Backoff /\ Backoff <= LongestRetry /\ LongestRetry \in Nat
    BY LongestRetryBounds
  <2> QED
    BY <2>1, <2>2
<1>2. CASE value \in RetryDelays
  <2>1. value \in Nat /\ 1 <= value /\ value <= LongestRetry /\ value # Error
    BY <1>2, LongestRetryBounds, NeverAssumption
  <2>2. Delays(value) = {value}
    BY <2>1 DEF Delays
  <2> QED
    BY <2>1, <2>2
<1> QED
  BY <1>1, <1>2

\* The wait for the end of a window, or for the next one, ends before a later
\* window closes.
LEMMA WaitForWindow ==
    ASSUME NEW now \in Nat, ~Evaluate(now).error
    PROVE  LET wait == RequeueAfter(Evaluate(now), now)
           IN  /\ wait \in Nat /\ wait # 0
               /\ RoomyWindows =>
                    \A t \in FireTimes :
                        now < t => now + ReconcileTime + wait < t + TimeoutMinutes
<1> DEFINE wait == RequeueAfter(Evaluate(now), now)
<1>0. /\ TimeoutMinutes \in Nat /\ Jitter \in Nat /\ ReconcileTime \in Nat
      /\ \A t \in FireTimes : t \in Nat
  BY TimeoutAssumption, JitterAssumption, ReconcileTimeAssumption, FireTimesAssumption
<1>1. CASE InWindow(now)
  <2> DEFINE w == WindowStart(now)
  <2>0. Evaluate(now) = [error |-> FALSE, inWindow |-> TRUE,
                         nextOpen |-> w, windowEnd |-> w + TimeoutMinutes]
    BY <1>1 DEF Evaluate, InWindow, WindowStart
  <2>1. /\ w \in FireTimes /\ w \in Nat /\ w <= now /\ now < w + TimeoutMinutes
    BY <1>1, WindowStartIsLast DEF InWindow, PrevTicks
  <2>2. wait = (w + TimeoutMinutes - now) + Jitter
    <3>1. RequeueAfter(Evaluate(now), now)
          = IF w + TimeoutMinutes - now < 0 THEN Jitter
            ELSE (w + TimeoutMinutes - now) + Jitter
      <4> HIDE DEF w
      <4> QED
        BY <1>0, <2>0, <2>1 DEF RequeueAfter
    <3> QED
      BY <1>0, <2>1, <3>1
  <2>3. ASSUME RoomyWindows, NEW t \in FireTimes, now < t
        PROVE  now + ReconcileTime + wait < t + TimeoutMinutes
    <3>1. w < t
      BY <1>0, <2>1, <2>3
    <3>2. w + ReconcileTime + Jitter < t
      BY <2>1, <2>3, <3>1 DEF RoomyWindows
    <3> HIDE DEF w, wait
    <3> QED
      BY <1>0, <2>1, <2>2, <3>2
  <2> HIDE DEF w
  <2> QED
    BY <1>0, <2>1, <2>2, <2>3
<1>2. CASE ~InWindow(now)
  <2> DEFINE n == Min(NextTicks(now))
  <2>1. /\ Evaluate(now) = [error |-> FALSE, inWindow |-> FALSE,
                            nextOpen |-> n, windowEnd |-> n + TimeoutMinutes]
        /\ NextTicks(now) # {}
    BY <1>2 DEF Evaluate, InWindow, WindowStart
  <2>2. NextTicks(now) \in SUBSET Nat
    BY <1>0 DEF NextTicks
  <2>3. n \in NextTicks(now) /\ \A t \in NextTicks(now) : n <= t
    BY <2>1, <2>2, MinOfNaturals
  <2>4. n \in Nat /\ now < n
    BY <2>3, <1>0 DEF NextTicks
  <2>5. wait = (n - now) + Jitter
    <3>1. wait = IF n - now < 0 THEN Jitter ELSE (n - now) + Jitter
      BY <2>1 DEF RequeueAfter
    <3> QED
      BY <1>0, <2>4, <3>1
  <2>6. ASSUME RoomyWindows, NEW t \in FireTimes, now < t
        PROVE  now + ReconcileTime + wait < t + TimeoutMinutes
    <3>1. n <= t
      BY <2>3, <2>6 DEF NextTicks
    <3>2. ReconcileTime + Jitter < TimeoutMinutes
      BY <2>6 DEF RoomyWindows
    <3> HIDE DEF n, wait
    <3> QED
      BY <1>0, <2>4, <2>5, <3>1, <3>2
  <2> HIDE DEF n
  <2> QED
    BY <1>0, <2>4, <2>5, <2>6
<1> QED
  BY <1>1, <1>2

LEMMA EarliestBounds ==
    ASSUME NEW a \in Nat \cup {Never}, NEW b \in Nat
    PROVE  /\ Earliest(a, b) \in Nat
           /\ Earliest(a, b) <= b
           /\ a \in Nat => Earliest(a, b) <= a
BY NeverAssumption DEF Earliest
-----------------------------------------------------------------------------
\* Steps

\* Every step of the operator is one of Reconciler; that the controller may also
\* die between two reconciles only uses up a failure.
LEMMA StepsOfReconciler ==
    ASSUME [OperatorNext]_allVars
    PROVE  \/ [Next]_vars
           \/ Fault("crash") /\ UNCHANGED <<world, reconcile, history>>
<1>1. CASE TakePolicy
  BY <1>1 DEF TakePolicy, Next, ReconcileStep
<1>2. CASE CallAPI
  BY <1>2 DEF CallAPI, Returns, ReturnsAfterWindow, EvaluatesWindow, Next, ReconcileStep
<1>3. CASE FinishPolicy
  BY <1>3 DEF FinishPolicy, Next, ReconcileStep
<1>4. CASE DelayEnds \/ UNCHANGED allVars
  BY <1>4 DEF DelayEnds, allVars
<1>5. CASE OperatorRestarts
  BY <1>5 DEF OperatorRestarts, Next, Environment
<1>6. CASE TimePasses
  BY <1>6 DEF TimePasses, Next, Environment
<1>7. CASE World
  BY <1>7 DEF World, Next, Environment
<1> QED
  BY <1>1, <1>2, <1>3, <1>4, <1>5, <1>6, <1>7 DEF OperatorNext, OperatorStep

\* What a call returns to the queue, if it is the last before the status patch.
LEMMA ReturnedValue ==
    ASSUME Returns
    PROVE  /\ pc \in Calls \ {"idle", "persist"} /\ pc' # "idle"
           /\ UNCHANGED <<clock, status>>
           /\ pc' \in WindowCalls => pc \in WindowCalls
           /\ pc' \in ReadCalls => pc \in ReadCalls
           /\ pc' # "persist" => result' = result
           /\ pc' = "persist" => \/ result' \in RetryDelays \cup {Error}
                                 \/ pc \in WindowCalls /\ result' = windowDelay
<1> USE DEF OnReturn, Calls, ReadCalls, WindowCalls, RunCalls, StartCalls, RetryDelays, world,
            GoTo, Return
<1>1. CASE GetCurrentMemory /\ OnReturn(Error)
  BY <1>1 DEF GetCurrentMemory
<1>2. CASE Bootstrap /\ OnReturn(IF ClusterCallFails THEN Error ELSE BootstrapDelay)
  BY <1>2 DEF Bootstrap
<1>3. CASE ReadNoRecommendation /\ OnReturn(IF CallFails THEN Error ELSE RetryDelay)
  BY <1>3 DEF ReadNoRecommendation
<1>4. CASE WindowEvaluationFails /\ OnReturn(Error)
  BY <1>4 DEF WindowEvaluationFails
<1>5. CASE CheckHealthGate /\ OnReturn(IF ClusterCallFails THEN Error ELSE windowDelay)
  BY <1>5 DEF CheckHealthGate
<1>6. CASE ChangeGateBlocks /\ OnReturn(windowDelay)
  BY <1>6 DEF ChangeGateBlocks
<1>7. CASE StartMaintenance /\ OnReturn(IF ClusterCallFails THEN RetryDelay ELSE PollDelay)
  BY <1>7 DEF StartMaintenance
<1>8. CASE MonitorCluster /\ OnReturn(IF ClusterCallFails THEN Error
                                      ELSE IF cluster.running THEN windowDelay
                                      ELSE PollDelay)
  BY <1>8 DEF MonitorCluster
<1>9. CASE TriggerPostAction /\ OnReturn(IF CallFails THEN RetryDelay ELSE PollDelay)
  BY <1>9 DEF TriggerPostAction
<1>10. CASE MonitorRollout /\ OnReturn(IF CallFails THEN Error
                                       ELSE IF IsRolloutComplete(PostActions[next])
                                       THEN windowDelay
                                       ELSE PollDelay)
  BY <1>10 DEF MonitorRollout
<1>11. CASE HandleWindowExpired /\ OnReturn(RetryDelay)
  BY <1>11 DEF HandleWindowExpired
<1>12. CASE CheckExpiredRollout /\ OnReturn(RetryDelay)
  BY <1>12 DEF CheckExpiredRollout
<1> QED
  BY <1>1, <1>2, <1>3, <1>4, <1>5, <1>6, <1>7, <1>8, <1>9, <1>10, <1>11, <1>12
     DEF Returns

\* The same for the call after which the window is evaluated.
LEMMA ReturnedAfterWindow ==
    ASSUME ReturnsAfterWindow
    PROVE  /\ pc = "readVPA" /\ pc' \in WindowCalls \cup {"persist"}
           /\ ~Evaluate(clock).error
           /\ UNCHANGED <<clock, status>>
           /\ windowDelay' = RequeueAfter(Evaluate(clock), clock) /\ evaluated' = clock
           /\ result' = IF pc' = "persist" THEN windowDelay' ELSE result
<1> USE DEF ReturnsAfterWindow, EvaluatesWindow, OnReturn, WindowCalls, RunCalls,
            StartCalls, world, GoTo
<1>1. CASE ResumeRun
  BY <1>1 DEF ResumeRun
<1>2. CASE ConsiderRun
  BY <1>2 DEF ConsiderRun
<1> QED
  BY <1>1, <1>2
-----------------------------------------------------------------------------
\* Types, and that something always brings the policy back

QueueInvs == TypeInv /\ OperatorTypeOK /\ QueueInv

LEMMA QueueInvsInit == OperatorInit => QueueInvs
<1> SUFFICES ASSUME OperatorInit PROVE QueueInvs
  OBVIOUS
<1>1. TypeInv
  BY TypeInvInit DEF OperatorInit
<1>2. pc = "idle"
  BY DEF OperatorInit, Init
<1> QED
  BY <1>1, <1>2 DEF OperatorInit, QueueInit, QueueInvs, OperatorTypeOK, QueueTypeOK,
                    QueueInv, TypeInv, WindowCalls, RunCalls, StartCalls

\* The queue after a reconcile: queued, or to be queued after one of the delays
\* at the latest.
LEMMA AfterPutBack ==
    ASSUME QueueTypeOK, NEW value, NEW now \in Nat, NEW event \in BOOLEAN,
           PutBack(value, now, event), Delays(value) # {},
           \A d \in Delays(value) : d \in Nat
    PROVE  /\ queued' \in BOOLEAN /\ wakeAt' \in Nat
           /\ \E d \in Delays(value) : wakeAt' <= now + d
<1>1. PICK d \in Delays(value) : wakeAt' = Earliest(wakeAt, now + d)
  BY DEF PutBack
<1>2. wakeAt' \in Nat /\ wakeAt' <= now + d
  <2>1. now + d \in Nat
    BY <1>1
  <2> QED
    BY <1>1, <2>1, EarliestBounds DEF QueueTypeOK
<1> QED
  BY <1>2 DEF PutBack, QueueTypeOK

\* What a reconcile that is at its last call makes of the queue.
LEMMA AfterFinish ==
    ASSUME QueueInvs, FinishPolicy
    PROVE  /\ queued' \in BOOLEAN /\ wakeAt' \in Nat
           /\ Outcome \in RetryDelays \cup {Error} \/ (windowDelay # 0 /\ Outcome = windowDelay)
           /\ \E d \in Delays(Outcome) : d \in Nat /\ wakeAt' <= clock + d
<1>1. /\ pc = "persist" /\ PutBack(Outcome, clock, StatusChanges)
      /\ clock \in Nat /\ windowDelay \in Nat /\ QueueTypeOK
  BY DEF FinishPolicy, Persist, QueueInvs, OperatorTypeOK, TypeOK
<1>2. Outcome \in RetryDelays \cup {Error} \/ (windowDelay # 0 /\ Outcome = windowDelay)
  BY <1>1 DEF QueueInvs, QueueInv, Outcome
<1>3. Delays(Outcome) # {} /\ \A d \in Delays(Outcome) : d \in Nat
  <2>1. CASE Outcome \in RetryDelays \cup {Error}
    BY <2>1, DelaysBounded
  <2>2. CASE windowDelay # 0 /\ Outcome = windowDelay
    BY <1>1, <2>2, NeverAssumption DEF Delays
  <2> QED
    BY <1>2, <2>1, <2>2
<1>4. StatusChanges \in BOOLEAN
  BY DEF StatusChanges
<1> QED
  BY <1>1, <1>2, <1>3, <1>4, AfterPutBack

LEMMA QueueInvsNext == QueueInvs /\ [OperatorNext]_allVars => QueueInvs'
<1> SUFFICES ASSUME QueueInvs, [OperatorNext]_allVars PROVE QueueInvs'
  OBVIOUS
<1>1. /\ TypeInv /\ clock \in Nat /\ evaluated \in Nat /\ windowDelay \in Nat
      /\ result \in Nat \cup {Error} /\ met \subseteq FireTimes
      /\ queued \in BOOLEAN /\ wakeAt \in Nat \cup {Never} /\ QueueInv
      /\ pc \in Calls
  BY DEF QueueInvs, OperatorTypeOK, QueueTypeOK, TypeInv, TypeOK
<1>2. TypeInv'
  <2>1. CASE [Next]_vars
    BY <1>1, <2>1, TypeInvNext
  <2>2. CASE Fault("crash") /\ UNCHANGED <<world, reconcile, history>>
    BY <1>1, <2>2 DEF Fault, world, reconcile, history, TypeInv, TypeOK
  <2> QED
    BY <2>1, <2>2, StepsOfReconciler
<1>3. ASSUME result' \in Nat \cup {Error}, windowDelay' \in Nat, evaluated' \in Nat,
             met' \subseteq FireTimes, QueueTypeOK', QueueInv'
      PROVE  QueueInvs'
  BY <1>2, <1>3 DEF QueueInvs, OperatorTypeOK, TypeInv
<1> USE DEF QueueTypeOK, queue, operator, ForgetReconcile
<1>4. CASE TakePolicy
  <2>1. /\ pc = "idle" /\ pc' = "getMemory" /\ UNCHANGED <<clock, wakeAt>>
        /\ UNCHANGED <<result, windowDelay, evaluated>>
        /\ queued' = FALSE /\ met' = met \cup OpenWindows
    BY <1>4 DEF TakePolicy, TakeFromQueue, Begin, GoTo, world
  <2>2. OpenWindows \subseteq FireTimes
    BY DEF OpenWindows
  <2>3. QueueInv'
    BY <1>1, <2>1 DEF QueueInv, WindowCalls, RunCalls, StartCalls
  <2> QED
    BY <1>1, <1>3, <2>1, <2>2, <2>3
<1>5. CASE Returns /\ UNCHANGED <<windowDelay, evaluated, queue, met>>
  <2>1. result' \in Nat \cup {Error}
    BY <1>1, <1>5, ReturnedValue, LongestRetryBounds
  <2>2. QueueInv'
    BY <1>1, <1>5, ReturnedValue, LongestRetryBounds DEF QueueInv, Calls
  <2> QED
    BY <1>1, <1>3, <1>5, <2>1, <2>2
<1>6. CASE ReturnsAfterWindow /\ UNCHANGED <<queue, met>>
  <2>1. windowDelay' \in Nat /\ windowDelay' # 0
    BY <1>1, <1>6, ReturnedAfterWindow, WaitForWindow
  <2>2. QueueInv'
    <3>1. pc' \notin {"idle"} \cup ReadCalls
      BY <1>6, ReturnedAfterWindow DEF ReadCalls, WindowCalls, RunCalls, StartCalls
    <3>2. evaluated' <= clock' /\ clock' <= evaluated' + ReconcileTime
      BY <1>1, <1>6, ReturnedAfterWindow, ReconcileTimeAssumption
    <3> QED
      BY <1>1, <1>6, <2>1, <3>1, <3>2, ReturnedAfterWindow DEF QueueInv
  <2> QED
    BY <1>1, <1>3, <1>6, <2>1, <2>2, ReturnedAfterWindow
<1>7. CASE FinishPolicy
  <2>1. pc' = "idle" /\ UNCHANGED <<clock, met>> /\ windowDelay' = 0
        /\ result' = 0 /\ evaluated' = 0
    BY <1>7 DEF FinishPolicy, Persist, EndReconcile
  <2>2. queued' \in BOOLEAN /\ wakeAt' \in Nat
    BY <1>7, AfterFinish
  <2>3. QueueInv'
    BY <2>1, <2>2, NeverAssumption DEF QueueInv, WindowCalls, RunCalls, StartCalls
  <2> QED
    BY <1>1, <1>3, <2>1, <2>2, <2>3
<1>8. CASE DelayEnds
  <2>1. UNCHANGED <<pc, clock, result, windowDelay, evaluated, met>>
        /\ queued' = TRUE /\ wakeAt' = Never
    BY <1>8 DEF DelayEnds, DelayIsOver, vars, reconcile, world
  <2>2. QueueInv'
    BY <1>1, <2>1 DEF QueueInv
  <2> QED
    BY <1>1, <1>3, <2>1, <2>2
<1>9. CASE OperatorRestarts
  <2>1. /\ pc' = "idle" /\ UNCHANGED <<clock, met>> /\ windowDelay' = 0
        /\ result' = 0 /\ evaluated' = 0 /\ queued' = TRUE /\ wakeAt' = Never
    BY <1>9 DEF OperatorRestarts, QueueIsLost, Crash, EndReconcile, reconcile, world
  <2>2. QueueInv'
    BY <2>1 DEF QueueInv, WindowCalls, RunCalls, StartCalls
  <2> QED
    BY <1>1, <1>3, <2>1, <2>2
<1>10. CASE TimePasses
  <2>1. /\ UNCHANGED <<pc, queued, wakeAt, result, windowDelay, evaluated, met>>
        /\ clock' = clock + 1
        /\ Quiet \/ (windowDelay # 0 /\ clock < evaluated + ReconcileTime)
    BY <1>10 DEF TimePasses, Tick, reconcile
  <2>2. windowDelay # 0 => evaluated <= clock' /\ clock' <= evaluated + ReconcileTime
    BY <1>1, <2>1, ReconcileTimeAssumption DEF QueueInv, Quiet
  <2>3. QueueInv'
    BY <1>1, <2>1, <2>2 DEF QueueInv
  <2> QED
    BY <1>1, <1>3, <2>1, <2>3
<1>11. CASE World
  <2>1. UNCHANGED <<pc, clock, queue, operator>>
    BY <1>11 DEF World, VPAChanges, ClusterStopsRunning, ClusterRuns, RolloutProgresses,
                 EnvironmentUnchanged, reconcile
  <2>2. QueueInv'
    BY <1>1, <2>1 DEF QueueInv
  <2> QED
    BY <1>1, <1>3, <2>1, <2>2
<1>12. CASE UNCHANGED allVars
  <2>1. UNCHANGED <<pc, clock, queue, operator>>
    BY <1>12 DEF allVars, vars, reconcile, world
  <2>2. QueueInv'
    BY <1>1, <2>1 DEF QueueInv
  <2> QED
    BY <1>1, <1>3, <2>1, <2>2
<1> QED
  BY <1>4, <1>5, <1>6, <1>7, <1>8, <1>9, <1>10, <1>11, <1>12
     DEF OperatorNext, OperatorStep, CallAPI

\* Every variable of the operator and its queue has its type, whatever fails.
THEOREM OperatorTypeCorrect == OperatorSpec => []OperatorTypeOK
<1>1. QueueInvs => OperatorTypeOK
  BY DEF QueueInvs
<1> QED
  BY <1>1, QueueInvsInit, QueueInvsNext, PTL DEF OperatorSpec
-----------------------------------------------------------------------------
\* A run in progress is looked at again

\* With fresh reads a reconcile waits for a window only when it leaves no run in
\* progress.
LEMMA CompletedHasNoRun ==
    ASSUME NEW policy \in PolicyStatusType, HasOpenRun(policy)
    PROVE  ~HasOpenRun(CompleteMaintenance(policy))
<1> DEFINE paid    == [policy EXCEPT !.currentMemory = OpenRun(policy).appliedMemory]
           marked  == MarkRecordCompleted(paid, "Completed")
           cleared == SetCondition(marked, "MaintenanceInProgress", "False",
                                   "MaintenanceCompleted")
           done    == SetCondition(cleared, "LastMaintenanceFailed", "False",
                                   "MaintenanceSucceeded")
<1>1. paid \in PolicyStatusType
  BY OpenRunType, MemoryFieldType DEF MaintenanceRecord
<1> HIDE DEF paid
<1>2. marked \in PolicyStatusType
  BY <1>1, MarkRecordType DEF MaintenanceStatus
<1> HIDE DEF marked
<1>3. cleared \in PolicyStatusType
  BY <1>2, SetConditionType DEF ConditionTypes, ConditionReasons
<1>4. ~IsConditionTrue(cleared, "MaintenanceInProgress")
  BY <1>2, SetConditionValue DEF ConditionTypes
<1> HIDE DEF cleared
<1>5. ~IsConditionTrue(done, "MaintenanceInProgress")
  BY <1>3, <1>4, SetConditionValue DEF ConditionTypes
<1>6. CompleteMaintenance(policy) = done
  BY DEF CompleteMaintenance, done, cleared, marked, paid
<1> HIDE DEF done
<1> QED
  BY <1>5, <1>6 DEF HasOpenRun

LEMMA WaitsWithoutRun ==
    ASSUME TypeInv, ConsistencyInv, Returns, pc' = "persist",
           result' \notin RetryDelays \cup {Error}
    PROVE  ~HasOpenRun(pol')
<1> USE DEF OnReturn, RetryDelays, GoTo, Return
<1>0. /\ pol \in PolicyStatusType /\ faults \in Nat
      /\ pc \in StartCalls => InProgressRecords(pol) = {}
  BY DEF TypeInv, TypeOK, ConsistencyInv
<1>1. ASSUME NEW policy \in PolicyStatusType, InProgressRecords(policy) = {}
      PROVE  ~HasOpenRun(policy)
  BY <1>1, FindInProgress DEF HasOpenRun
<1>2. CASE CheckHealthGate /\ OnReturn(IF ClusterCallFails THEN Error ELSE windowDelay)
  <2>1. /\ pc \in StartCalls /\ clock \in Nat
        /\ pol' = pol \/ pol' = SkipMaintenance(pol)
    BY <1>2 DEF CheckHealthGate, StartCalls, TypeInv, TypeOK
  <2> QED
    BY <1>0, <1>1, <2>1, SkipMaintenanceSame, SkipMaintenanceType
<1>3. CASE ChangeGateBlocks /\ OnReturn(windowDelay)
  <2> DEFINE skipped == SkipMaintenance(Observed)
  <2>1. skipped \in PolicyStatusType
    BY ObservedType, SkipMaintenanceType DEF TypeInv, TypeOK
  <2>2. pol' = SetCondition(skipped, "MaintenanceInProgress", "False", Gate)
    BY <1>3 DEF ChangeGateBlocks
  <2>3. ~IsConditionTrue(pol', "MaintenanceInProgress")
    <3> HIDE DEF skipped
    <3> QED
      BY <2>1, <2>2, SetConditionValue DEF ConditionTypes
  <2> QED
    BY <2>3 DEF HasOpenRun
<1>4. CASE MonitorCluster /\ OnReturn(IF ClusterCallFails THEN Error
                                      ELSE IF cluster.running THEN windowDelay
                                      ELSE PollDelay)
  <2>1. ~ClusterCallFails /\ cluster.running
    BY <1>4
  <2>2. ~HealthError /\ ~HealthIs(FALSE)
    BY <1>0, <2>1 DEF ClusterCallFails, CallFails, HealthError, HealthIs, Fault
  <2>3. pol' = CompleteMaintenance(pol) /\ HasOpenRun(pol) /\ OneRunAtATime(pol)
    BY <1>4, <2>2 DEF MonitorCluster, TypeInv, RunCalls, ConsistencyInv, Consistent
  <2> QED
    BY <1>0, <2>3, CompletedHasNoRun
<1>5. CASE MonitorRollout /\ OnReturn(IF CallFails THEN Error
                                      ELSE IF IsRolloutComplete(PostActions[next])
                                      THEN windowDelay
                                      ELSE PollDelay)
  <2>1. ~CallFails /\ IsRolloutComplete(PostActions[next])
    BY <1>5
  <2>2. pol' = CompleteMaintenance(pol) /\ HasOpenRun(pol) /\ OneRunAtATime(pol)
    BY <1>0, <1>5, <2>1
       DEF MonitorRollout, CallFails, Fault, TypeInv, RunCalls, ConsistencyInv, Consistent
  <2> QED
    BY <1>0, <2>2, CompletedHasNoRun
<1> QED
  BY <1>2, <1>3, <1>4, <1>5 DEF Returns

LEMMA ConsideredHasNoRun ==
    ASSUME TypeInv, ReturnsAfterWindow, pc' = "persist"
    PROVE  ~HasOpenRun(pol')
<1>1. ConsiderRun
  BY DEF ReturnsAfterWindow, EvaluatesWindow, ResumeRun, GoTo
<1>2. Synced \in PolicyStatusType /\ ~HasOpenRun(Synced) /\ pol' = ClearStaleCondition(Synced)
  BY <1>1, SyncedType DEF ConsiderRun, GoTo, TypeInv
<1> HIDE DEF Synced
<1>3. CASE IsConditionTrue(Synced, "MaintenanceInProgress")
  <2>1. pol' = SetCondition(Synced, "MaintenanceInProgress", "False",
                            "StaleConditionCleared")
    BY <1>2, <1>3 DEF ClearStaleCondition
  <2> QED
    BY <1>2, <2>1, SetConditionValue DEF HasOpenRun, ConditionTypes
<1>4. CASE ~IsConditionTrue(Synced, "MaintenanceInProgress")
  BY <1>2, <1>4 DEF ClearStaleCondition
<1> QED
  BY <1>3, <1>4

WatchInvs == QueueInvs /\ ConsistencyInv /\ WatchInv

LEMMA WatchInvsInit == OperatorInit => WatchInvs
<1> SUFFICES ASSUME OperatorInit PROVE WatchInvs
  OBVIOUS
<1>1. QueueInvs /\ ConsistencyInv
  BY QueueInvsInit, ConsistencyInvInit DEF OperatorInit
<1>2. WatchInv
  BY DEF OperatorInit, Init, QueueInit, WatchInv
<1> QED
  BY <1>1, <1>2 DEF WatchInvs

LEMMA ConsistencyUnderQueue ==
    ASSUME "stale" \notin Faults, TypeInv, ConsistencyInv, [OperatorNext]_allVars
    PROVE  ConsistencyInv'
<1>1. CASE [Next]_vars
  BY <1>1, ConsistencyInvNext
<1>2. CASE UNCHANGED <<world, reconcile>>
  BY <1>2 DEF world, reconcile, ConsistencyInv
<1> QED
  BY <1>1, <1>2, StepsOfReconciler

LEMMA WatchInvsNext ==
    ASSUME "stale" \notin Faults, WatchInvs, [OperatorNext]_allVars
    PROVE  WatchInvs'
<1>1. /\ QueueInvs /\ TypeInv /\ ConsistencyInv /\ WatchInv /\ QueueInv
      /\ clock \in Nat /\ wakeAt \in Nat \cup {Never}
      /\ status \in PolicyStatusType /\ pol \in PolicyStatusType
  BY DEF WatchInvs, QueueInvs, OperatorTypeOK, QueueTypeOK, TypeOK
<1>2. QueueInvs' /\ ConsistencyInv'
  BY <1>1, QueueInvsNext, ConsistencyUnderQueue
<1> SUFFICES WatchInv'
  BY <1>2 DEF WatchInvs
<1>3. CASE TakePolicy
  BY <1>3 DEF TakePolicy, Begin, GoTo, WatchInv
<1>4. CASE Returns
  BY <1>1, <1>4, ReturnedValue, WaitsWithoutRun DEF WatchInv
<1>5. CASE ReturnsAfterWindow
  <2>1. pc' # "idle"
    BY <1>5, ReturnedAfterWindow DEF WindowCalls, RunCalls, StartCalls
  <2> QED
    BY <1>1, <1>5, <2>1, ConsideredHasNoRun DEF WatchInv
<1>6. CASE FinishPolicy
  <2>1. pc = "persist" /\ pc' = "idle" /\ clock' = clock
    BY <1>6 DEF FinishPolicy, Persist, EndReconcile
  <2>2. ASSUME HasOpenRun(status')
        PROVE  wakeAt' <= clock + LongestRetry
    <3>1. CASE Outcome \in RetryDelays \cup {Error}
      <4>1. PICK d \in Delays(Outcome) : d \in Nat /\ wakeAt' <= clock + d /\ wakeAt' \in Nat
        BY <1>1, <1>6, AfterFinish
      <4>2. d <= LongestRetry /\ LongestRetry \in Nat
        BY <3>1, DelaysBounded, LongestRetryBounds
      <4> QED
        BY <1>1, <4>1, <4>2
    <3>2. CASE Outcome \notin RetryDelays \cup {Error}
      <4>1. ~CallFails /\ Outcome = result
        BY <3>2 DEF Outcome
      <4>2. ~HasOpenRun(pol)
        BY <1>1, <2>1, <3>2, <4>1 DEF WatchInv
      <4>3. faults \in Nat
        BY <1>1 DEF TypeInv, TypeOK
      <4>4. status' = MergePatch(status, base, pol) /\ base = status
        BY <1>1, <1>6, <2>1, <4>1, <4>3
           DEF FinishPolicy, Persist, CallFails, Fault, ConsistencyInv
      <4>5. status' = pol
        BY <1>1, <4>4, MergePatchOfCurrent
      <4> QED
        BY <2>2, <4>2, <4>5
    <3> QED
      BY <3>1, <3>2
  <2> QED
    BY <2>1, <2>2 DEF WatchInv
<1>7. CASE DelayEnds
  <2>1. UNCHANGED <<pc, pol, result>> /\ queued' = TRUE
    BY <1>7 DEF DelayEnds, DelayIsOver, vars, reconcile, operator
  <2> QED
    BY <1>1, <2>1 DEF WatchInv
<1>8. CASE OperatorRestarts
  <2>1. pc' = "idle" /\ queued' = TRUE
    BY <1>8 DEF OperatorRestarts, QueueIsLost, Crash, EndReconcile, reconcile
  <2> QED
    BY <2>1 DEF WatchInv
<1>9. CASE TimePasses
  <2>1. /\ UNCHANGED <<pc, pol, status, result, queued, wakeAt>>
        /\ clock' = clock + 1
    BY <1>9 DEF TimePasses, Tick, reconcile, queue, operator
  <2>2. \A w \in Nat : w <= clock + LongestRetry => w <= clock + 1 + LongestRetry
    BY <1>1, LongestRetryBounds
  <2> QED
    BY <1>1, <2>1, <2>2 DEF WatchInv, QueueInv
<1>10. CASE World \/ UNCHANGED allVars
  <2>1. UNCHANGED <<pc, pol, status, clock, result, queued, wakeAt>>
    BY <1>10 DEF World, VPAChanges, ClusterStopsRunning, ClusterRuns, RolloutProgresses,
                 EnvironmentUnchanged, reconcile, queue, operator, allVars, vars, world
  <2> QED
    BY <1>1, <2>1 DEF WatchInv
<1> QED
  BY <1>1, <1>3, <1>4, <1>5, <1>6, <1>7, <1>8, <1>9, <1>10
     DEF WatchInvs, OperatorNext, OperatorStep, CallAPI

\* With fresh reads the operator never loses sight of a policy: an idle one has
\* it queued or delayed, and while a run is in progress it comes back within the
\* longest retry, whatever delays, schedule and failures.
THEOREM PolicyStaysWatched ==
    ASSUME "stale" \notin Faults
    PROVE  OperatorSpec => []PolicyIsWatched
<1>1. WatchInvs => PolicyIsWatched
  BY DEF WatchInvs, QueueInvs, QueueInv, WatchInv, PolicyIsWatched
<1> QED
  BY <1>1, WatchInvsInit, WatchInvsNext, PTL DEF OperatorSpec
-----------------------------------------------------------------------------
\* Every window is met

MetInvs == QueueInvs /\ MetInv

LEMMA MetInvsInit ==
    ASSUME RoomyWindows
    PROVE  OperatorInit => MetInvs
<1> SUFFICES ASSUME OperatorInit PROVE MetInvs
  OBVIOUS
<1>1. /\ clock = 0 /\ pc = "idle" /\ queued = TRUE /\ windowDelay = 0
      /\ \A t \in FireTimes : t \in Nat
  BY FireTimesAssumption DEF OperatorInit, Init, QueueInit
<1>2. TimeoutMinutes \in Nat /\ 0 < TimeoutMinutes
  BY TimeoutAssumption, ReconcileTimeAssumption, JitterAssumption DEF RoomyWindows
<1>3. \A t \in FireTimes : clock < t + TimeoutMinutes
  BY <1>1, <1>2
<1> QED
  BY <1>1, <1>3, QueueInvsInit DEF MetInvs, MetInv

\* However a reconcile ends, the queue brings the policy back in time.
LEMMA BackInTime ==
    ASSUME RoomyWindows, QueueInvs, MetInv, FinishPolicy, NEW t \in FireTimes \ met
    PROVE  wakeAt' < t + TimeoutMinutes
<1>1. /\ t \in Nat /\ TimeoutMinutes \in Nat /\ ReconcileTime \in Nat /\ LongestRetry \in Nat
      /\ ReconcileTime + LongestRetry <= TimeoutMinutes
      /\ clock \in Nat /\ evaluated \in Nat /\ windowDelay \in Nat
  BY FireTimesAssumption, TimeoutAssumption, ReconcileTimeAssumption, LongestRetryBounds
     DEF RoomyWindows, QueueInvs, OperatorTypeOK, TypeOK
<1>2. /\ BeganAt < t
      /\ windowDelay # 0 => /\ evaluated <= clock /\ clock <= evaluated + ReconcileTime
                            /\ evaluated + ReconcileTime + windowDelay < t + TimeoutMinutes
  BY DEF FinishPolicy, Persist, MetInv, QueueInvs, QueueInv
<1>3. clock < t + ReconcileTime
  <2>1. CASE windowDelay = 0
    BY <1>1, <1>2, <2>1 DEF BeganAt
  <2>2. CASE windowDelay # 0
    BY <1>1, <1>2, <2>2 DEF BeganAt
  <2> QED
    BY <2>1, <2>2
<1>4. PICK d \in Delays(Outcome) : d \in Nat /\ wakeAt' <= clock + d
  BY AfterFinish
<1>5. wakeAt' \in Nat
  BY AfterFinish
<1>6. CASE Outcome \in RetryDelays \cup {Error}
  <2>1. d <= LongestRetry
    BY <1>4, <1>6, DelaysBounded
  <2> QED
    BY <1>1, <1>3, <1>4, <1>5, <2>1
<1>7. CASE windowDelay # 0 /\ Outcome = windowDelay
  <2>1. d = windowDelay
    BY <1>1, <1>4, <1>7, NeverAssumption DEF Delays
  <2> QED
    BY <1>1, <1>2, <1>4, <1>5, <1>7, <2>1
<1> QED
  BY <1>6, <1>7, AfterFinish

LEMMA MetInvsNext ==
    ASSUME RoomyWindows, MetInvs, [OperatorNext]_allVars
    PROVE  MetInvs'
<1>1. /\ QueueInvs /\ MetInv /\ QueueInv
      /\ clock \in Nat /\ evaluated \in Nat /\ windowDelay \in Nat
      /\ wakeAt \in Nat \cup {Never} /\ queued \in BOOLEAN
  BY DEF MetInvs, QueueInvs, OperatorTypeOK, QueueTypeOK, TypeOK
<1>2. QueueInvs'
  BY <1>1, QueueInvsNext
<1> SUFFICES MetInv'
  BY <1>2 DEF MetInvs
<1>3. /\ \A t \in FireTimes : t \in Nat
      /\ TimeoutMinutes \in Nat /\ ReconcileTime \in Nat
      /\ ReconcileTime <= TimeoutMinutes
  BY FireTimesAssumption, TimeoutAssumption, ReconcileTimeAssumption, LongestRetryBounds
     DEF RoomyWindows
<1>4. CASE TakePolicy
  <2>1. /\ pc = "idle" /\ pc' = "getMemory" /\ windowDelay = 0
        /\ UNCHANGED <<clock, windowDelay>> /\ met' = met \cup OpenWindows
    BY <1>1, <1>4 DEF TakePolicy, Begin, GoTo, world, QueueInv
  <2>2. ASSUME NEW t \in FireTimes \ met'
        PROVE  clock < t /\ clock < t + TimeoutMinutes
    <3>1. t \in FireTimes \ met /\ t \notin OpenWindows
      BY <2>1, <2>2
    <3>2. clock < t + TimeoutMinutes /\ t \in Nat
      BY <1>1, <1>3, <3>1 DEF MetInv
    <3>3. ~(t <= clock)
      BY <3>1, <3>2 DEF OpenWindows
    <3> QED
      BY <1>1, <3>2, <3>3
  <2> QED
    BY <2>1, <2>2 DEF MetInv, BeganAt
<1>5. CASE Returns /\ UNCHANGED <<windowDelay, evaluated, queue, met>>
  <2>1. pc # "idle" /\ pc' # "idle" /\ clock' = clock
    BY <1>5, ReturnedValue
  <2> QED
    BY <1>1, <1>5, <2>1 DEF MetInv, BeganAt
<1>6. CASE ReturnsAfterWindow /\ UNCHANGED <<queue, met>>
  <2>1. /\ pc = "readVPA" /\ pc' # "idle" /\ clock' = clock /\ evaluated' = clock
        /\ ~Evaluate(clock).error
        /\ windowDelay' = RequeueAfter(Evaluate(clock), clock)
    BY <1>6, ReturnedAfterWindow DEF WindowCalls, RunCalls, StartCalls
  <2>2. ASSUME NEW t \in FireTimes \ met
        PROVE  /\ clock < t /\ clock < t + TimeoutMinutes
               /\ clock + ReconcileTime + windowDelay' < t + TimeoutMinutes
    <3>1. BeganAt < t /\ clock < t + TimeoutMinutes
      BY <1>1, <2>1 DEF MetInv
    <3>2. clock < t
      <4>1. CASE windowDelay = 0
        BY <3>1, <4>1 DEF BeganAt
      <4>2. CASE windowDelay # 0
        BY <1>1, <2>1, <4>2 DEF QueueInv, ReadCalls
      <4> QED
        BY <4>1, <4>2
    <3> QED
      BY <1>1, <2>1, <3>1, <3>2, WaitForWindow
  <2> QED
    BY <1>1, <1>6, <2>1, <2>2 DEF MetInv, BeganAt
<1>7. CASE FinishPolicy
  <2>1. pc = "persist" /\ pc' = "idle" /\ clock' = clock /\ met' = met /\ windowDelay' = 0
    BY <1>7 DEF FinishPolicy, Persist, EndReconcile, ForgetReconcile
  <2> QED
    BY <1>1, <1>7, <2>1, BackInTime DEF MetInv
<1>8. CASE DelayEnds
  <2>1. UNCHANGED <<pc, clock, windowDelay, evaluated, met>> /\ queued' = TRUE
    BY <1>8 DEF DelayEnds, DelayIsOver, vars, reconcile, world, operator
  <2> QED
    BY <1>1, <2>1 DEF MetInv, BeganAt
<1>9. CASE OperatorRestarts
  <2>1. pc' = "idle" /\ queued' = TRUE /\ windowDelay' = 0 /\ clock' = clock /\ met' = met
    BY <1>9 DEF OperatorRestarts, QueueIsLost, Crash, EndReconcile, ForgetReconcile,
                reconcile, world
  <2> QED
    BY <1>1, <2>1 DEF MetInv
<1>10. CASE TimePasses
  <2>1. /\ UNCHANGED <<pc, queued, wakeAt, windowDelay, evaluated, met>>
        /\ clock' = clock + 1
        /\ Quiet \/ (windowDelay # 0 /\ clock < evaluated + ReconcileTime)
    BY <1>10 DEF TimePasses, Tick, reconcile, queue, operator
  <2>2. CASE Quiet
    <3>1. pc = "idle" /\ ~queued /\ wakeAt \in Nat /\ ~(wakeAt <= clock) /\ windowDelay = 0
      BY <1>1, <2>2 DEF Quiet, IsDue, QueueInv
    <3>2. ASSUME NEW t \in FireTimes \ met
          PROVE  clock + 1 < t + TimeoutMinutes /\ wakeAt < t + TimeoutMinutes
      <4>1. wakeAt < t + TimeoutMinutes /\ t \in Nat
        BY <1>1, <1>3, <3>1 DEF MetInv
      <4> QED
        BY <1>1, <1>3, <3>1, <4>1
    <3> QED
      BY <2>1, <3>1, <3>2 DEF MetInv
  <2>3. CASE windowDelay # 0 /\ clock < evaluated + ReconcileTime
    <3>1. pc # "idle"
      BY <1>1, <2>3 DEF QueueInv
    <3>2. ASSUME NEW t \in FireTimes \ met
          PROVE  clock + 1 < t + TimeoutMinutes
      <4>1. evaluated < t /\ t \in Nat
        BY <1>1, <1>3, <2>3, <3>1 DEF MetInv, BeganAt
      <4> QED
        BY <1>1, <1>3, <2>3, <4>1
    <3> QED
      BY <1>1, <2>1, <2>3, <3>1, <3>2 DEF MetInv, BeganAt
  <2> QED
    BY <2>1, <2>2, <2>3
<1>11. CASE World \/ UNCHANGED allVars
  <2>1. UNCHANGED <<pc, clock, queued, wakeAt, windowDelay, evaluated, met>>
    BY <1>11 DEF World, VPAChanges, ClusterStopsRunning, ClusterRuns, RolloutProgresses,
                 EnvironmentUnchanged, reconcile, queue, operator, allVars, vars, world
  <2> QED
    BY <1>1, <2>1 DEF MetInv, BeganAt
<1> QED
  BY <1>4, <1>5, <1>6, <1>7, <1>8, <1>9, <1>10, <1>11
     DEF MetInvs, OperatorNext, OperatorStep, CallAPI

\* A reconcile begins in every window, for every schedule whose windows are
\* longer than a reconcile with its delays and open further apart than one and
\* the jitter, whatever fails, overlapping windows included.
THEOREM EveryWindowIsMet ==
    ASSUME RoomyWindows
    PROVE  OperatorSpec => []WindowsAreMet
<1>1. MetInvs => WindowsAreMet
  <2> SUFFICES ASSUME MetInvs, NEW t \in FireTimes, t + TimeoutMinutes <= clock
               PROVE  t \in met
    BY DEF WindowsAreMet
  <2>1. t \in Nat /\ TimeoutMinutes \in Nat /\ clock \in Nat
    BY FireTimesAssumption, TimeoutAssumption DEF MetInvs, QueueInvs, OperatorTypeOK, TypeOK
  <2>2. t \notin met => clock < t + TimeoutMinutes
    BY DEF MetInvs, MetInv
  <2> QED
    BY <2>1, <2>2
<1> QED
  BY <1>1, MetInvsInit, MetInvsNext, PTL DEF OperatorSpec

-----------------------------------------------------------------------------
\* Changes are made in windows

InWindowInvs == QueueInvs /\ InWindowInv

LEMMA InWindowInvsNext == InWindowInvs /\ [OperatorNext]_allVars => InWindowInvs'
<1> SUFFICES ASSUME InWindowInvs, [OperatorNext]_allVars PROVE InWindowInvs'
  OBVIOUS
<1>1. QueueInvs /\ InWindowInv /\ clock \in Nat
  BY DEF InWindowInvs, QueueInvs, OperatorTypeOK, TypeOK
<1>2. QueueInvs'
  BY <1>1, QueueInvsNext
<1> SUFFICES InWindowInv'
  BY <1>2 DEF InWindowInvs
<1> USE DEF InWindowInv, StartCalls
<1>3. CASE TakePolicy
  BY <1>3 DEF TakePolicy, Begin, GoTo
<1>4. CASE Returns /\ UNCHANGED evaluated
  <2>1. pc' \in StartCalls \cup {"monitor", "trigger"}
        => pc \in StartCalls \cup {"monitor", "trigger"}
    BY <1>4 DEF Returns, GetCurrentMemory, Bootstrap, ReadNoRecommendation,
                WindowEvaluationFails, CheckHealthGate, ChangeGateBlocks, StartMaintenance,
                MonitorCluster, TriggerPostAction, MonitorRollout, HandleWindowExpired,
                CheckExpiredRollout, GoTo, Return
  <2> QED
    BY <1>1, <1>4, <2>1
<1>5. CASE ReturnsAfterWindow
  <2>1. evaluated' = clock
    BY <1>5, ReturnedAfterWindow
  <2>2. pc' \in StartCalls \cup {"monitor", "trigger"} => Evaluate(clock).inWindow
    BY <1>5 DEF ReturnsAfterWindow, EvaluatesWindow, ResumeRun, ConsiderRun, GoTo
  <2> QED
    BY <1>1, <2>1, <2>2, EvaluateInWindow
<1>6. CASE FinishPolicy
  BY <1>6 DEF FinishPolicy, Persist, EndReconcile
<1>7. CASE OperatorRestarts
  BY <1>7 DEF OperatorRestarts, Crash, EndReconcile, reconcile
<1>8. CASE DelayEnds \/ TimePasses \/ World \/ UNCHANGED allVars
  <2>1. UNCHANGED <<pc, evaluated>>
    BY <1>8 DEF DelayEnds, TimePasses, Tick, World, VPAChanges, ClusterStopsRunning,
                ClusterRuns, RolloutProgresses, EnvironmentUnchanged, allVars, vars,
                reconcile, operator
  <2> QED
    BY <1>1, <2>1
<1> QED
  BY <1>3, <1>4, <1>5, <1>6, <1>7, <1>8 DEF OperatorNext, OperatorStep, CallAPI

\* Clusters are patched and workloads restarted in a window, or after its end by
\* a reconcile that saw it open no longer than ReconcileTime ago.
THEOREM ChangesStayInWindows == OperatorSpec => ChangesInsideWindow
<1> DEFINE changes == MaintenancePatch \/ (restarted' # restarted /\ restarted' # {})
           inside  == \E t \in clock - ReconcileTime .. clock : InWindow(t)
<1>1. OperatorInit => InWindowInvs
  <2>1. OperatorInit => InWindowInv
    BY DEF OperatorInit, Init, InWindowInv, StartCalls
  <2> QED
    BY <2>1, QueueInvsInit DEF InWindowInvs
<1>2. ASSUME InWindowInvs, [OperatorNext]_allVars, changes
      PROVE  inside
  <2>1. pc \in StartCalls \cup {"monitor", "trigger"}
    <3>1. CASE MaintenancePatch
      BY <3>1 DEF MaintenancePatch, StartCalls
    <3>2. CASE restarted' # restarted /\ restarted' # {}
      <4>1. [Next]_vars
        BY <1>2, <3>2, StepsOfReconciler DEF history
      <4>2. StartMaintenance \/ TriggerPostAction
        BY <3>2, <4>1, WhoRestarts
      <4> QED
        BY <4>2 DEF StartMaintenance, TriggerPostAction, StartCalls
    <3> QED
      BY <1>2, <3>1, <3>2
  <2>2. InWindow(evaluated)
    BY <1>2, <2>1 DEF InWindowInvs, InWindowInv
  <2>3. evaluated <= clock /\ clock <= evaluated + ReconcileTime
    BY <1>2, <2>1 DEF InWindowInvs, QueueInvs, QueueInv, WindowCalls, RunCalls
  <2>4. evaluated \in Nat /\ clock \in Nat /\ ReconcileTime \in Nat
    BY <1>2, ReconcileTimeAssumption DEF InWindowInvs, QueueInvs, OperatorTypeOK, TypeOK
  <2>5. evaluated \in clock - ReconcileTime .. clock
    BY <2>3, <2>4
  <2> QED
    BY <2>2, <2>5
<1>3. InWindowInvs /\ [OperatorNext]_allVars => [changes => inside]_allVars
  BY <1>2
<1> QED
  BY <1>1, <1>3, InWindowInvsNext, PTL DEF OperatorSpec, ChangesInsideWindow
=============================================================================
