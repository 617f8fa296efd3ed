--------------------------- MODULE RolloutsProofs ---------------------------
(***************************************************************************)
(* What replica counts tell of a rollout, for every number of workloads and *)
(* pods, and whatever the executor restarts in whatever order.              *)
(***************************************************************************)
EXTENDS PostActionExecutor, SequenceTheorems, TLAPS

PodsOf(p) == p.old + p.starting + p.ready

\* Without a surge there are never more pods than desired, so that a full set
\* of new pods leaves no room for an old one.
NoSurplus ==
    /\ pods \in [Targets -> PodCounts]
    /\ \A t \in Targets : Surge[t] = 0 => PodsOf(pods[t]) <= Desired[t]

LEMMA ReplaceKeepsNoSurplus ==
    ASSUME NoSurplus, NEW t, NEW p, Replace(t, p),
           t \in Targets => /\ p \in PodCounts
                            /\ Surge[t] = 0 => PodsOf(p) <= Desired[t]
    PROVE  NoSurplus'
<1>1. pods' = [pods EXCEPT ![t] = p]
  BY DEF Replace
<1>2. pods' \in [Targets -> PodCounts]
  BY <1>1 DEF NoSurplus
<1>3. ASSUME NEW u \in Targets, Surge[u] = 0
      PROVE  PodsOf(pods'[u]) <= Desired[u]
  <2>1. CASE u = t
    <3>1. pods'[u] = p
      BY <1>1, <2>1 DEF NoSurplus
    <3> QED
      BY <1>3, <2>1, <3>1
  <2>2. CASE u # t
    <3>1. pods'[u] = pods[u]
      BY <1>1, <2>2 DEF NoSurplus
    <3> QED
      BY <1>3, <3>1 DEF NoSurplus
  <2> QED
    BY <2>1, <2>2
<1> QED
  BY <1>2, <1>3 DEF NoSurplus

LEMMA RestartKeepsNoSurplus ==
    ASSUME NoSurplus, NEW t, RestartWorkload(t)
    PROVE  NoSurplus'
<1> DEFINE p == [old |-> pods[t].old + pods[t].ready, starting |-> 0, ready |-> 0]
<1>1. Replace(t, p)
  BY DEF RestartWorkload
<1>2. ASSUME t \in Targets
      PROVE  p \in PodCounts /\ (Surge[t] = 0 => PodsOf(p) <= Desired[t])
  <2>1. pods[t] \in PodCounts /\ (Surge[t] = 0 => PodsOf(pods[t]) <= Desired[t])
    BY <1>2 DEF NoSurplus
  <2> QED
    BY <1>2, <2>1, DesiredAssumption DEF PodCounts, PodsOf
<1> QED
  BY <1>1, <1>2, ReplaceKeepsNoSurplus

LEMMA ControllersKeepNoSurplus ==
    ASSUME NoSurplus, NEW t \in Targets, WorkloadStep(t)
    PROVE  NoSurplus'
<1>1. /\ pods[t] \in PodCounts
      /\ Surge[t] = 0 => PodsOf(pods[t]) <= Desired[t]
      /\ Desired[t] \in Nat /\ Surge[t] \in Nat
  BY DesiredAssumption, SurgeAssumption DEF NoSurplus
<1>2. CASE StartPod(t)
  <2> DEFINE p == [pods[t] EXCEPT !.starting = @ + 1]
  <2>1. p \in PodCounts /\ (Surge[t] = 0 => PodsOf(p) <= Desired[t])
    BY <1>1, <1>2 DEF StartPod, PodCounts, PodsOf
  <2>2. Replace(t, p)
    BY <1>2 DEF StartPod
  <2> QED
    BY <2>1, <2>2, ReplaceKeepsNoSurplus
<1>3. CASE PodBecomesReady(t)
  <2> DEFINE p == [pods[t] EXCEPT !.starting = @ - 1, !.ready = @ + 1]
  <2>1. p \in PodCounts /\ (Surge[t] = 0 => PodsOf(p) <= Desired[t])
    <3>1. pods[t].starting > 0
      BY <1>3 DEF PodBecomesReady
    <3>2. p = [old      |-> pods[t].old,
               starting |-> pods[t].starting - 1,
               ready    |-> pods[t].ready + 1]
      <4> DEFINE q == [pods[t] EXCEPT !.starting = @ - 1]
      <4>1. q = [old      |-> pods[t].old,
                 starting |-> pods[t].starting - 1,
                 ready    |-> pods[t].ready]
        BY <1>1 DEF PodCounts
      <4>2. p = [q EXCEPT !.ready = pods[t].ready + 1]
        OBVIOUS
      <4> HIDE DEF p, q
      <4> QED
        BY <4>1, <4>2
    <3> HIDE DEF p
    <3>3. p \in PodCounts /\ PodsOf(p) = PodsOf(pods[t])
      BY <1>1, <3>1, <3>2 DEF PodCounts, PodsOf
    <3> QED
      BY <1>1, <3>3
  <2>2. Replace(t, p)
    BY <1>3 DEF PodBecomesReady
  <2> QED
    BY <2>1, <2>2, ReplaceKeepsNoSurplus
<1>4. CASE StopOldPod(t)
  <2> DEFINE p == [pods[t] EXCEPT !.old = @ - 1]
  <2>1. p \in PodCounts /\ (Surge[t] = 0 => PodsOf(p) <= Desired[t])
    BY <1>1, <1>4 DEF StopOldPod, PodCounts, PodsOf
  <2>2. Replace(t, p)
    BY <1>4 DEF StopOldPod
  <2> QED
    BY <2>1, <2>2, ReplaceKeepsNoSurplus
<1>5. CASE StatusIsUpdated(t)
  BY <1>5 DEF StatusIsUpdated, NoSurplus
<1> QED
  BY <1>2, <1>3, <1>4, <1>5 DEF WorkloadStep

LEMMA InitNoSurplus == Init => NoSurplus
<1> SUFFICES ASSUME Init PROVE NoSurplus
  OBVIOUS
<1>1. pods = [t \in Targets |-> [old |-> 0, starting |-> 0, ready |-> Desired[t]]]
  BY DEF Init, WorkloadsInit
<1> QED
  BY <1>1, DesiredAssumption DEF NoSurplus, PodCounts, PodsOf

LEMMA StepKeepsNoSurplus == NoSurplus /\ [Next]_vars => NoSurplus'
<1> SUFFICES ASSUME NoSurplus, [Next]_vars PROVE NoSurplus'
  OBVIOUS
<1>1. CASE UNCHANGED workloads
  BY <1>1 DEF workloads, NoSurplus
<1>2. CASE PatchTarget
  <2>1. CASE RestartWorkload(Target)
    BY <2>1, RestartKeepsNoSurplus
  <2> QED
    BY <1>1, <1>2, <2>1 DEF PatchTarget
<1>3. CASE WorkloadControllers
  BY <1>3, ControllersKeepNoSurplus DEF WorkloadControllers
<1> QED
  BY <1>1, <1>2, <1>3
     DEF Next, ExecuteStep, Execute, GetTarget, PollTarget, WaitToPoll, Tick, vars

LEMMA NoSurplusSuffices == NoSurplus => CompleteMeansRolledOut
<1> SUFFICES ASSUME NoSurplus, NEW t \in Targets, Fresh(t)
             PROVE  /\ RolledOut(t) => IsRolloutComplete(t)
                    /\ IsRolloutComplete(t) /\ Surge[t] = 0 => RolledOut(t)
  BY DEF CompleteMeansRolledOut
<1>1. /\ pods[t] \in PodCounts
      /\ Surge[t] = 0 => PodsOf(pods[t]) <= Desired[t]
      /\ Desired[t] \in Nat
  BY DesiredAssumption DEF NoSurplus
<1>2. /\ counts[t].updated = pods[t].starting + pods[t].ready
      /\ counts[t].ready = pods[t].old + pods[t].ready
  BY DEF Fresh, CountsOf
<1>3. ASSUME RolledOut(t) PROVE IsRolloutComplete(t)
  BY <1>1, <1>2, <1>3 DEF RolledOut, IsRolloutComplete
<1>4. ASSUME IsRolloutComplete(t), Surge[t] = 0 PROVE RolledOut(t)
  <2>1. pods[t].old = 0 /\ pods[t].starting = 0 /\ pods[t].ready = Desired[t]
    BY <1>1, <1>2, <1>4 DEF IsRolloutComplete, PodCounts, PodsOf
  <2> QED
    BY <1>1, <2>1 DEF RolledOut, PodCounts
<1> QED
  BY <1>3, <1>4

\* A status that is up to date never hides the end of a rollout and, where no
\* pod is added before an old one is gone, never invents one: isRolloutComplete
\* errs only on late statuses and on surges.
THEOREM CompletionIsTold == Spec => []CompleteMeansRolledOut
<1>1. Init => NoSurplus
  BY InitNoSurplus
<1>2. NoSurplus /\ [Next]_vars => NoSurplus'
  BY StepKeepsNoSurplus
<1>3. NoSurplus => CompleteMeansRolledOut
  BY NoSurplusSuffices
<1> QED
  BY <1>1, <1>2, <1>3, PTL DEF Spec
-----------------------------------------------------------------------------
\* Types of the executor

\* The loop over the post-actions stays within them.
ExecutorInv ==
    /\ TypeOK
    /\ pc # "idle" => next \in DOMAIN PostActions

\* A change of the pods of one workload leaves well-typed pods and counts, and
\* all other workloads alone.
LEMMA ReplaceEffect ==
    ASSUME WorkloadsTypeOK, NEW t \in Targets, NEW p \in PodCounts, Replace(t, p)
    PROVE  /\ WorkloadsTypeOK'
           /\ pods'[t] = p
           /\ t \notin Lagging => counts'[t] = CountsOf(p)
           /\ \A u \in Targets \ {t} : pods'[u] = pods[u] /\ counts'[u] = counts[u]
<1>1. CountsOf(p) \in StatusCounts
  BY DEF CountsOf, PodCounts, StatusCounts
<1> QED
  BY <1>1 DEF Replace, WorkloadsTypeOK

LEMMA RestartEffect ==
    ASSUME WorkloadsTypeOK, NEW t \in Targets, RestartWorkload(t)
    PROVE  \E p \in PodCounts : Replace(t, p)
<1>1. [old |-> pods[t].old + pods[t].ready, starting |-> 0, ready |-> 0] \in PodCounts
  BY DEF WorkloadsTypeOK, PodCounts
<1> QED
  BY <1>1 DEF RestartWorkload

LEMMA ControllerEffect ==
    ASSUME WorkloadsTypeOK, NEW t \in Targets, WorkloadStep(t)
    PROVE  \/ \E p \in PodCounts : Replace(t, p) /\ ~RolledOut(t)
           \/ StatusIsUpdated(t)
<1>1. pods[t] \in PodCounts /\ Desired[t] \in Nat
  BY DesiredAssumption DEF WorkloadsTypeOK
<1>2. CASE StartPod(t)
  <2>1. [pods[t] EXCEPT !.starting = @ + 1] \in PodCounts
    BY <1>1 DEF PodCounts
  <2>2. ~RolledOut(t)
    BY <1>1, <1>2 DEF StartPod, RolledOut
  <2> QED
    BY <1>2, <2>1, <2>2 DEF StartPod
<1>3. CASE PodBecomesReady(t)
  <2> DEFINE p == [pods[t] EXCEPT !.starting = @ - 1, !.ready = @ + 1]
  <2>1. Replace(t, p) /\ pods[t].starting > 0
    BY <1>3 DEF PodBecomesReady
  <2>2. p \in PodCounts
    <3>1. [pods[t] EXCEPT !.starting = @ - 1] \in PodCounts
      BY <1>1, <2>1 DEF PodCounts
    <3>2. pods[t].ready + 1 \in Nat
      BY <1>1 DEF PodCounts
    <3>3. ASSUME NEW q \in PodCounts, NEW n \in Nat
          PROVE  [q EXCEPT !.ready = n] \in PodCounts
      BY <3>3 DEF PodCounts
    <3>4. p = [[pods[t] EXCEPT !.starting = @ - 1] EXCEPT !.ready = pods[t].ready + 1]
      BY <1>1 DEF PodCounts
    <3> HIDE DEF p
    <3> QED
      BY <3>1, <3>2, <3>3, <3>4
  <2>3. ~RolledOut(t)
    BY <2>1 DEF RolledOut
  <2> HIDE DEF p
  <2> QED
    BY <2>1, <2>2, <2>3
<1>4. CASE StopOldPod(t)
  <2>1. pods[t].old > 0
    BY <1>4 DEF StopOldPod
  <2>2. [pods[t] EXCEPT !.old = @ - 1] \in PodCounts
    BY <1>1, <2>1 DEF PodCounts
  <2>3. ~RolledOut(t)
    BY <2>1 DEF RolledOut
  <2> QED
    BY <1>4, <2>2, <2>3 DEF StopOldPod
<1> QED
  BY <1>2, <1>3, <1>4 DEF WorkloadStep

LEMMA ControllersKeepTypes ==
    ASSUME WorkloadsTypeOK, NEW t \in Targets, WorkloadStep(t)
    PROVE  WorkloadsTypeOK'
<1>1. CASE StatusIsUpdated(t)
  <2>1. CountsOf(pods[t]) \in StatusCounts
    BY DEF WorkloadsTypeOK, CountsOf, PodCounts, StatusCounts
  <2> QED
    BY <1>1, <2>1 DEF StatusIsUpdated, WorkloadsTypeOK
<1> QED
  BY <1>1, ControllerEffect, ReplaceEffect

LEMMA ExecutorInvInit == Init => ExecutorInv
<1> SUFFICES ASSUME Init PROVE ExecutorInv
  OBVIOUS
<1>1. /\ pods = [t \in Targets |-> [old |-> 0, starting |-> 0, ready |-> Desired[t]]]
      /\ counts = [t \in Targets |-> CountsOf(pods[t])]
  BY DEF Init, WorkloadsInit
<1>2. pods \in [Targets -> PodCounts]
  BY <1>1, DesiredAssumption DEF PodCounts
<1>3. \A t \in Targets : CountsOf(pods[t]) \in StatusCounts
  BY <1>2 DEF CountsOf, PodCounts, StatusCounts
<1>4. WorkloadsTypeOK
  BY <1>1, <1>2, <1>3 DEF WorkloadsTypeOK
<1> QED
  BY <1>4, TimeoutAssumption, MaxFaultsAssumption DEF Init, ExecutorInv, TypeOK

LEMMA ExecutorInvNext == ExecutorInv /\ [Next]_vars => ExecutorInv'
<1> SUFFICES ASSUME ExecutorInv, [Next]_vars PROVE ExecutorInv'
  OBVIOUS
<1>1. /\ DOMAIN PostActions = 1 .. Len(PostActions) /\ Len(PostActions) \in Nat
      /\ \A i \in DOMAIN PostActions : PostActions[i] \in Targets
      /\ PostActions # << >> => Len(PostActions) # 0
  BY PostActionsAssumption, ElementOfSeq, LenProperties, EmptySeq
<1>2. /\ TypeOK /\ WorkloadsTypeOK
      /\ pc # "idle" => next \in DOMAIN PostActions /\ Target \in Targets
      /\ next \in DOMAIN PostActions \cup {1}
      /\ elapsed \in 0 .. RolloutRestartTimeout /\ RolloutRestartTimeout \in Nat \ {0}
      /\ faults \in 0 .. MaxFaults /\ MaxFaults \in Nat
      /\ restarted \subseteq Targets
      /\ pc \in {"idle", "get", "patch", "poll", "wait"}
      /\ result \in {"none", "nil", "error"}
  BY <1>1, TimeoutAssumption, MaxFaultsAssumption DEF ExecutorInv, TypeOK, Target
<1>3. ASSUME UNCHANGED workloads PROVE WorkloadsTypeOK'
  BY <1>2, <1>3 DEF WorkloadsTypeOK, workloads
<1>4. NoFault \/ Fault => faults' \in 0 .. MaxFaults
  BY <1>2 DEF NoFault, Fault
<1>5. CASE Execute
  <2>1. PostActions # << >> => 1 \in DOMAIN PostActions
    BY <1>1
  <2>2. pc = "idle" /\ restarted' = {} /\ UNCHANGED <<workloads, faults>>
    BY <1>5 DEF Execute
  <2>3. CASE PostActions = << >>
    BY <1>2, <1>3, <1>5, <2>2, <2>3 DEF Execute, Return, ExecutorInv, TypeOK
  <2>4. CASE PostActions # << >> /\ next \in DOMAIN PostActions
    BY <1>2, <1>3, <1>5, <2>2, <2>4 DEF Execute, GoTo, ExecutorInv, TypeOK
  <2> QED
    BY <1>2, <2>1, <2>3, <2>4
<1>6. CASE GetTarget
  <2>1. /\ UNCHANGED <<workloads, restarted>> /\ pc = "get"
        /\ NoFault \/ Fault
        /\ Return("error") \/ GoTo("patch")
    BY <1>6 DEF GetTarget
  <2> QED
    BY <1>2, <1>3, <1>4, <2>1 DEF Return, GoTo, ExecutorInv, TypeOK
<1>7. CASE PatchTarget
  <2>1. WorkloadsTypeOK'
    BY <1>2, <1>3, <1>7, RestartEffect, ReplaceEffect DEF PatchTarget
  <2>2. /\ pc = "patch"
        /\ NoFault \/ Fault
        /\ restarted' \subseteq restarted \cup {Target}
        /\ \/ Return("error")
           \/ pc' = "poll" /\ elapsed' = 0 /\ UNCHANGED <<next, result>>
    BY <1>7 DEF PatchTarget
  <2> QED
    BY <1>2, <1>4, <2>1, <2>2 DEF Return, ExecutorInv, TypeOK
<1>8. CASE PollTarget
  <2>1. /\ UNCHANGED <<workloads, restarted>> /\ pc = "poll"
        /\ NoFault \/ Fault
    BY <1>8 DEF PollTarget, Done
  <2>2. \/ \E value \in {"nil", "error"} : Return(value)
        \/ GoTo("wait")
        \/ /\ pc' = "get" /\ next' = next + 1 /\ next # Len(PostActions)
           /\ UNCHANGED <<elapsed, result>>
    BY <1>8, Zenon DEF PollTarget
  <2>3. next # Len(PostActions) => next + 1 \in DOMAIN PostActions
    BY <1>1, <1>2, <2>1
  <2>4. CASE (\E value \in {"nil", "error"} : Return(value)) \/ GoTo("wait")
    BY <1>2, <1>3, <1>4, <2>1, <2>4 DEF Return, GoTo, ExecutorInv, TypeOK
  <2>5. CASE /\ pc' = "get" /\ next' = next + 1 /\ next # Len(PostActions)
             /\ UNCHANGED <<elapsed, result>>
    BY <1>2, <1>3, <1>4, <2>1, <2>3, <2>5 DEF ExecutorInv, TypeOK
  <2> QED
    BY <2>2, <2>4, <2>5
<1>9. CASE WaitToPoll
  <2>1. /\ UNCHANGED <<workloads, restarted>> /\ pc = "wait"
        /\ NoFault \/ Fault
        /\ Return("error") \/ GoTo("poll")
    BY <1>9 DEF WaitToPoll, Done
  <2> QED
    BY <1>2, <1>3, <1>4, <2>1 DEF Return, GoTo, ExecutorInv, TypeOK
<1>10. CASE Tick
  <2>1. elapsed' \in 0 .. RolloutRestartTimeout
    BY <1>2, <1>10 DEF Tick
  <2> QED
    BY <1>2, <1>3, <1>10, <2>1 DEF Tick, ExecutorInv, TypeOK
<1>11. CASE WorkloadControllers
  <2>1. WorkloadsTypeOK'
    BY <1>2, <1>11, ControllersKeepTypes DEF WorkloadControllers
  <2> QED
    BY <1>2, <1>11, <2>1 DEF WorkloadControllers, thread, ExecutorInv, TypeOK
<1>12. CASE UNCHANGED vars
  BY <1>2, <1>3, <1>12 DEF vars, thread, ExecutorInv, TypeOK
<1> QED
  BY <1>5, <1>6, <1>7, <1>8, <1>9, <1>10, <1>11, <1>12 DEF Next, ExecuteStep

\* Every variable of the executor and of the workloads has its type, for any
\* number of post-actions (none and repeated targets included), pods and
\* failures.
THEOREM ExecutorTypeCorrect == Spec => []TypeOK
<1>1. ExecutorInv => TypeOK
  BY DEF ExecutorInv
<1> QED
  BY <1>1, ExecutorInvInit, ExecutorInvNext, PTL DEF Spec
-----------------------------------------------------------------------------
\* One workload after the other

Settled(t) == t \notin Lagging /\ Surge[t] = 0 => RolledOut(t)

\* Where no status is late the counts are those of the pods; what has been
\* restarted has rolled out before the next target is, but for the one in hand.
OneByOne ==
    /\ \A t \in Targets \ Lagging : Fresh(t)
    /\ pc \in {"get", "patch"} => \A t \in restarted : Settled(t)
    /\ pc \in {"poll", "wait"} => \A t \in restarted \ {Target} : Settled(t)

\* A rollout that is over stays over until the next restart, and a status that
\* is not late stays up to date.
LEMMA ControllersKeepSettled ==
    ASSUME WorkloadsTypeOK, NEW t \in Targets, WorkloadStep(t),
           \A u \in Targets \ Lagging : Fresh(u)
    PROVE  /\ \A u \in Targets \ Lagging : Fresh(u)'
           /\ \A u \in Targets : Settled(u) => Settled(u)'
<1>1. CASE StatusIsUpdated(t)
  <2>1. /\ pods' = pods
        /\ counts' = [counts EXCEPT ![t] = CountsOf(pods[t])]
    BY <1>1 DEF StatusIsUpdated
  <2>2. \A u \in Targets : counts'[u] = counts[u] \/ counts'[u] = CountsOf(pods[u])
    BY <2>1 DEF WorkloadsTypeOK
  <2> QED
    BY <2>1, <2>2 DEF Fresh, Settled, RolledOut
<1>2. ASSUME NEW p \in PodCounts, Replace(t, p), ~RolledOut(t)
      PROVE  /\ \A u \in Targets \ Lagging : Fresh(u)'
             /\ \A u \in Targets : Settled(u) => Settled(u)'
  <2>1. /\ pods'[t] = p
        /\ t \notin Lagging => counts'[t] = CountsOf(p)
        /\ \A u \in Targets \ {t} : pods'[u] = pods[u] /\ counts'[u] = counts[u]
    BY <1>2, ReplaceEffect
  <2>2. \A u \in Targets \ Lagging : Fresh(u)'
    BY <2>1 DEF Fresh
  <2>3. \A u \in Targets : Settled(u) => Settled(u)'
    BY <1>2, <2>1 DEF Settled, RolledOut
  <2> QED
    BY <2>2, <2>3
<1> QED
  BY <1>1, <1>2, ControllerEffect

LEMMA RestartKeepsSettled ==
    ASSUME WorkloadsTypeOK, NEW t \in Targets, RestartWorkload(t),
           \A u \in Targets \ Lagging : Fresh(u)
    PROVE  /\ \A u \in Targets \ Lagging : Fresh(u)'
           /\ \A u \in Targets \ {t} : Settled(u) => Settled(u)'
<1>1. PICK p \in PodCounts : Replace(t, p)
  BY RestartEffect
<1>2. /\ pods'[t] = p
      /\ t \notin Lagging => counts'[t] = CountsOf(p)
      /\ \A u \in Targets \ {t} : pods'[u] = pods[u] /\ counts'[u] = counts[u]
  BY <1>1, ReplaceEffect
<1> QED
  BY <1>2 DEF Fresh, Settled, RolledOut

\* Nothing settles or unsettles while the workloads stay as they are.
LEMMA SameSettled ==
    ASSUME UNCHANGED workloads, \A u \in Targets \ Lagging : Fresh(u)
    PROVE  /\ \A u \in Targets \ Lagging : Fresh(u)'
           /\ \A u \in Targets : Settled(u)' <=> Settled(u)
BY DEF workloads, Fresh, Settled, RolledOut

LEMMA OneByOneInit == Init => OneByOne
<1> SUFFICES ASSUME Init PROVE OneByOne
  OBVIOUS
<1>1. \A t \in Targets : Fresh(t)
  BY DEF Init, WorkloadsInit, Fresh
<1> QED
  BY <1>1 DEF Init, OneByOne

LEMMA OneByOneNext ==
    ASSUME ExecutorInv, NoSurplus, OneByOne, [Next]_vars
    PROVE  OneByOne'
<1>1. /\ WorkloadsTypeOK /\ restarted \subseteq Targets
      /\ pc # "idle" => Target \in Targets
      /\ \A u \in Targets \ Lagging : Fresh(u)
  <2>1. \A i \in DOMAIN PostActions : PostActions[i] \in Targets
    BY PostActionsAssumption, ElementOfSeq, LenProperties
  <2> QED
    BY <2>1 DEF ExecutorInv, TypeOK, OneByOne, Target
<1>2. UNCHANGED workloads =>
        /\ \A u \in Targets \ Lagging : Fresh(u)'
        /\ \A u \in Targets : Settled(u)' <=> Settled(u)
  BY <1>1, SameSettled
<1>3. CASE Execute
  BY <1>2, <1>3 DEF Execute, OneByOne
<1>4. CASE GetTarget
  BY <1>1, <1>2, <1>4 DEF GetTarget, Return, GoTo, OneByOne
<1>5. CASE PatchTarget
  <2>1. pc = "patch" /\ pc' \in {"idle", "poll"} /\ (pc' = "poll" => next' = next)
    BY <1>5 DEF PatchTarget, Return
  <2>2. \A t \in restarted : Settled(t)
    BY <2>1 DEF OneByOne
  <2>3. CASE UNCHANGED workloads /\ pc' = "idle"
    BY <1>2, <2>3 DEF OneByOne
  <2>4. CASE RestartWorkload(Target) /\ restarted' = restarted \cup {Target}
    <3>1. /\ \A u \in Targets \ Lagging : Fresh(u)'
          /\ \A u \in Targets \ {Target} : Settled(u) => Settled(u)'
      BY <1>1, <2>1, <2>4, RestartKeepsSettled
    <3>2. pc' = "poll" => Target' = Target
      BY <2>1 DEF Target
    <3> QED
      BY <1>1, <2>1, <2>2, <2>4, <3>1, <3>2 DEF OneByOne
  <2> QED
    BY <1>5, <2>3, <2>4 DEF PatchTarget, Return
<1>6. CASE PollTarget
  <2>1. UNCHANGED <<workloads, restarted>> /\ pc = "poll"
    BY <1>6 DEF PollTarget
  <2>2. \/ pc' = "idle"
        \/ pc' = "wait" /\ next' = next
        \/ pc' = "get" /\ IsRolloutComplete(Target)
    BY <1>6, Zenon DEF PollTarget, Return, GoTo
  <2>3. CASE pc' = "idle"
    BY <1>2, <2>1, <2>3 DEF OneByOne
  <2>4. CASE pc' = "wait" /\ next' = next
    BY <1>1, <1>2, <2>1, <2>4 DEF OneByOne, Target
  <2>5. CASE pc' = "get" /\ IsRolloutComplete(Target)
    <3>1. Settled(Target)
      BY <1>1, <2>1, <2>5, NoSurplusSuffices DEF CompleteMeansRolledOut, Settled
    <3>2. \A t \in restarted : Settled(t)
      BY <2>1, <3>1 DEF OneByOne
    <3> QED
      BY <1>1, <1>2, <2>1, <2>5, <3>2 DEF OneByOne
  <2> QED
    BY <2>2, <2>3, <2>4, <2>5
<1>7. CASE WaitToPoll
  <2>1. /\ UNCHANGED <<workloads, restarted>> /\ pc = "wait"
        /\ pc' = "idle" \/ (pc' = "poll" /\ next' = next)
    BY <1>7 DEF WaitToPoll, Return, GoTo
  <2> QED
    BY <1>1, <1>2, <2>1 DEF OneByOne, Target
<1>8. CASE Tick \/ UNCHANGED vars
  <2>1. UNCHANGED <<workloads, pc, next, restarted>>
    BY <1>8 DEF Tick, vars, thread
  <2> QED
    BY <1>1, <1>2, <2>1 DEF OneByOne, Target
<1>9. CASE WorkloadControllers
  <2>1. UNCHANGED <<pc, next, restarted>>
    BY <1>9 DEF WorkloadControllers, thread
  <2>2. /\ \A u \in Targets \ Lagging : Fresh(u)'
        /\ \A u \in Targets : Settled(u) => Settled(u)'
    BY <1>1, <1>9, ControllersKeepSettled DEF WorkloadControllers
  <2> QED
    BY <1>1, <2>1, <2>2 DEF OneByOne, Target
<1> QED
  BY <1>3, <1>4, <1>5, <1>6, <1>7, <1>8, <1>9 DEF Next, ExecuteStep

\* The executor restarts a workload only when those before it have finished
\* their rollout, as far as their status can tell, whatever fails and however
\* often a target is listed.
THEOREM OneRolloutAfterTheOther == Spec => OneRolloutAtATime
<1> DEFINE onlyThen == restarted' # restarted /\ restarted' # {} =>
             \A t \in restarted : t \notin Lagging /\ Surge[t] = 0 => RolledOut(t)
<1>1. ASSUME OneByOne, [Next]_vars, restarted' # restarted, restarted' # {}
      PROVE  \A t \in restarted : t \notin Lagging /\ Surge[t] = 0 => RolledOut(t)
  <2>1. PatchTarget
    BY <1>1 DEF Next, ExecuteStep, Execute, GetTarget, PollTarget, WaitToPoll, Tick,
                WorkloadControllers, vars
  <2> QED
    BY <1>1, <2>1 DEF PatchTarget, OneByOne, Settled
<1>2. OneByOne /\ [Next]_vars => [onlyThen]_vars
  BY <1>1
<1>3. [][onlyThen]_vars <=> OneRolloutAtATime
  BY DEF OneRolloutAtATime
<1>4. Init => ExecutorInv /\ NoSurplus /\ OneByOne
  BY ExecutorInvInit, InitNoSurplus, OneByOneInit
<1>5. ExecutorInv /\ NoSurplus /\ OneByOne /\ [Next]_vars
      => (ExecutorInv /\ NoSurplus /\ OneByOne)'
  BY ExecutorInvNext, StepKeepsNoSurplus, OneByOneNext
<1> HIDE DEF onlyThen
<1> QED
  BY <1>2, <1>3, <1>4, <1>5, PTL DEF Spec
=============================================================================
