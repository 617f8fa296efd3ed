------------------------------ MODULE Rollouts ------------------------------
(***************************************************************************)
(* The workloads that post-actions restart, and how isRolloutComplete of    *)
(* postactions.go judges their rollout from the replica counts of their     *)
(* status.  The workload controllers are external: they replace the pods    *)
(* of a patched template one by one within their strategy, and write the    *)
(* status after that.                                                       *)
(*                                                                         *)
(* Simplifications: a pod that has become ready is available and stays      *)
(* ready; replicas do not change; only Deployments surge.                   *)
(***************************************************************************)
EXTENDS Integers

CONSTANTS
    Targets,   \* the workloads
    Kind,      \* "Deployment", "StatefulSet" or "DaemonSet"
    Desired,   \* spec.replicas, or the nodes a DaemonSet is scheduled on
    Surge,     \* pods above that number during a rollout
    Lagging    \* the workloads whose status, as it is read, may be old

ASSUME KindAssumption == Kind \in [Targets -> {"Deployment", "StatefulSet", "DaemonSet"}]
ASSUME DesiredAssumption == Desired \in [Targets -> Nat]
ASSUME SurgeAssumption ==
    /\ Surge \in [Targets -> Nat]
    /\ \A t \in Targets : Surge[t] > 0 => Kind[t] = "Deployment"
ASSUME LaggingAssumption == Lagging \subseteq Targets

VARIABLES
    pods,    \* of each workload: old ones (all ready), new ones starting or ready
    counts   \* the counts of its status, as the operator reads them

workloads == <<pods, counts>>

PodCounts == [old : Nat, starting : Nat, ready : Nat]
StatusCounts == [updated : Nat, ready : Nat]

\* What the controller of a workload counts.
CountsOf(p) == [updated |-> p.starting + p.ready, ready |-> p.old + p.ready]

WorkloadsTypeOK ==
    /\ pods \in [Targets -> PodCounts]
    /\ counts \in [Targets -> StatusCounts]

WorkloadsInit ==
    /\ pods = [t \in Targets |-> [old |-> 0, starting |-> 0, ready |-> Desired[t]]]
    /\ counts = [t \in Targets |-> CountsOf(pods[t])]

RolledOut(t) == pods[t] = [old |-> 0, starting |-> 0, ready |-> Desired[t]]

Fresh(t) == counts[t] = CountsOf(pods[t])

\* A slip for a mutation run: pods of the old template count as well.
IsRolloutReady(t) == counts[t].ready = Desired[t]

\* UpdatedReplicas and AvailableReplicas of a Deployment, UpdatedReplicas and
\* ReadyReplicas of a StatefulSet, UpdatedNumberScheduled and NumberReady of a
\* DaemonSet.
IsRolloutComplete(t) ==
    /\ counts[t].updated = Desired[t]
    /\ counts[t].ready = Desired[t]

\* The pods of a workload change; the status follows now or later.
Replace(t, p) ==
    /\ pods' = [pods EXCEPT ![t] = p]
    /\ IF t \in Lagging
       THEN UNCHANGED counts
       ELSE counts' = [counts EXCEPT ![t] = CountsOf(p)]

\* The restart annotation makes every pod one of an old template; those that
\* never became ready are given up first.
RestartWorkload(t) ==
    Replace(t, [old |-> pods[t].old + pods[t].ready, starting |-> 0, ready |-> 0])

StartPod(t) ==
    /\ pods[t].starting + pods[t].ready < Desired[t]
    /\ pods[t].old + pods[t].starting + pods[t].ready < Desired[t] + Surge[t]
    /\ Replace(t, [pods[t] EXCEPT !.starting = @ + 1])

PodBecomesReady(t) ==
    /\ pods[t].starting > 0
    /\ Replace(t, [pods[t] EXCEPT !.starting = @ - 1, !.ready = @ + 1])

\* A workload that cannot surge does without one pod at a time.
StopOldPod(t) ==
    LET least == IF Surge[t] = 0 THEN Desired[t] - 1 ELSE Desired[t]
    IN  /\ pods[t].old > 0
        /\ pods[t].old + pods[t].ready > least
        /\ Replace(t, [pods[t] EXCEPT !.old = @ - 1])

StatusIsUpdated(t) ==
    /\ ~Fresh(t)
    /\ counts' = [counts EXCEPT ![t] = CountsOf(pods[t])]
    /\ UNCHANGED pods

WorkloadStep(t) ==
    StartPod(t) \/ PodBecomesReady(t) \/ StopOldPod(t) \/ StatusIsUpdated(t)

\* A status that is up to date tells exactly whether the rollout is over, when
\* no pod is added before an old one is gone; with a surge it still never hides
\* the end of one.  (isRolloutComplete, which no run can wait for otherwise.)
CompleteMeansRolledOut ==
    \A t \in Targets : Fresh(t) =>
        /\ RolledOut(t) => IsRolloutComplete(t)
        /\ IsRolloutComplete(t) /\ Surge[t] = 0 => RolledOut(t)
=============================================================================
