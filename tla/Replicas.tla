------------------------------ MODULE Replicas ------------------------------
(***************************************************************************)
(* Two controllers for one policy: a second replica, or the old and the new *)
(* pod of a rolling update.  The variables of Reconciler are those of the   *)
(* new controller; the old one (peer) works on the same status, cluster and *)
(* workloads with local state of its own, until it stops.  With leader      *)
(* election, which main.go leaves off by default, the new one waits for it. *)
(***************************************************************************)
EXTENDS ReconcilerProperties

VARIABLES
    leaderElect,    \* the flag --leader-elect, the same for both
    peerRuns,       \* the old controller has not stopped
    peerPc, peerPol, peerBase, peerCur, peerNext

peerReconcile == <<peerPc, peerPol, peerBase, peerCur, peerNext>>
peer == <<leaderElect, peerRuns, peerReconcile>>
replicaVars == <<vars, peer>>

Peer == INSTANCE Reconciler WITH
    pc <- peerPc, pol <- peerPol, base <- peerBase, cur <- peerCur, next <- peerNext

ReplicasInit ==
    /\ Init
    /\ Peer!Init
    /\ leaderElect \in BOOLEAN
    /\ peerRuns = TRUE

\* A slip for mutation runs: the flag does not reach the manager.
EveryoneLeads == TRUE

\* The lease passes on when its holder is gone.
IsLeader == leaderElect => ~peerRuns

NewReconciles ==
    /\ IsLeader
    /\ ReconcileStep
    /\ UNCHANGED peer

OldReconciles ==
    /\ peerRuns
    /\ Peer!ReconcileStep
    /\ UNCHANGED <<leaderElect, peerRuns, reconcile>>

\* The old controller shuts down or dies; a reconcile it was in is cut short.
OldStops ==
    /\ peerRuns
    /\ peerRuns' = FALSE
    /\ IF peerPc = "idle" THEN NoFault ELSE Fault("crash")
    /\ Peer!EndReconcile
    /\ UNCHANGED <<world, reconcile, history, leaderElect>>

World ==
    /\ Environment
    /\ UNCHANGED peer

ReplicasNext == NewReconciles \/ OldReconciles \/ OldStops \/ World

\* Each controller keeps reconciling; the old one may stop or stay.
ReplicasFairness ==
    /\ WF_replicaVars(NewReconciles)
    /\ WF_replicaVars(OldReconciles)
    /\ WF_replicaVars(World /\ Tick)
    /\ WF_replicaVars(World /\ CacheSync)

ReplicasSpec == ReplicasInit /\ [][ReplicasNext]_replicaVars /\ ReplicasFairness

-----------------------------------------------------------------------------

\* The controller that may act, as if there was no other.  A handover in the
\* middle of a reconcile is a crash of it.
Leading(old, new) == IF peerRuns THEN old ELSE new

OneController == INSTANCE Reconciler WITH
    pc   <- Leading(peerPc, pc),
    pol  <- Leading(peerPol, pol),
    base <- Leading(peerBase, base),
    cur  <- Leading(peerCur, cur),
    next <- Leading(peerNext, next)

\* With leader election a handover is never more than a crash of one controller,
\* at whatever call of a reconcile it happens: all that holds of Reconciler holds
\* of the deployment (ctrl.Options.LeaderElection).
ImplementsOneController ==
    /\ leaderElect => OneController!Init
    /\ [][leaderElect => OneController!Next]_(OneController!vars)

\* What a controller holds between two reconciles.
AtRest(policy, snapshot, memory, position) ==
    /\ policy = EmptyStatus
    /\ snapshot = EmptyStatus
    /\ memory = NoMemory
    /\ position = 1

\* Why: a controller that does not reconcile holds nothing that a successor
\* would miss, and with leader election that is the new one while the old one runs.
HandoverInv ==
    /\ peerPc = "idle" => AtRest(peerPol, peerBase, peerCur, peerNext)
    /\ leaderElect /\ peerRuns => pc = "idle" /\ AtRest(pol, base, cur, next)
=============================================================================
