----------------------------- MODULE ClusterSpec -----------------------------
(***************************************************************************)
(* The fields of the Zalando resource that patches write, over a sequence   *)
(* of bootstraps and maintenance runs with changing recommendations.        *)
(* Reconciler keeps the memory request of this resource and decides when it *)
(* is patched; here every patch that the gates admit may happen, and all    *)
(* that PatchResources puts into it is kept.                                *)
(*                                                                         *)
(* A merge patch adds to the resource: what it does not name stays, such as *)
(* the CPU request when the VPA recommends none, or a parameter that only   *)
(* the user has set.  CPU limits are never patched and left out.            *)
(***************************************************************************)
EXTENDS Quantities, Parameters, Sequences

CONSTANTS
    Policies,           \* policies: overcommit, initialMemory, postgresParameters
    Container,          \* spec.vpaContainerName
    VPARecommendations, \* what the VPA may recommend: sequences of entries
    UserSpecs           \* what users create clusters with

OptionalQuantity == Nat \cup {Absent}

\* No value that failed to evaluate, and every quantity is one.
IsSpec(s) ==
    /\ {s.memory, s.limit, s.cpu} \subseteq OptionalQuantity
    /\ \A p \in DOMAIN s.parameters : s.parameters[p] # Failed

ASSUME PoliciesAssumption ==
    \A p \in Policies : p.overcommit \in Nat /\ p.initialMemory \in OptionalQuantity
ASSUME VPARecommendationsAssumption ==
    VPARecommendations \subseteq
        Seq([container : STRING, memory : OptionalQuantity, cpu : OptionalQuantity])
ASSUME UserSpecsAssumption == \A s \in UserSpecs : IsSpec(s)

VARIABLES
    policy,   \* the spec of the policy
    vpa,      \* the VPA's containerRecommendations
    spec      \* the part of the Zalando resource's spec that is patched

vars == <<policy, vpa, spec>>

\* No patch takes a value that failed to evaluate into the resource, and every
\* quantity of the resource is one.
TypeOK ==
    /\ policy \in Policies
    /\ vpa \in VPARecommendations
    /\ IsSpec(spec)

Init ==
    /\ policy \in Policies
    /\ vpa \in VPARecommendations
    /\ spec \in UserSpecs

\* A merge patch of an object: what it names is replaced, the rest stays.
MergeObject(object, patch) ==
    [name \in DOMAIN object \cup DOMAIN patch |->
        IF name \in DOMAIN patch THEN patch[name] ELSE object[name]]

\* A slip for a mutation run: the limit stays.
PatchedRequestOnly(rec, parameters) ==
    [spec EXCEPT !.memory = rec.memory,
                 !.cpu = IF rec.cpu = Absent THEN @ ELSE rec.cpu,
                 !.parameters = MergeObject(@, parameters)]

\* buildMemoryCPUPatch is buildMemoryPatch when there is no CPU.
Patched(rec, parameters) ==
    [memory     |-> rec.memory,
     limit      |-> MemoryLimit(rec.memory, policy.overcommit),
     cpu        |-> IF rec.cpu = Absent THEN spec.cpu ELSE rec.cpu,
     parameters |-> MergeObject(spec.parameters, parameters)]

\* Nothing is patched when a parameter fails.
PatchResources(rec) ==
    LET parameters == CalculatePostgresParameters(
                        policy.postgresParameters, rec.memory, CpuCores(rec.cpu))
    IN  /\ parameters # Failed
        /\ spec' = Patched(rec, parameters)
        /\ UNCHANGED <<policy, vpa>>

Bootstrap ==
    /\ spec.memory = Absent
    /\ policy.initialMemory # Absent
    /\ PatchResources([memory |-> policy.initialMemory,
                       cpu    |-> InitialCPU(policy.initialMemory)])

\* A cluster without memory has been bootstrapped first where the policy can.
Maintain ==
    LET rec    == ExtractContainerRecommendation(vpa, Container)
        target == Recommendation(rec.memory)
    IN  /\ rec # Absent
        /\ IF spec.memory = Absent
           THEN policy.initialMemory = Absent
           ELSE ChangeGate(spec.memory, target) = ""
        /\ PatchResources([memory |-> target, cpu |-> rec.cpu])

VPAChanges ==
    /\ vpa' \in VPARecommendations
    /\ UNCHANGED <<policy, spec>>

Recreate ==
    /\ spec' \in UserSpecs
    /\ UNCHANGED <<policy, vpa>>

Next == Bootstrap \/ Maintain \/ VPAChanges \/ Recreate

Spec == Init /\ [][Next]_vars

-----------------------------------------------------------------------------
\* What users may create: clusters that run, and that leave the parameters of
\* the policy to it.
UserLimitsCover ==
    \A s \in UserSpecs : s.memory # Absent /\ s.limit # Absent => s.memory <= s.limit
UsersLeaveParameters ==
    \A s \in UserSpecs, p \in Policies :
        DOMAIN p.postgresParameters \cap DOMAIN s.parameters = {}

\* The cluster never has a memory limit below its request, which Kubernetes
\* would refuse to run: each patch moves both (PatchResources).
LimitCoversRequest ==
    spec.memory # Absent /\ spec.limit # Absent => spec.memory <= spec.limit

\* The parameters of the policy that the cluster has were all computed at once,
\* for the memory it requests now and for its cores or, when the VPA has
\* recommended no CPU, for none: no failure, shrinking or merging leaves a
\* parameter of another size behind (CalculatePostgresParameters, merge patch).
ParametersFollowResources ==
    LET computed == DOMAIN policy.postgresParameters \cap DOMAIN spec.parameters
    IN  \/ computed = {}
        \/ \E cores \in {0, CpuCores(spec.cpu)} :
             \A p \in DOMAIN policy.postgresParameters :
                p \in computed /\ spec.parameters[p] =
                    EvaluateParameter(policy.postgresParameters[p],
                                      spec.memory, cores)
=============================================================================
