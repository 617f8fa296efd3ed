-------------------------- MODULE ClusterSpecProofs --------------------------
(***************************************************************************)
(* What patches write into the Zalando resource, for every policy, template *)
(* and recommendation.                                                      *)
(***************************************************************************)
EXTENDS ClusterSpec, SizingProofs, SequenceTheorems

-----------------------------------------------------------------------------
\* Quantities that go with a memory request

\* The memory limit is never below the request, for any overcommit.
THEOREM LimitCovers ==
    ASSUME NEW request \in Nat, NEW overcommit \in Nat
    PROVE  MemoryLimit(request, overcommit) \in Nat
           /\ MemoryLimit(request, overcommit) >= request
BY PercentageGrows DEF MemoryLimit

\* Whole cores hold the CPU and no core of them is spare.
THEOREM CoresRoundUp ==
    ASSUME NEW cpu \in Nat
    PROVE  /\ CpuCores(cpu) \in Nat
           /\ cpu <= CpuCores(cpu) * 1000
           /\ CpuCores(cpu) * 1000 < cpu + 1000
BY AbsentAssumption DEF CpuCores

LEMMA RecommendationIsNatural ==
    ASSUME NEW raw \in Nat
    PROVE  Recommendation(raw) \in Nat
<1>1. ClampQuantity(raw) \in Nat /\ MemoryMax \in Nat
  BY MemoryBoundsAssumption DEF ClampQuantity
<1>2. 100 + MemoryBuffer \in Nat /\ 100 + MemoryBuffer >= 100
  BY MemoryBufferAssumption
<1>3. (ClampQuantity(raw) * (100 + MemoryBuffer)) \div 100 \in Nat
  BY <1>1, <1>2, PercentageGrows
<1> QED
  BY <1>1, <1>3 DEF Recommendation, ApplyMemoryBuffer

\* The entry of a container has a memory, and a CPU or none.
LEMMA ExtractedType ==
    ASSUME NEW recommendations \in VPARecommendations,
           ExtractContainerRecommendation(recommendations, Container) # Absent
    PROVE  LET rec == ExtractContainerRecommendation(recommendations, Container)
           IN  rec.memory \in Nat /\ rec.cpu \in OptionalQuantity
<1> DEFINE named == {i \in DOMAIN recommendations :
                       recommendations[i].container = Container}
           rec == recommendations[Min(named)]
<1>1. named # {} /\ rec.memory # Absent
  BY DEF ExtractContainerRecommendation
<1>2. ExtractContainerRecommendation(recommendations, Container)
      = [memory |-> rec.memory, cpu |-> rec.cpu]
  BY <1>1 DEF ExtractContainerRecommendation
<1>3. recommendations \in Seq([container : STRING, memory : OptionalQuantity,
                               cpu : OptionalQuantity])
  BY VPARecommendationsAssumption
<1>4. named \in SUBSET Nat
  BY <1>3, LenProperties
<1>5. Min(named) \in DOMAIN recommendations
  BY <1>1, <1>4, MinOfNaturals
<1>6. rec \in [container : STRING, memory : OptionalQuantity, cpu : OptionalQuantity]
  BY <1>3, <1>5, ElementOfSeq, LenProperties
<1> HIDE DEF rec, named
<1> QED
  BY <1>1, <1>2, <1>6 DEF OptionalQuantity

-----------------------------------------------------------------------------
\* Patches

\* The parameters that are patched are those of the policy, and none failed.
LEMMA CalculatedParameters ==
    ASSUME NEW params, NEW memory, NEW cores,
           CalculatePostgresParameters(params, memory, cores) # Failed
    PROVE  LET parameters == CalculatePostgresParameters(params, memory, cores)
           IN  /\ parameters = [name \in DOMAIN params |->
                                  EvaluateParameter(params[name], memory, cores)]
               /\ \A name \in DOMAIN params : parameters[name] # Failed
BY DEF CalculatePostgresParameters

\* What every patch, of a bootstrap or of a run, has written.
PatchWritten(rec) ==
    /\ UNCHANGED <<policy, vpa>>
    /\ IsSpec(spec')
    /\ spec'.memory = rec.memory
    /\ spec'.limit = MemoryLimit(rec.memory, policy.overcommit)
    /\ spec'.cpu = IF rec.cpu = Absent THEN spec.cpu ELSE rec.cpu
    /\ DOMAIN policy.postgresParameters \subseteq DOMAIN spec'.parameters
    /\ \A p \in DOMAIN policy.postgresParameters :
          spec'.parameters[p] = EvaluateParameter(policy.postgresParameters[p],
                                                  rec.memory, CpuCores(rec.cpu))

LEMMA PatchedSpec ==
    ASSUME TypeOK, NEW rec, rec.memory \in Nat, rec.cpu \in OptionalQuantity,
           PatchResources(rec)
    PROVE  PatchWritten(rec)
<1> DEFINE params     == policy.postgresParameters
           parameters == CalculatePostgresParameters(params, rec.memory, CpuCores(rec.cpu))
           merged     == MergeObject(spec.parameters, parameters)
<1>1. /\ parameters # Failed /\ UNCHANGED <<policy, vpa>>
      /\ spec' = [memory     |-> rec.memory,
                  limit      |-> MemoryLimit(rec.memory, policy.overcommit),
                  cpu        |-> IF rec.cpu = Absent THEN spec.cpu ELSE rec.cpu,
                  parameters |-> merged]
  BY DEF PatchResources, Patched
<1>2. /\ parameters = [name \in DOMAIN params |->
                         EvaluateParameter(params[name], rec.memory, CpuCores(rec.cpu))]
      /\ \A name \in DOMAIN params : parameters[name] # Failed
  BY <1>1, CalculatedParameters
<1> HIDE DEF parameters
<1>3. /\ DOMAIN merged = DOMAIN params \cup DOMAIN spec.parameters
      /\ \A p \in DOMAIN params : merged[p] = parameters[p]
      /\ \A p \in DOMAIN spec.parameters \ DOMAIN params : merged[p] = spec.parameters[p]
  BY <1>2 DEF MergeObject
<1> HIDE DEF merged
<1>4. /\ spec'.memory = rec.memory
      /\ spec'.limit = MemoryLimit(rec.memory, policy.overcommit)
      /\ spec'.cpu = IF rec.cpu = Absent THEN spec.cpu ELSE rec.cpu
      /\ spec'.parameters = merged
  BY <1>1
<1>5. {spec'.memory, spec'.limit, spec'.cpu} \subseteq OptionalQuantity
  <2>1. policy.overcommit \in Nat /\ spec.cpu \in OptionalQuantity
    BY PoliciesAssumption DEF TypeOK, IsSpec
  <2>2. spec'.limit \in Nat
    BY <1>4, <2>1, LimitCovers
  <2> QED
    BY <1>4, <2>1, <2>2 DEF OptionalQuantity
<1>6. \A p \in DOMAIN merged : merged[p] # Failed
  BY <1>2, <1>3 DEF TypeOK, IsSpec
<1>7. IsSpec(spec')
  BY <1>4, <1>5, <1>6 DEF IsSpec
<1> QED
  BY <1>1, <1>2, <1>3, <1>4, <1>7 DEF PatchWritten

\* The memory and CPU of a patch are quantities.
LEMMA EveryPatch ==
    ASSUME TypeOK, Bootstrap \/ Maintain
    PROVE  \E rec : rec.memory \in Nat /\ PatchWritten(rec)
<1>1. CASE Bootstrap
  <2> DEFINE rec == [memory |-> policy.initialMemory,
                     cpu    |-> InitialCPU(policy.initialMemory)]
  <2>1. policy.initialMemory \in Nat
    BY <1>1, PoliciesAssumption DEF Bootstrap, TypeOK, OptionalQuantity
  <2>2. InitialCPU(policy.initialMemory) \in Nat
    <3>1. (policy.initialMemory * 100) \div Gibi \in Nat
      BY <2>1, GibiAssumption
    <3> QED
      BY <3>1 DEF InitialCPU
  <2>3. /\ rec.memory \in Nat /\ rec.cpu \in OptionalQuantity
        /\ PatchResources(rec)
    BY <1>1, <2>1, <2>2 DEF Bootstrap, OptionalQuantity
  <2> QED
    BY <2>3, PatchedSpec
<1>2. CASE Maintain
  <2> DEFINE found == ExtractContainerRecommendation(vpa, Container)
             rec   == [memory |-> Recommendation(found.memory), cpu |-> found.cpu]
  <2>1. found # Absent /\ PatchResources(rec)
    BY <1>2 DEF Maintain
  <2>2. found.memory \in Nat /\ found.cpu \in OptionalQuantity
    BY <2>1, ExtractedType DEF TypeOK
  <2>3. rec.memory \in Nat /\ rec.cpu \in OptionalQuantity
    BY <2>2, RecommendationIsNatural
  <2> QED
    BY <2>1, <2>3, PatchedSpec
<1> QED
  BY <1>1, <1>2

-----------------------------------------------------------------------------
\* The resource in every reachable state

LEMMA TypeNext == TypeOK /\ [Next]_vars => TypeOK'
<1> SUFFICES ASSUME TypeOK, [Next]_vars PROVE TypeOK'
  OBVIOUS
<1>1. CASE Bootstrap \/ Maintain
  BY <1>1, EveryPatch DEF PatchWritten, TypeOK
<1>2. CASE VPAChanges
  BY <1>2 DEF VPAChanges, TypeOK
<1>3. CASE Recreate
  BY <1>3, UserSpecsAssumption DEF Recreate, TypeOK
<1>4. CASE UNCHANGED vars
  BY <1>4 DEF vars, TypeOK
<1> QED
  BY <1>1, <1>2, <1>3, <1>4 DEF Next

LEMMA TypeInit == Init => TypeOK
BY UserSpecsAssumption DEF Init, TypeOK

\* No patch takes a value that failed to evaluate into the resource, whatever
\* templates evaluate to.
THEOREM SpecTypeCorrect == Spec => []TypeOK
BY TypeInit, TypeNext, PTL DEF Spec

\* The memory limit of the cluster covers its request, for every overcommit and
\* recommendation, if it does in the clusters that users create.
THEOREM LimitAlwaysCovers ==
    ASSUME UserLimitsCover
    PROVE  Spec => []LimitCoversRequest
<1>1. Init => LimitCoversRequest
  BY DEF Init, LimitCoversRequest, UserLimitsCover
<1>2. TypeOK /\ LimitCoversRequest /\ [Next]_vars => LimitCoversRequest'
  <2> SUFFICES ASSUME TypeOK, LimitCoversRequest, [Next]_vars
               PROVE  LimitCoversRequest'
    OBVIOUS
  <2>1. CASE Bootstrap \/ Maintain
    <3>1. PICK rec : rec.memory \in Nat /\ PatchWritten(rec)
      BY <2>1, EveryPatch
    <3>2. policy.overcommit \in Nat
      BY PoliciesAssumption DEF TypeOK
    <3>3. MemoryLimit(rec.memory, policy.overcommit) >= rec.memory
          /\ MemoryLimit(rec.memory, policy.overcommit) \in Nat
      BY <3>1, <3>2, LimitCovers
    <3> QED
      BY <3>1, <3>3 DEF PatchWritten, LimitCoversRequest
  <2>2. CASE Recreate
    BY <2>2 DEF Recreate, UserLimitsCover, LimitCoversRequest
  <2>3. CASE VPAChanges \/ UNCHANGED vars
    BY <2>3 DEF VPAChanges, vars, LimitCoversRequest
  <2> QED
    BY <2>1, <2>2, <2>3 DEF Next
<1> QED
  BY <1>1, <1>2, TypeInit, TypeNext, PTL DEF Spec

\* All parameters of the policy that the cluster has are those of its memory and
\* its cores, or no cores, for every set of templates and whatever they evaluate
\* to, if users leave these parameters to the policy.
THEOREM ParametersAlwaysFollow ==
    ASSUME UsersLeaveParameters
    PROVE  Spec => []ParametersFollowResources
<1> DEFINE Untouched == DOMAIN policy.postgresParameters \cap DOMAIN spec.parameters = {}
<1>1. Untouched => ParametersFollowResources
  BY DEF ParametersFollowResources
<1>2. Init => ParametersFollowResources
  BY <1>1 DEF Init, UsersLeaveParameters
<1>3. TypeOK /\ ParametersFollowResources /\ [Next]_vars => ParametersFollowResources'
  <2> SUFFICES ASSUME TypeOK, ParametersFollowResources, [Next]_vars
               PROVE  ParametersFollowResources'
    OBVIOUS
  <2>1. CASE Bootstrap \/ Maintain
    <3>1. PICK rec : rec.memory \in Nat /\ PatchWritten(rec)
      BY <2>1, EveryPatch
    <3>2. CpuCores(rec.cpu) \in {0, CpuCores(spec'.cpu)}
      BY <3>1 DEF PatchWritten, CpuCores
    <3> QED
      BY <3>1, <3>2 DEF PatchWritten, ParametersFollowResources
  <2>2. CASE Recreate
    BY <2>2 DEF Recreate, TypeOK, UsersLeaveParameters, ParametersFollowResources
  <2>3. CASE VPAChanges \/ UNCHANGED vars
    BY <2>3 DEF VPAChanges, vars, ParametersFollowResources
  <2> QED
    BY <2>1, <2>2, <2>3 DEF Next
<1> QED
  BY <1>2, <1>3, TypeInit, TypeNext, PTL DEF Spec
=============================================================================
