--------------------------- MODULE MCClusterSpec ---------------------------
(* Small instances of the patched cluster for TLC; memory in units of       *)
(* 256 MiB.                                                                 *)
EXTENDS ClusterSpec, Templates

Memory == Variable("memory")
CPU == Variable("cpu")

\* The forms of the README's examples, and a share of the memory per core,
\* which fails without CPU.
ReadmeParameters ==
    [shared_buffers  |-> Call("div", Call("div", Memory, Number(3)), Number(2)),
     worker_processes |-> Call("max", Number(3),
                              Call("add", Call("div", CPU, Number(2)), CPU)),
     max_connections |-> Static("300")]

PerCoreParameters ==
    [shared_buffers |-> Call("div", Call("mul", Memory, Number(3)), Number(4)),
     work_mem       |-> Call("div", Memory, CPU)]

NoParameters == [name \in {} |-> Absent]

MCPolicies ==
    [overcommit : {0, 150}, initialMemory : {Absent, 9},
     postgresParameters : {NoParameters, ReadmeParameters, PerCoreParameters}]

Entry(container, memory, cpu) ==
    [container |-> container, memory |-> memory, cpu |-> cpu]

\* Every recommendation about the bounds, alone or behind a sidecar's; and
\* those that hold none.
MCVPARecommendations ==
    {<<Entry("postgres", m, c)>> : m \in 0..14, c \in {Absent, 400, 1600, 3000}}
    \cup {<<Entry("sidecar", 2, 500), Entry("postgres", m, 2000)>> : m \in {3, 11}}
    \cup {<< >>, <<Entry("sidecar", 2, 500)>>, <<Entry("postgres", Absent, 500)>>}

UserParameters(value) == [work_mem_user |-> value]

MCUserSpecs ==
    [memory : {Absent}, limit : {Absent, 3}, cpu : {Absent},
     parameters : {NoParameters, UserParameters("set by user")}]
    \cup [memory : {6}, limit : {6, 8}, cpu : {2500}, parameters : {NoParameters}]

ASSUME UsersBehave == UserLimitsCover /\ UsersLeaveParameters
=============================================================================
