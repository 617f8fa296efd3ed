----------------------------- MODULE Quantities -----------------------------
(***************************************************************************)
(* What a patch of the cluster is computed from, beside the memory request  *)
(* of Sizing: the container's entry in the VPA, the memory limit, the CPU   *)
(* that goes with the initial memory, and whole cores.  CPU is in           *)
(* millicores and overcommit in percent; the products are float64 in the    *)
(* code and rounded down.                                                   *)
(***************************************************************************)
EXTENDS Sizing, FiniteSetsExt

CONSTANTS
    Absent,   \* a quantity that is not set (nil)
    Gibi      \* memory units in a GiB

ASSUME AbsentAssumption == Absent \notin Nat
ASSUME GibiAssumption == Gibi \in Nat \ {0}

\* The entry of a container in the VPA's recommendation, Absent when there is
\* none or it has no memory.  The first entry of that name counts.
ExtractContainerRecommendation(recommendations, container) ==
    LET named == {i \in DOMAIN recommendations :
                    recommendations[i].container = container}
        rec   == recommendations[Min(named)]
    IN  IF named = {} \/ rec.memory = Absent
        THEN Absent
        ELSE [memory |-> rec.memory, cpu |-> rec.cpu]

\* An overcommit below 1 counts as 1.
MemoryLimit(request, overcommit) ==
    IF overcommit < 100 THEN request ELSE (request * overcommit) \div 100

\* 100m for each GiB, at least 100m.
InitialCPU(memory) ==
    LET millis == (memory * 100) \div Gibi
    IN  IF millis < 100 THEN 100 ELSE millis

\* Partial cores are rounded up.
CpuCores(cpu) ==
    IF cpu = Absent THEN 0
    ELSE (cpu \div 1000) + (IF cpu % 1000 > 0 THEN 1 ELSE 0)
=============================================================================
