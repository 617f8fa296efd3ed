------------------------------- MODULE Sizing -------------------------------
(***************************************************************************)
(* How much memory a run applies and whether it is worth a run: the clamp   *)
(* and buffer of vpa.go and the change gates of zalando.go.  Quantities     *)
(* are natural numbers of one unit; the code computes on int64 bytes and    *)
(* rounds the float64 product of the buffer down.  Percentages are whole.   *)
(***************************************************************************)
EXTENDS Integers

CONSTANTS
    MemoryMin, MemoryMax,   \* bounds of the recommendation
    MemoryBuffer,           \* percentage added on top of it
    AbsoluteThreshold,      \* change gates: a run needs a larger difference
    RelativeThreshold       \*   ... and a larger percentage of the current memory

ASSUME MemoryBoundsAssumption == MemoryMin \in Nat /\ MemoryMax \in Nat
ASSUME MemoryBufferAssumption == MemoryBuffer \in 0..100
ASSUME ThresholdsAssumption ==
    AbsoluteThreshold \in Nat /\ RelativeThreshold \in 0..100

ClampQuantity(q) ==
    IF q < MemoryMin THEN MemoryMin
    ELSE IF q > MemoryMax THEN MemoryMax
    ELSE q

\* A slip for a mutation run: the buffered value is not clamped again.
ApplyMemoryBufferUnclamped(q) ==
    IF MemoryBuffer <= 0 THEN q ELSE (q * (100 + MemoryBuffer)) \div 100

ApplyMemoryBuffer(q) ==
    LET buffered == (q * (100 + MemoryBuffer)) \div 100
    IN  IF MemoryBuffer <= 0 THEN q
        ELSE IF buffered > MemoryMax THEN MemoryMax
        ELSE buffered

\* ReadRecommendation's memory, from what the VPA recommends.
Recommendation(raw) == ApplyMemoryBuffer(ClampQuantity(raw))

AbsDiff(a, b) == IF a < b THEN b - a ELSE a - b

\* Why EvaluateChangeGates blocks a change of the memory from current to
\* target; "" when it does not.
ChangeGate(current, target) ==
    IF AbsDiff(target, current) <= AbsoluteThreshold
    THEN "ChangeGateAbsoluteDiff"
    ELSE IF current # 0 /\ AbsDiff(target, current) * 100 <= RelativeThreshold * current
    THEN "ChangeGateRelativeDiff"
    ELSE ""
=============================================================================
