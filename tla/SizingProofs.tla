---------------------------- MODULE SizingProofs ----------------------------
(***************************************************************************)
(* What the sizing operators return, for all bounds, buffers and thresholds, *)
(* and the least and the greatest of a set of naturals.                      *)
(***************************************************************************)
EXTENDS Sizing, FiniteSetsExt, WellFoundedInduction, TLAPS

\* Multiplying by at least 100 and dividing by 100 again does not shrink.
LEMMA PercentageGrows ==
    ASSUME NEW q \in Nat, NEW p \in Nat, p >= 100
    PROVE  /\ (q * p) \div 100 \in Nat
           /\ (q * p) \div 100 >= q
<1>1. q * p \in Nat /\ q * p >= q * 100
  <2>1. PICK d \in Nat : p = 100 + d
    <3>1. p - 100 \in Nat /\ p = 100 + (p - 100)
      OBVIOUS
    <3> QED
      BY <3>1
  <2>2. q * d \in Nat
    OBVIOUS
  <2>3. q * p = q * 100 + q * d
    BY <2>1
  <2> QED
    BY <2>2, <2>3
<1> QED
  BY <1>1

\* ... and keeps the order.
LEMMA PercentageMonotone ==
    ASSUME NEW q \in Nat, NEW r \in Nat, q <= r, NEW p \in Nat
    PROVE  (q * p) \div 100 <= (r * p) \div 100
<1>1. PICK d \in Nat : r = q + d
  <2>1. r - q \in Nat /\ r = q + (r - q)
    OBVIOUS
  <2> QED
    BY <2>1
<1>2. q * p \in Nat /\ d * p \in Nat /\ r * p = q * p + d * p
  BY <1>1
<1> QED
  BY <1>2

\* Whatever the VPA recommends, what is applied lies within the bounds: the
\* buffer neither pushes it above memoryMax nor below memoryMin.
THEOREM RecommendationWithinBounds ==
    ASSUME MemoryMin <= MemoryMax, NEW raw \in Nat
    PROVE  Recommendation(raw) \in MemoryMin .. MemoryMax
<1> DEFINE q == ClampQuantity(raw)
<1>1. q \in Nat /\ MemoryMin <= q /\ q <= MemoryMax
  BY MemoryBoundsAssumption DEF ClampQuantity
<1> HIDE DEF q
<1>2. /\ (q * (100 + MemoryBuffer)) \div 100 \in Nat
      /\ (q * (100 + MemoryBuffer)) \div 100 >= q
  BY <1>1, PercentageGrows, MemoryBufferAssumption
<1>3. ApplyMemoryBuffer(q) \in MemoryMin .. MemoryMax
  BY <1>1, <1>2, MemoryBoundsAssumption DEF ApplyMemoryBuffer
<1> QED
  BY <1>3 DEF q, Recommendation

\* Nothing makes a policy order its bounds.  With memoryMin above memoryMax the
\* maximum still wins, except over a recommendation below the minimum with no
\* buffer, which is answered by the minimum.
THEOREM RecommendationWithUnorderedBounds ==
    ASSUME MemoryMax < MemoryMin, NEW raw \in Nat
    PROVE  Recommendation(raw) =
             IF raw < MemoryMin /\ MemoryBuffer = 0 THEN MemoryMin ELSE MemoryMax
<1> DEFINE q == ClampQuantity(raw)
<1>1. q \in Nat /\ q = IF raw < MemoryMin THEN MemoryMin ELSE MemoryMax
  BY MemoryBoundsAssumption DEF ClampQuantity
<1>1a. q \in Nat
  BY <1>1
<1> HIDE DEF q
<1>2. /\ (q * (100 + MemoryBuffer)) \div 100 \in Nat
      /\ (q * (100 + MemoryBuffer)) \div 100 >= q
  BY <1>1a, PercentageGrows, MemoryBufferAssumption
<1>3. ApplyMemoryBuffer(q) =
        IF raw < MemoryMin /\ MemoryBuffer = 0 THEN MemoryMin ELSE MemoryMax
  BY <1>1, <1>2, MemoryBoundsAssumption, MemoryBufferAssumption
     DEF ApplyMemoryBuffer
<1> QED
  BY <1>3 DEF q, Recommendation

\* A VPA that asks for more is never answered with less.
THEOREM RecommendationMonotone ==
    ASSUME MemoryMin <= MemoryMax, NEW low \in Nat, NEW high \in Nat, low <= high
    PROVE  Recommendation(low) <= Recommendation(high)
<1> DEFINE q == ClampQuantity(low)
           r == ClampQuantity(high)
<1>1. q \in Nat /\ r \in Nat /\ q <= r
  BY MemoryBoundsAssumption DEF ClampQuantity
<1> HIDE DEF q, r
<1>2. /\ (q * (100 + MemoryBuffer)) \div 100 \in Nat
      /\ (r * (100 + MemoryBuffer)) \div 100 \in Nat
  BY <1>1, PercentageGrows, MemoryBufferAssumption
<1>3. (q * (100 + MemoryBuffer)) \div 100 <= (r * (100 + MemoryBuffer)) \div 100
  BY <1>1, PercentageMonotone, MemoryBufferAssumption
<1>4. ApplyMemoryBuffer(q) <= ApplyMemoryBuffer(r)
  BY <1>1, <1>2, <1>3, MemoryBoundsAssumption DEF ApplyMemoryBuffer
<1> QED
  BY <1>4 DEF q, r, Recommendation

LEMMA ProductType ==
    ASSUME NEW a \in Nat, NEW b \in Nat
    PROVE  a * b \in Nat
OBVIOUS

LEMMA AbsDiffType ==
    ASSUME NEW a \in Nat, NEW b \in Nat
    PROVE  /\ AbsDiff(a, b) \in Nat
           /\ AbsDiff(a, b) = 0 <=> a = b
BY DEF AbsDiff

\* The gates admit no run that would apply what the cluster has already, and
\* no run of which the change does not exceed both thresholds, whatever the
\* memory of the cluster.
THEOREM GatesAdmitOnlyChanges ==
    ASSUME NEW current \in Nat, NEW target \in Nat
    PROVE  ChangeGate(current, target) = "" =>
             /\ target # current
             /\ AbsDiff(target, current) > AbsoluteThreshold
             /\ AbsDiff(target, current) * 100 > RelativeThreshold * current
<1> DEFINE d == AbsDiff(target, current)
           share == RelativeThreshold * current
<1>1. /\ d \in Nat
      /\ d = 0 <=> target = current
  BY AbsDiffType
<1>2. share \in Nat /\ (current = 0 => share = 0)
  BY ProductType, ThresholdsAssumption
<1>3. ChangeGate(current, target) =
        IF d <= AbsoluteThreshold THEN "ChangeGateAbsoluteDiff"
        ELSE IF current # 0 /\ d * 100 <= share THEN "ChangeGateRelativeDiff"
        ELSE ""
  BY DEF ChangeGate
<1> HIDE DEF d, share
<1>4. ChangeGate(current, target) = "" =>
        d > AbsoluteThreshold /\ (current = 0 \/ d * 100 > share)
  <2>1. CASE d <= AbsoluteThreshold
    <3>1. ChangeGate(current, target) = "ChangeGateAbsoluteDiff"
      BY <1>3, <2>1
    <3> QED
      BY <3>1
  <2>2. CASE ~(d <= AbsoluteThreshold) /\ current # 0 /\ d * 100 <= share
    <3>1. ChangeGate(current, target) = "ChangeGateRelativeDiff"
      BY <1>3, <2>2
    <3> QED
      BY <3>1
  <2>3. CASE ~(d <= AbsoluteThreshold) /\ ~(current # 0 /\ d * 100 <= share)
    <3>1. AbsoluteThreshold \in Nat /\ d * 100 \in Nat
      BY <1>1, ThresholdsAssumption
    <3>2. d > AbsoluteThreshold /\ (current = 0 \/ d * 100 > share)
      BY <1>1, <1>2, <2>3, <3>1
    <3> QED
      BY <3>2
  <2> QED
    BY <2>1, <2>2, <2>3
<1>5. ASSUME ChangeGate(current, target) = ""
      PROVE  target # current /\ d > AbsoluteThreshold /\ d * 100 > share
  <2>1. d > AbsoluteThreshold /\ (current = 0 \/ d * 100 > share)
    BY <1>4, <1>5
  <2> QED
    BY <1>1, <1>2, <2>1, ThresholdsAssumption
<1> QED
  BY <1>5 DEF d, share

-----------------------------------------------------------------------------
\* Sets of naturals

\* A non-empty set of naturals has a least element, which is what Min chooses.
LEMMA MinOfNaturals ==
    ASSUME NEW S \in SUBSET Nat, S # {}
    PROVE  /\ Min(S) \in S
           /\ \A y \in S : Min(S) <= y
<1>1. \E x \in S : \A y \in S : ~(<<y, x>> \in OpToRel(<, Nat))
  BY WFMin, NatLessThanWellFounded
<1>2. PICK x \in S : \A y \in S : ~(<<y, x>> \in OpToRel(<, Nat))
  BY <1>1
<1>3. ASSUME NEW y \in S
      PROVE  x <= y
  <2>1. ~(y < x)
    <3>1. <<y, x>> \in Nat \X Nat
      OBVIOUS
    <3>2. y < x => <<y, x>> \in OpToRel(<, Nat)
      BY <3>1, Zenon DEF OpToRel
    <3> QED
      BY <1>2, <3>2
  <2> QED
    BY <2>1
<1> QED
  BY <1>3 DEF Min

\* A non-empty bounded set of naturals has a greatest element, which is what
\* Max chooses.
LEMMA MaxOfNaturals ==
    ASSUME NEW n \in Nat, NEW S \in SUBSET (0 .. n), S # {}
    PROVE  /\ Max(S) \in S
           /\ \A x \in S : x <= Max(S)
<1> DEFINE below == {n - x : x \in S}
<1>1. below \in SUBSET Nat /\ below # {}
  <2>1. \A x \in S : n - x \in Nat
    OBVIOUS
  <2> QED
    BY <2>1
<1>2. Min(below) \in below /\ \A y \in below : Min(below) <= y
  BY <1>1, MinOfNaturals
<1>3. PICK m \in S : Min(below) = n - m
  BY <1>2
<1>4. ASSUME NEW x \in S PROVE x <= m
  <2>1. n - m <= n - x
    BY <1>2, <1>3
  <2>2. x \in 0 .. n /\ m \in 0 .. n
    OBVIOUS
  <2> QED
    BY <2>1, <2>2
<1> QED
  BY <1>3, <1>4 DEF Max
=============================================================================
