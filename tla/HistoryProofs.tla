---------------------------- MODULE HistoryProofs ----------------------------
(***************************************************************************)
(* What the maintenance history keeps through every reconcile, whatever     *)
(* fails, as long as reads are fresh.                                       *)
(***************************************************************************)
EXTENDS ReconcilerInvariants, ReconcilerProofs, SizingProofs

-----------------------------------------------------------------------------
\* Windows

LEMMA TickProperties ==
    ASSUME NEW t \in Nat, NEW u
    PROVE  u \in PrevTicks(t) <=> u \in FireTimes /\ u \in 0 .. t
<1>1. u \in FireTimes => (u <= t <=> u \in 0 .. t)
  BY FireTimesAssumption
<1>2. u \in PrevTicks(t) <=> u \in FireTimes /\ u <= t
  BY Zenon DEF PrevTicks
<1> QED
  BY <1>1, <1>2

LEMMA TicksGrow ==
    ASSUME NEW s \in Nat, NEW t \in Nat, s <= t
    PROVE  PrevTicks(s) \subseteq PrevTicks(t)
BY TickProperties

\* The window of t opens at the last fire time up to t.
LEMMA WindowStartIsLast ==
    ASSUME NEW t \in Nat, PrevTicks(t) # {}
    PROVE  /\ WindowStart(t) \in PrevTicks(t)
           /\ WindowStart(t) \in Nat
           /\ WindowStart(t) <= t
           /\ \A u \in PrevTicks(t) : u <= WindowStart(t)
<1>1. PrevTicks(t) \in SUBSET (0 .. t)
  BY TickProperties
<1>2. /\ WindowStart(t) \in PrevTicks(t)
      /\ \A u \in PrevTicks(t) : u <= WindowStart(t)
  BY <1>1, MaxOfNaturals DEF WindowStart
<1> QED
  BY <1>1, <1>2

\* An instant between two of one window is in that window too.
LEMMA WindowIsInterval ==
    ASSUME NEW s \in Nat, NEW t \in Nat, NEW u \in Nat,
           s <= t, t <= u, SameWindow(s, u)
    PROVE  SameWindow(s, t)
<1>1. /\ PrevTicks(s) # {} /\ PrevTicks(u) # {}
      /\ WindowStart(s) = WindowStart(u)
      /\ u < WindowStart(u) + TimeoutMinutes
      /\ InWindow(s)
  BY DEF SameWindow, InWindow
<1>2. PrevTicks(s) \subseteq PrevTicks(t) /\ PrevTicks(t) \subseteq PrevTicks(u)
  BY TicksGrow
<1>3. PrevTicks(t) # {}
  BY <1>1, <1>2
<1>4. WindowStart(t) = WindowStart(s)
  <2>1. WindowStart(s) \in PrevTicks(t) /\ WindowStart(t) \in PrevTicks(u)
    BY <1>1, <1>2, <1>3, WindowStartIsLast
  <2> QED
    BY <1>1, <1>3, <2>1, WindowStartIsLast
<1>5. InWindow(t)
  <2>1. t < WindowStart(t) + TimeoutMinutes
    BY <1>1, <1>4, WindowStartIsLast, TimeoutAssumption
  <2> QED
    BY <1>3, <2>1 DEF InWindow
<1> QED
  BY <1>1, <1>4, <1>5 DEF SameWindow

\* A window without a completed run stays without one as time passes.
LEMMA FreeLater ==
    ASSUME NEW h \in Seq(MaintenanceRecord), NEW t \in Nat, NEW u \in Nat, t <= u,
           StartedBy(h, t), WindowIsFree(h, t)
    PROVE  WindowIsFree(h, u)
<1>1. \A i \in DOMAIN h : h[i].startedAt \in Nat
  <2>1. \A i \in DOMAIN h : h[i] \in MaintenanceRecord
    BY ElementOfSeq, LenProperties
  <2> QED
    BY <2>1 DEF MaintenanceRecord
<1> QED
  BY <1>1, WindowIsInterval DEF StartedBy, WindowIsFree

\* What Evaluate calls a window is the window of now.
LEMMA EvaluateInWindow ==
    ASSUME NEW now \in Nat
    PROVE  /\ Evaluate(now).inWindow <=> InWindow(now)
           /\ InWindow(now) => /\ Evaluate(now).nextOpen = WindowStart(now)
                               /\ Evaluate(now).windowEnd = WindowStart(now) + TimeoutMinutes
<1>1. InWindow(now) <=> /\ PrevTicks(now) # {}
                        /\ now < Max(PrevTicks(now)) + TimeoutMinutes
  BY DEF InWindow, WindowStart
<1>2. CASE InWindow(now)
  <2>1. Evaluate(now) = [error |-> FALSE, inWindow |-> TRUE,
                         nextOpen |-> Max(PrevTicks(now)),
                         windowEnd |-> Max(PrevTicks(now)) + TimeoutMinutes]
    BY <1>1, <1>2 DEF Evaluate
  <2> QED
    BY <1>2, <2>1 DEF WindowStart
<1>3. CASE ~InWindow(now)
  BY <1>1, <1>3 DEF Evaluate
<1> QED
  BY <1>2, <1>3

\* A record that started by now, not before the open window, is of that window.
LEMMA InOpenWindow ==
    ASSUME NEW now \in Nat, NEW s \in Nat, s <= now,
           InWindow(now), WindowStart(now) <= s
    PROVE  SameWindow(s, now)
<1>1. /\ WindowStart(now) \in PrevTicks(now) /\ WindowStart(now) \in Nat
      /\ \A u \in PrevTicks(now) : u <= WindowStart(now)
  BY WindowStartIsLast DEF InWindow
<1>2. WindowStart(now) \in PrevTicks(s) /\ PrevTicks(s) \subseteq PrevTicks(now)
  BY <1>1, TickProperties, TicksGrow
<1>3. WindowStart(s) = WindowStart(now)
  <2>1. /\ WindowStart(s) \in PrevTicks(s) /\ WindowStart(s) \in Nat
        /\ \A u \in PrevTicks(s) : u <= WindowStart(s)
    BY <1>2, WindowStartIsLast
  <2> QED
    BY <1>1, <1>2, <2>1
<1>4. InWindow(s)
  BY <1>1, <1>2, <1>3, TimeoutAssumption DEF InWindow
<1> QED
  BY <1>3, <1>4 DEF SameWindow

-----------------------------------------------------------------------------
\* What the operations make of a policy

LEMMA HistoryRecords ==
    ASSUME NEW policy \in PolicyStatusType
    PROVE  LET h == policy.maintenanceHistory
           IN  /\ h \in Seq(MaintenanceRecord)
               /\ Len(h) \in Nat
               /\ DOMAIN h = 1 .. Len(h)
               /\ h # << >> <=> Len(h) # 0
               /\ \A i \in DOMAIN h : h[i] \in MaintenanceRecord
<1>1. policy.maintenanceHistory \in Seq(MaintenanceRecord)
  BY DEF PolicyStatusType
<1> QED
  BY <1>1, ElementOfSeq, LenProperties, EmptySeq

\* The record in progress that findInProgressRecord returns is the newest one.
LEMMA OpenRunIsNewest ==
    ASSUME NEW policy \in PolicyStatusType, Orderly(policy)
    PROVE  /\ HasOpenRun(policy) <=> RunInProgress(policy)
           /\ ~RunInProgress(policy) => InProgressRecords(policy) = {}
           /\ RunInProgress(policy) =>
                /\ FindInProgressRecord(policy) = Len(policy.maintenanceHistory)
                /\ Len(policy.maintenanceHistory) \in Nat \ {0}
                /\ OpenRun(policy) = Newest(policy)
                /\ Newest(policy) \in MaintenanceRecord
<1> DEFINE h == policy.maintenanceHistory
<1>1. /\ Len(h) \in Nat /\ DOMAIN h = 1 .. Len(h) /\ (h # << >> <=> Len(h) # 0)
      /\ \A i \in DOMAIN h : h[i] \in MaintenanceRecord
  BY HistoryRecords
<1>2. /\ \A i \in DOMAIN h : h[i].status = "InProgress" => i = Len(h)
      /\ IsConditionTrue(policy, "MaintenanceInProgress") <=> RunInProgress(policy)
  BY DEF Orderly
<1>3. InProgressRecords(policy) = IF RunInProgress(policy) THEN {Len(h)} ELSE {}
  BY <1>1, <1>2 DEF InProgressRecords, RunInProgress, Newest
<1>4. FindInProgressRecord(policy) = 0 <=> ~RunInProgress(policy)
  BY <1>3, FindInProgress
<1>5. RunInProgress(policy) => FindInProgressRecord(policy) = Len(h)
  BY <1>3, <1>4, FindInProgress
<1>6. RunInProgress(policy) => Len(h) \in DOMAIN h
  BY <1>1 DEF RunInProgress
<1> QED
  BY <1>1, <1>2, <1>3, <1>4, <1>5, <1>6 DEF HasOpenRun, OpenRun, Newest

\* Nothing about runs changes as long as the history and the two conditions do
\* not.
LEMMA CarriedRun ==
    ASSUME NEW p, NEW q, Carried(p, q)
    PROVE  /\ Orderly(q) <=> Orderly(p)
           /\ RunInProgress(q) <=> RunInProgress(p)
           /\ Newest(q) = Newest(p)
BY DEF Carried, SameCondition, Orderly, RunInProgress, Newest

\* What a reconcile makes of the policy in hand it makes of the one it read.
LEMMA CarriedReconciled ==
    ASSUME NEW p, NEW q, NEW r, NEW t, Carried(p, q),
           \/ q.currentMemory = p.currentMemory /\ Reconciled(q, r, t)
           \/ /\ CurrentIsRead(p, q)
              /\ Skipped(q, r, t) \/ Started(q, r, t) \/ NotStarted(q, r)
    PROVE  Reconciled(p, r, t)
<1>1. /\ q.maintenanceHistory = p.maintenanceHistory
      /\ RunInProgress(q) <=> RunInProgress(p)
      /\ Newest(q) = Newest(p)
      /\ \A type \in {"MaintenanceInProgress", "LastMaintenanceFailed"} :
           SameCondition(q, r, type) <=> SameCondition(p, r, type)
      /\ CurrentIsRead(p, q) /\ CurrentIsRead(q, r) => CurrentIsRead(p, r)
      /\ q.currentMemory = p.currentMemory => CurrentIsRead(p, q)
  BY CarriedRun DEF Carried, SameCondition, CurrentIsRead
<1>2. CurrentIsRead(p, q)
  BY <1>1
<1>3. Skipped(q, r, t) => Skipped(p, r, t)
  BY <1>1, <1>2 DEF Skipped
<1>4. Started(q, r, t) => Started(p, r, t)
  BY <1>1, <1>2 DEF Started
<1>5. NotStarted(q, r) => NotStarted(p, r)
  BY <1>1, <1>2 DEF NotStarted
<1>6. ASSUME q.currentMemory = p.currentMemory
      PROVE  /\ Advanced(q, r) => Advanced(p, r)
             /\ Failed(q, r) => Failed(p, r)
             /\ Completed(q, r) => Completed(p, r)
             /\ Carried(q, r) /\ CurrentIsRead(q, r) => Carried(p, r) /\ CurrentIsRead(p, r)
  BY <1>1, <1>2, <1>6 DEF Advanced, Failed, Completed, Carried
<1> QED
  BY <1>3, <1>4, <1>5, <1>6 DEF Reconciled

\* Setting a condition changes nothing else.
LEMMA SetConditionFields ==
    ASSUME NEW policy \in PolicyStatusType, NEW type \in ConditionTypes,
           NEW value, NEW why
    PROVE  LET set == SetCondition(policy, type, value, why)
           IN  /\ set.maintenanceHistory = policy.maintenanceHistory
               /\ set.currentMemory = policy.currentMemory
               /\ set.memoryTarget = policy.memoryTarget
BY DEF SetCondition, PolicyStatusType

\* Showing a memory changes nothing else.
LEMMA MemoryFields ==
    ASSUME NEW policy \in PolicyStatusType, NEW memory
    PROVE  /\ LET shown == [policy EXCEPT !.currentMemory = memory]
              IN  /\ Carried(policy, shown)
                  /\ shown.currentMemory = memory
                  /\ shown.memoryTarget = policy.memoryTarget
           /\ LET aimed == [policy EXCEPT !.memoryTarget = memory]
              IN  /\ Carried(policy, aimed)
                  /\ aimed.currentMemory = policy.currentMemory
                  /\ aimed.memoryTarget = memory
BY DEF PolicyStatusType, Carried, SameCondition, IsConditionTrue
\* addMaintenanceRecord keeps the newest records, and all of them if there is
\* room.
LEMMA AddRecordGrows ==
    ASSUME NEW policy \in PolicyStatusType, NEW record \in MaintenanceRecord,
           Len(policy.maintenanceHistory) <= MaxHistory
    PROVE  LET added == AddMaintenanceRecord(policy, record)
           IN  /\ Grown(policy.maintenanceHistory, added.maintenanceHistory, record)
               /\ added.maintenanceHistory # << >>
               /\ Newest(added) = record
               /\ added.currentMemory = policy.currentMemory
               /\ \A type : SameCondition(policy, added, type)
<1> DEFINE h == policy.maintenanceHistory
           grown == Append(h, record)
           added == AddMaintenanceRecord(policy, record)
           g == added.maintenanceHistory
           cut == SubSeq(grown, Len(grown) - MaxHistory + 1, Len(grown))
<1>1. h \in Seq(MaintenanceRecord) /\ Len(h) \in Nat /\ MaxHistory \in Nat \ {0}
  BY HistoryRecords, MaxHistoryAssumption
<1>2. /\ grown \in Seq(MaintenanceRecord)
      /\ Len(grown) = Len(h) + 1
      /\ grown[Len(h) + 1] = record
      /\ \A i \in 1 .. Len(h) : grown[i] = h[i]
  BY <1>1, AppendProperties
<1>3. g = IF Len(grown) > MaxHistory THEN cut ELSE grown
  BY DEF AddMaintenanceRecord, PolicyStatusType
<1>4. added.currentMemory = policy.currentMemory
  BY DEF AddMaintenanceRecord, PolicyStatusType
<1>5. \A type : SameCondition(policy, added, type)
  BY HistoryKeepsConditions DEF SameCondition
<1>6. Grown(h, g, record) /\ Len(g) # 0 /\ g[Len(g)] = record
  <2>1. CASE Len(h) < MaxHistory
    <3>1. g = grown
      BY <1>1, <1>2, <1>3, <2>1
    <3> HIDE DEF g, grown, h
    <3>2. /\ 0 \in {0, 1}
          /\ 0 = 1 <=> Len(h) = MaxHistory
          /\ Len(g) = Len(h) + 1 - 0
          /\ \A i \in 0 + 1 .. Len(h) : g[i - 0] = h[i]
          /\ g[Len(g)] = record
      BY <1>1, <1>2, <2>1, <3>1
    <3> QED
      BY <1>1, <3>2 DEF Grown
  <2>2. CASE Len(h) = MaxHistory
    <3>1. g = cut /\ Len(grown) - MaxHistory + 1 = 2 /\ Len(grown) = MaxHistory + 1
      BY <1>1, <1>2, <1>3, <2>2
    <3>2. /\ Len(cut) = MaxHistory
          /\ \A i \in 1 .. MaxHistory : cut[i] = grown[1 + i]
      <4>1. cut = SubSeq(grown, 2, MaxHistory + 1)
        BY <3>1
      <4> HIDE DEF grown, cut
      <4>2. \A i \in 2 .. MaxHistory + 1 : grown[i] \in MaintenanceRecord
        BY <1>1, <1>2, <3>1, ElementOfSeq
      <4>3. /\ Len(SubSeq(grown, 2, MaxHistory + 1)) = MaxHistory
            /\ \A i \in 1 .. MaxHistory :
                 SubSeq(grown, 2, MaxHistory + 1)[i] = grown[2 + i - 1]
        BY <1>1, <4>2, SubSeqProperties
      <4> QED
        BY <1>1, <4>1, <4>3
    <3> HIDE DEF g, grown, h, cut
    <3>3. /\ 1 \in {0, 1}
          /\ 1 = 1 <=> Len(h) = MaxHistory
          /\ Len(g) = Len(h) + 1 - 1
          /\ \A i \in 1 + 1 .. Len(h) : g[i - 1] = h[i]
          /\ g[Len(g)] = record
      BY <1>1, <1>2, <2>2, <3>1, <3>2
    <3> QED
      BY <1>1, <2>2, <3>3 DEF Grown
  <2> QED
    BY <1>1, <2>1, <2>2
<1>7. g # << >>
  BY <1>2, <1>3, <1>6, EmptySeq
<1> QED
  BY <1>4, <1>5, <1>6, <1>7 DEF Newest

\* markRecordCompleted writes the outcome to the newest record.
LEMMA MarkReplacesNewest ==
    ASSUME NEW policy \in PolicyStatusType, Orderly(policy), NEW outcome
    PROVE  LET marked == MarkRecordCompleted(policy, outcome)
           IN  /\ RunInProgress(policy) =>
                    NewestReplaced(policy.maintenanceHistory, marked.maintenanceHistory,
                                   [Newest(policy) EXCEPT !.status = outcome])
               /\ ~RunInProgress(policy) => marked = policy
               /\ marked.currentMemory = policy.currentMemory
               /\ \A type : SameCondition(policy, marked, type)
<1> DEFINE h == policy.maintenanceHistory
           f == FindInProgressRecord(policy)
           marked == MarkRecordCompleted(policy, outcome)
<1>1. \A type : SameCondition(policy, marked, type)
  BY HistoryKeepsConditions DEF SameCondition
<1>2. CASE RunInProgress(policy)
  <2>1. f = Len(h) /\ f # 0
    BY <1>2, OpenRunIsNewest
  <2>2. marked = [policy EXCEPT !.maintenanceHistory =
                    [h EXCEPT ![f] = [h[f] EXCEPT !.status = outcome]]]
    BY <2>1 DEF MarkRecordCompleted
  <2>3. /\ marked.maintenanceHistory = [h EXCEPT ![f] = [h[f] EXCEPT !.status = outcome]]
        /\ marked.currentMemory = policy.currentMemory
    BY <2>2 DEF PolicyStatusType
  <2> QED
    BY <1>1, <1>2, <2>1, <2>3 DEF NewestReplaced, RunInProgress, Newest
<1>3. CASE ~RunInProgress(policy)
  <2>1. f = 0
    BY <1>3, OpenRunIsNewest, FindInProgress
  <2> QED
    BY <1>1, <1>3, <2>1 DEF MarkRecordCompleted
<1> QED
  BY <1>2, <1>3

\* failMaintenance ends the run in progress, or reports that none was started.
LEMMA FailMaintenanceReconciles ==
    ASSUME NEW policy \in PolicyStatusType, Orderly(policy)
    PROVE  /\ RunInProgress(policy) => Failed(policy, FailMaintenance(policy))
           /\ ~RunInProgress(policy) => NotStarted(policy, FailMaintenance(policy))
<1> DEFINE marked  == MarkRecordCompleted(policy, "Failed")
           cleared == SetCondition(marked, "MaintenanceInProgress", "False",
                                   "MaintenanceFailed")
           failed  == SetCondition(cleared, "LastMaintenanceFailed", "True",
                                   "MaintenanceFailed")
<1>1. /\ "MaintenanceInProgress" \in ConditionTypes
      /\ "LastMaintenanceFailed" \in ConditionTypes
      /\ "MaintenanceFailed" \in ConditionReasons
      /\ "Failed" \in MaintenanceStatus
  BY DEF ConditionTypes, ConditionReasons, MaintenanceStatus
<1>2. marked \in PolicyStatusType
  BY <1>1, MarkRecordType
<1>3. cleared \in PolicyStatusType
  BY <1>1, <1>2, SetConditionType
<1>4. /\ failed.maintenanceHistory = marked.maintenanceHistory
      /\ failed.currentMemory = marked.currentMemory
  BY <1>1, <1>2, <1>3, SetConditionFields
<1>5. /\ ~IsConditionTrue(failed, "MaintenanceInProgress")
      /\ IsConditionTrue(failed, "LastMaintenanceFailed")
  <2>1. ~IsConditionTrue(cleared, "MaintenanceInProgress")
    BY <1>1, <1>2, SetConditionValue
  <2> HIDE DEF cleared
  <2> QED
    BY <1>1, <1>3, <2>1, SetConditionValue
<1>6. FailMaintenance(policy) = failed
  BY DEF FailMaintenance
<1>7. marked.currentMemory = policy.currentMemory
  BY MarkReplacesNewest
<1> HIDE DEF failed, cleared
<1>8. CASE RunInProgress(policy)
  <2>1. NewestReplaced(policy.maintenanceHistory, marked.maintenanceHistory,
                       [Newest(policy) EXCEPT !.status = "Failed"])
    BY <1>8, MarkReplacesNewest
  <2> HIDE DEF marked
  <2> QED
    BY <1>4, <1>5, <1>6, <1>7, <1>8, <2>1 DEF Failed
<1>9. CASE ~RunInProgress(policy)
  <2>1. marked = policy
    BY <1>9, MarkReplacesNewest
  <2> HIDE DEF marked
  <2> QED
    BY <1>4, <1>5, <1>6, <1>9, <2>1 DEF NotStarted, CurrentIsRead
<1> QED
  BY <1>8, <1>9
\* The phase of a run that has done all it had to do.
LEMMA CompleteMaintenanceReconciles ==
    ASSUME NEW policy \in PolicyStatusType, Orderly(policy), RunInProgress(policy),
           Newest(policy).phase =
             IF PostActions = << >> THEN "PatchApplied" ELSE "PostActionsTriggered"
    PROVE  Completed(policy, CompleteMaintenance(policy))
<1> DEFINE memory == OpenRun(policy).appliedMemory
           paid == [policy EXCEPT !.currentMemory = memory]
           marked == MarkRecordCompleted(paid, "Completed")
           cleared == SetCondition(marked, "MaintenanceInProgress", "False",
                                   "MaintenanceCompleted")
           done == SetCondition(cleared, "LastMaintenanceFailed", "False",
                                "MaintenanceSucceeded")
<1>1. /\ "MaintenanceInProgress" \in ConditionTypes
      /\ "LastMaintenanceFailed" \in ConditionTypes
      /\ {"MaintenanceCompleted", "MaintenanceSucceeded"} \subseteq ConditionReasons
      /\ "Completed" \in MaintenanceStatus
  BY DEF ConditionTypes, ConditionReasons, MaintenanceStatus
<1>2. /\ HasOpenRun(policy) /\ OpenRun(policy) = Newest(policy)
      /\ memory \in OptionalMemory
  BY OpenRunIsNewest, OpenRunType DEF MaintenanceRecord
<1> HIDE DEF memory
<1>3. paid \in PolicyStatusType /\ Carried(policy, paid) /\ paid.currentMemory = memory
  BY <1>2, MemoryFieldType, MemoryFields
<1> HIDE DEF paid
<1>4. Orderly(paid) /\ RunInProgress(paid) /\ Newest(paid) = Newest(policy)
      /\ paid.maintenanceHistory = policy.maintenanceHistory
  BY <1>3, CarriedRun DEF Carried
<1>5. /\ NewestReplaced(paid.maintenanceHistory, marked.maintenanceHistory,
                        [Newest(paid) EXCEPT !.status = "Completed"])
      /\ marked.currentMemory = memory
  BY <1>3, <1>4, MarkReplacesNewest
<1>6. marked \in PolicyStatusType
  BY <1>1, <1>3, MarkRecordType
<1> HIDE DEF marked
<1>7. cleared \in PolicyStatusType
  BY <1>1, <1>6, SetConditionType
<1>8. /\ done.maintenanceHistory = marked.maintenanceHistory
      /\ done.currentMemory = marked.currentMemory
  BY <1>1, <1>6, <1>7, SetConditionFields
<1>9. ~IsConditionTrue(cleared, "MaintenanceInProgress")
  BY <1>1, <1>6, SetConditionValue
<1> HIDE DEF cleared
<1>10. /\ ~IsConditionTrue(done, "MaintenanceInProgress")
       /\ ~IsConditionTrue(done, "LastMaintenanceFailed")
  BY <1>1, <1>7, <1>9, SetConditionValue
<1>11. CompleteMaintenance(policy) = done
  BY DEF CompleteMaintenance, done, cleared, marked, paid, memory
<1> HIDE DEF done
<1> QED
  BY <1>2, <1>4, <1>5, <1>8, <1>10, <1>11 DEF Completed, memory

\* Once all workloads are restarted the run is in its second phase.
LEMMA AdvancePhaseReconciles ==
    ASSUME NEW policy \in PolicyStatusType, Orderly(policy), RunInProgress(policy),
           Newest(policy).phase = "PatchApplied", PostActions # << >>
    PROVE  Advanced(policy, AdvancePhase(policy))
<1> DEFINE h == policy.maintenanceHistory
           f == FindInProgressRecord(policy)
           g == [h EXCEPT ![f] = [h[f] EXCEPT !.phase = "PostActionsTriggered"]]
           advanced == AdvancePhase(policy)
<1>1. f = Len(h) /\ h # << >>
  BY OpenRunIsNewest DEF RunInProgress
<1>2. advanced = [policy EXCEPT !.maintenanceHistory = g]
  BY DEF AdvancePhase
<1> HIDE DEF g, advanced
<1>3. /\ advanced.maintenanceHistory = g
      /\ advanced.currentMemory = policy.currentMemory
      /\ advanced.conditions = policy.conditions
  BY <1>2 DEF PolicyStatusType
<1>4. NewestReplaced(h, g, [Newest(policy) EXCEPT !.phase = "PostActionsTriggered"])
  BY <1>1 DEF NewestReplaced, Newest, g
<1> QED
  BY <1>3, <1>4 DEF Advanced, SameCondition, IsConditionTrue, advanced

LEMMA SkipMaintenanceReconciles ==
    ASSUME NEW policy \in PolicyStatusType, Orderly(policy), ~RunInProgress(policy),
           clock \in Nat, WindowIsFree(policy.maintenanceHistory, clock)
    PROVE  Skipped(policy, SkipMaintenance(policy), clock)
<1> DEFINE record == [startedAt |-> clock, status |-> "Skipped",
                      phase |-> "", appliedMemory |-> NoMemory]
<1>1. record \in MaintenanceRecord
  BY DEF MaintenanceRecord, MaintenanceStatus, MaintenancePhase, OptionalMemory
<1>2. SkipMaintenance(policy) = AddMaintenanceRecord(policy, record)
  BY DEF SkipMaintenance
<1>3. Len(policy.maintenanceHistory) <= MaxHistory
  BY DEF Orderly
<1> QED
  BY <1>1, <1>2, <1>3, AddRecordGrows DEF Skipped, CurrentIsRead

\* Only the condition that a run is in progress, which is false already, is
\* written in addition when a gate blocks.
LEMMA BlockedReconciles ==
    ASSUME NEW policy \in PolicyStatusType, Orderly(policy), ~RunInProgress(policy),
           clock \in Nat, WindowIsFree(policy.maintenanceHistory, clock),
           NEW why \in ConditionReasons
    PROVE  Skipped(policy,
                   SetCondition(SkipMaintenance(policy),
                                "MaintenanceInProgress", "False", why), clock)
<1> DEFINE skipped == SkipMaintenance(policy)
           blocked == SetCondition(skipped, "MaintenanceInProgress", "False", why)
<1>1. /\ "MaintenanceInProgress" \in ConditionTypes
      /\ "LastMaintenanceFailed" \in ConditionTypes
  BY DEF ConditionTypes
<1>2. skipped \in PolicyStatusType /\ Skipped(policy, skipped, clock)
  BY SkipMaintenanceType, SkipMaintenanceReconciles
<1> HIDE DEF skipped
<1>3. /\ blocked.maintenanceHistory = skipped.maintenanceHistory
      /\ blocked.currentMemory = skipped.currentMemory
  BY <1>1, <1>2, SetConditionFields
<1>4. /\ ~IsConditionTrue(blocked, "MaintenanceInProgress")
      /\ IsConditionTrue(blocked, "LastMaintenanceFailed")
         <=> IsConditionTrue(skipped, "LastMaintenanceFailed")
  BY <1>1, <1>2, SetConditionValue
<1>5. ~IsConditionTrue(policy, "MaintenanceInProgress")
  BY DEF Orderly
<1> HIDE DEF blocked
<1>6. Skipped(policy, blocked, clock)
  BY <1>2, <1>3, <1>4, <1>5 DEF Skipped, SameCondition, CurrentIsRead
<1> QED
  BY <1>6 DEF blocked, skipped

LEMMA RecordStartReconciles ==
    ASSUME NEW policy \in PolicyStatusType, Orderly(policy), ~RunInProgress(policy),
           clock \in Nat, WindowIsFree(policy.maintenanceHistory, clock),
           policy.memoryTarget \in Nat
    PROVE  /\ Started(policy, RecordStart(policy), clock)
           /\ RunInProgress(RecordStart(policy))
           /\ Newest(RecordStart(policy)).appliedMemory = policy.memoryTarget
<1> DEFINE record == [startedAt |-> clock, status |-> "InProgress",
                      phase |-> "PatchApplied", appliedMemory |-> policy.memoryTarget]
           begun == SetCondition(policy, "MaintenanceInProgress", "True",
                                 "MaintenanceStarted")
           started == AddMaintenanceRecord(begun, record)
<1>1. /\ "MaintenanceInProgress" \in ConditionTypes
      /\ "LastMaintenanceFailed" \in ConditionTypes
      /\ "MaintenanceStarted" \in ConditionReasons
  BY DEF ConditionTypes, ConditionReasons
<1>2. record \in MaintenanceRecord
  BY DEF MaintenanceRecord, MaintenanceStatus, MaintenancePhase, OptionalMemory
<1>3. /\ begun \in PolicyStatusType
      /\ begun.maintenanceHistory = policy.maintenanceHistory
      /\ begun.currentMemory = policy.currentMemory
  BY <1>1, SetConditionType, SetConditionFields
<1>4. /\ IsConditionTrue(begun, "MaintenanceInProgress")
      /\ SameCondition(policy, begun, "LastMaintenanceFailed")
  BY <1>1, SetConditionValue DEF SameCondition
<1>5. RecordStart(policy) = started
  BY DEF RecordStart
<1>6. Len(begun.maintenanceHistory) <= MaxHistory
  BY <1>3 DEF Orderly
<1> HIDE DEF begun
<1>7. /\ Grown(begun.maintenanceHistory, started.maintenanceHistory, record)
      /\ started.maintenanceHistory # << >>
      /\ Newest(started) = record
      /\ started.currentMemory = begun.currentMemory
      /\ \A type : SameCondition(begun, started, type)
  BY <1>2, <1>3, <1>6, AddRecordGrows
<1>8. /\ IsConditionTrue(started, "MaintenanceInProgress")
      /\ SameCondition(policy, started, "LastMaintenanceFailed")
  BY <1>4, <1>7 DEF SameCondition
<1> HIDE DEF started
<1>9. Started(policy, started, clock)
  BY <1>3, <1>7, <1>8 DEF Started, CurrentIsRead
<1>10. RunInProgress(started) /\ Newest(started).appliedMemory = policy.memoryTarget
  BY <1>7 DEF RunInProgress
<1> QED
  BY <1>5, <1>9, <1>10
\* Reading the recommendation touches nothing about runs.
LEMMA SyncedCarried ==
    ASSUME TypeOK, RecommendationReady
    PROVE  /\ Carried(pol, Synced)
           /\ Synced.currentMemory = pol.currentMemory
           /\ Synced.memoryTarget = Recommendation(vpa)
           /\ vpa \in Nat
<1> DEFINE ready == SetCondition(pol, "VPARecommendationReady", "True", "Ready")
<1>1. /\ ConditionTypes = {"VPARecommendationReady", "MaintenanceInProgress",
                           "LastMaintenanceFailed"}
      /\ "Ready" \in ConditionReasons
      /\ pol \in PolicyStatusType
  BY DEF ConditionTypes, ConditionReasons, TypeOK
<1>2. /\ ready \in PolicyStatusType
      /\ ready.maintenanceHistory = pol.maintenanceHistory
      /\ ready.currentMemory = pol.currentMemory
  BY <1>1, SetConditionType, SetConditionFields
<1>3. /\ SameCondition(pol, ready, "MaintenanceInProgress")
      /\ SameCondition(pol, ready, "LastMaintenanceFailed")
  BY <1>1, SetConditionValue DEF SameCondition
<1>4. Synced = [ready EXCEPT !.memoryTarget = Recommendation(vpa)]
  BY DEF Synced
<1> HIDE DEF ready
<1>5. /\ Carried(ready, Synced)
      /\ Synced.currentMemory = ready.currentMemory
      /\ Synced.memoryTarget = Recommendation(vpa)
  BY <1>2, <1>4, MemoryFields
<1> QED
  BY <1>2, <1>3, <1>5 DEF Carried, SameCondition, TypeOK, RecommendationReady

\* Nor does showing the memory that was read.
LEMMA ObservedCarried ==
    ASSUME TypeOK
    PROVE  /\ Carried(pol, Observed)
           /\ CurrentIsRead(pol, Observed)
           /\ Observed.memoryTarget = pol.memoryTarget
<1>1. pol \in PolicyStatusType /\ cur \in Nat \cup {NoMemory}
  BY DEF TypeOK, OptionalMemory
<1>2. CASE cur = NoMemory
  BY <1>2 DEF Observed, Carried, SameCondition, CurrentIsRead
<1>3. CASE cur # NoMemory
  BY <1>1, <1>3, MemoryFields DEF Observed, CurrentIsRead
<1> QED
  BY <1>2, <1>3

\* hasCompletedMaintenanceInWindow finds every completed run of the open window.
LEMMA GuardSeesWindow ==
    ASSUME NEW policy \in PolicyStatusType, clock \in Nat,
           StartedBy(policy.maintenanceHistory, clock), Evaluate(clock).inWindow,
           ~HasCompletedMaintenanceInWindow(policy, Evaluate(clock).nextOpen,
                                            Evaluate(clock).windowEnd)
    PROVE  WindowIsFree(policy.maintenanceHistory, clock)
<1> DEFINE h == policy.maintenanceHistory
<1>1. /\ InWindow(clock)
      /\ Evaluate(clock).nextOpen = WindowStart(clock)
      /\ Evaluate(clock).windowEnd = WindowStart(clock) + TimeoutMinutes
  BY EvaluateInWindow
<1>2. ASSUME NEW i \in DOMAIN h, h[i].status = "Completed",
             SameWindow(h[i].startedAt, clock)
      PROVE  FALSE
  <2>1. h[i].startedAt \in Nat
    BY HistoryRecords DEF MaintenanceRecord
  <2>2. /\ PrevTicks(h[i].startedAt) # {}
        /\ WindowStart(h[i].startedAt) = WindowStart(clock)
        /\ h[i].startedAt < WindowStart(h[i].startedAt) + TimeoutMinutes
    BY <1>2 DEF SameWindow, InWindow
  <2>3. WindowStart(h[i].startedAt) <= h[i].startedAt
    BY <2>1, <2>2, WindowStartIsLast
  <2> QED
    BY <1>1, <1>2, <2>2, <2>3 DEF HasCompletedMaintenanceInWindow
<1> QED
  BY <1>2 DEF WindowIsFree

-----------------------------------------------------------------------------
\* What a reconcile is about to persist

\* What is known of the policy in hand until the reconcile has decided.
LEMMA InHand ==
    ASSUME TypeInv, ConsistencyInv, ReconcileInv, pc \notin {"idle", "persist"}
    PROVE  /\ pol \in PolicyStatusType /\ base \in PolicyStatusType
           /\ base = status /\ clock \in Nat
           /\ Carried(base, pol) /\ pol.currentMemory = base.currentMemory
           /\ Orderly(base) /\ Orderly(pol)
           /\ StartedBy(base.maintenanceHistory, clock)
           /\ RunInProgress(pol) <=> RunInProgress(base)
           /\ Newest(pol) = Newest(base)
           /\ pol.maintenanceHistory = base.maintenanceHistory
           /\ pc \in RunCalls => RunInProgress(base) /\ OpenRun(pol) = Newest(base)
           /\ pc \in StartCalls => ~RunInProgress(base)
<1>1. /\ pol \in PolicyStatusType /\ base \in PolicyStatusType /\ clock \in Nat
      /\ pc \in RunCalls => HasOpenRun(pol)
  BY DEF TypeInv, TypeOK
<1>2. /\ base = status
      /\ pc \in StartCalls => InProgressRecords(pol) = {}
  BY DEF ConsistencyInv
<1>3. /\ Carried(base, pol) /\ pol.currentMemory = base.currentMemory
      /\ Orderly(base)
      /\ StartedBy(base.maintenanceHistory, clock)
  BY <1>2 DEF ReconcileInv
<1>4. /\ Orderly(pol)
      /\ RunInProgress(pol) <=> RunInProgress(base)
      /\ Newest(pol) = Newest(base)
      /\ pol.maintenanceHistory = base.maintenanceHistory
  BY <1>3, CarriedRun DEF Carried
<1>5. /\ HasOpenRun(pol) => RunInProgress(pol) /\ OpenRun(pol) = Newest(pol)
      /\ RunInProgress(pol) => FindInProgressRecord(pol) # 0
  BY <1>1, <1>4, OpenRunIsNewest
<1>6. InProgressRecords(pol) = {} => FindInProgressRecord(pol) = 0
  BY <1>1, FindInProgress
<1> QED
  BY <1>1, <1>2, <1>3, <1>4, <1>5, <1>6

\* A call that ends the reconcile has to make of the policy in hand what one
\* reconcile may make of it.
LEMMA DecisionKeepsInv ==
    ASSUME TypeInv, ConsistencyInv, ReconcileInv, pc \notin {"idle", "persist"},
           pc' = "persist", UNCHANGED <<clock, status, base>>,
           \/ Reconciled(pol, pol', clock)
           \/ Carried(pol, pol') /\ pol'.currentMemory = pol.currentMemory
           \/ \E seen : /\ Carried(pol, seen) /\ CurrentIsRead(pol, seen)
                        /\ \/ Skipped(seen, pol', clock)
                           \/ Started(seen, pol', clock)
                           \/ NotStarted(seen, pol')
    PROVE  ReconcileInv'
<1>1. Reconciled(pol, pol', clock)
  <2>1. CASE Carried(pol, pol') /\ pol'.currentMemory = pol.currentMemory
    BY <2>1 DEF Reconciled, CurrentIsRead
  <2>2. ASSUME NEW seen, Carried(pol, seen), CurrentIsRead(pol, seen),
               \/ Skipped(seen, pol', clock)
               \/ Started(seen, pol', clock)
               \/ NotStarted(seen, pol')
        PROVE  Reconciled(pol, pol', clock)
    BY <2>2, CarriedReconciled
  <2> QED
    BY <2>1, <2>2
<1>2. Reconciled(base, pol', clock)
  BY <1>1, InHand, CarriedReconciled
<1>3. clock \in 0 .. clock /\ StartedBy(base.maintenanceHistory, clock)
  BY InHand
<1>4. \E t \in 0 .. clock' :
         StartedBy(base'.maintenanceHistory, t) /\ Reconciled(base', pol', t)
  BY <1>2, <1>3
<1>5. Orderly(status') /\ StartedBy(status'.maintenanceHistory, clock')
  BY DEF ReconcileInv
<1> QED
  BY <1>4, <1>5 DEF ReconcileInv, StartCalls

\* One that does not leaves it what it was.
LEMMA CallKeepsInv ==
    ASSUME TypeInv, ConsistencyInv, ReconcileInv, pc \notin {"idle", "persist"},
           pc' \notin {"idle", "persist"}, UNCHANGED <<clock, status, base>>,
           Carried(pol, pol'), pol'.currentMemory = pol.currentMemory,
           pc' = "bootstrap" => InitialMemory \in Nat,
           pc' \in StartCalls =>
             /\ pol'.memoryTarget \in Nat
             /\ WindowIsFree(base.maintenanceHistory, clock),
           pc' = "trigger" => Newest(base).phase = "PatchApplied" /\ PostActions # << >>,
           pc' = "expiredRollouts" => Newest(base).phase = "PostActionsTriggered"
    PROVE  ReconcileInv'
<1>1. Carried(base', pol') /\ pol'.currentMemory = base'.currentMemory
  BY InHand DEF Carried, SameCondition
<1>2. Orderly(status') /\ StartedBy(status'.maintenanceHistory, clock')
  BY DEF ReconcileInv
<1> QED
  BY <1>1, <1>2 DEF ReconcileInv
\* The calls up to the window check.
LEMMA ReadsKeepInv ==
    ASSUME TypeInv, ConsistencyInv, ReconcileInv,
           \/ GetCurrentMemory \/ Bootstrap \/ ReadNoRecommendation
           \/ WindowEvaluationFails \/ ResumeRun \/ ConsiderRun
    PROVE  ReconcileInv'
<1> USE DEF world
<1>1. TypeOK /\ pol \in PolicyStatusType
  BY DEF TypeInv, TypeOK
<1>2. Carried(pol, pol)
  BY DEF Carried, SameCondition
<1>3. CASE GetCurrentMemory
  <2>1. /\ pol' = pol /\ UNCHANGED <<clock, status, base>> /\ pc = "getMemory"
        /\ pc' \in {"persist", "bootstrap", "readVPA"}
    BY <1>3 DEF GetCurrentMemory, GoTo, Return
  <2>2. CASE pc' = "persist"
    BY <1>2, <2>1, <2>2, DecisionKeepsInv
  <2>3. CASE pc' # "persist"
    <3>1. pc' = "bootstrap" => InitialMemory \in Nat
      BY <1>3, InitialMemoryAssumption DEF GetCurrentMemory, GoTo, Return, OptionalMemory
    <3> QED
      BY <1>2, <2>1, <2>3, <3>1, CallKeepsInv DEF StartCalls
  <2> QED
    BY <2>2, <2>3
<1>4. CASE Bootstrap
  <2>1. /\ \/ pol' = pol
           \/ pol' = [pol EXCEPT !.currentMemory = InitialMemory]
        /\ UNCHANGED <<clock, status, base>> /\ pc = "bootstrap" /\ pc' = "persist"
    BY <1>4 DEF Bootstrap, GoTo, Return
  <2>2. CASE pol' = pol
    BY <1>2, <2>1, <2>2, DecisionKeepsInv
  <2>3. CASE pol' = [pol EXCEPT !.currentMemory = InitialMemory]
    <3>1. Carried(pol, pol') /\ pol'.currentMemory = InitialMemory
      BY <1>1, <2>3, MemoryFields
    <3>2. InitialMemory \in Nat
      BY <2>1 DEF ReconcileInv
    <3> QED
      BY <2>1, <3>1, <3>2, DecisionKeepsInv DEF Reconciled, CurrentIsRead
  <2> QED
    BY <2>1, <2>2, <2>3
<1>5. CASE ReadNoRecommendation
  <2>1. /\ \/ pol' = pol
           \/ \E why \in ConditionReasons :
                pol' = SetCondition(pol, "VPARecommendationReady", "False", why)
        /\ UNCHANGED <<clock, status, base>> /\ pc = "readVPA" /\ pc' = "persist"
    BY <1>5 DEF ReadNoRecommendation, GoTo, Return, ConditionReasons
  <2>2. ASSUME NEW why,
               pol' = SetCondition(pol, "VPARecommendationReady", "False", why)
        PROVE  Carried(pol, pol') /\ pol'.currentMemory = pol.currentMemory
    BY <1>1, <2>2, SetConditionFields, SetConditionValue
       DEF Carried, SameCondition, ConditionTypes
  <2>3. Carried(pol, pol') /\ pol'.currentMemory = pol.currentMemory
    BY <1>2, <2>1, <2>2
  <2> QED
    BY <2>1, <2>3, DecisionKeepsInv
<1>6. CASE WindowEvaluationFails \/ ResumeRun
  <2>1. /\ pol' = Synced /\ RecommendationReady
        /\ UNCHANGED <<clock, status, base>> /\ pc = "readVPA"
        /\ pc' \in {"persist", "monitor", "expired"}
    BY <1>6 DEF WindowEvaluationFails, ResumeRun, GoTo, Return
  <2>2. Carried(pol, pol') /\ pol'.currentMemory = pol.currentMemory
    BY <1>1, <2>1, SyncedCarried
  <2>3. CASE pc' = "persist"
    BY <2>1, <2>2, <2>3, DecisionKeepsInv
  <2>4. CASE pc' # "persist"
    BY <2>1, <2>2, <2>4, CallKeepsInv DEF StartCalls
  <2> QED
    BY <2>3, <2>4
<1>7. CASE ConsiderRun
  <2>1. /\ UNCHANGED <<clock, status, base>> /\ pc = "readVPA"
        /\ pc' \in {"persist", "healthGate", "start"}
        /\ RecommendationReady /\ ~HasOpenRun(Synced)
        /\ pol' = ClearStaleCondition(Synced)
    BY <1>7 DEF ConsiderRun, GoTo
  <2>2. /\ Synced \in PolicyStatusType /\ Carried(pol, Synced)
        /\ Synced.currentMemory = pol.currentMemory
        /\ Synced.memoryTarget = Recommendation(vpa)
        /\ vpa \in Nat
    BY <1>1, <2>1, SyncedType, SyncedCarried
  <2>3. Orderly(Synced)
    BY <2>1, <2>2, InHand, CarriedRun
  <2>4. pol' = Synced
    BY <2>1, <2>2, <2>3, OpenRunIsNewest DEF ClearStaleCondition, Orderly
  <2>5. CASE pc' = "persist"
    BY <2>1, <2>2, <2>4, <2>5, DecisionKeepsInv
  <2>6. CASE pc' # "persist"
    <3>1. /\ Evaluate(clock).inWindow
          /\ ~HasCompletedMaintenanceInWindow(Synced, Evaluate(clock).nextOpen,
                                              Evaluate(clock).windowEnd)
      BY <1>7, <2>1, <2>4, <2>6 DEF ConsiderRun, GoTo
    <3>2. /\ Synced.maintenanceHistory = base.maintenanceHistory
          /\ StartedBy(Synced.maintenanceHistory, clock) /\ clock \in Nat
      BY <2>1, <2>2, InHand DEF Carried
    <3>3. WindowIsFree(base.maintenanceHistory, clock)
      BY <2>2, <3>1, <3>2, GuardSeesWindow
    <3>4. pol'.memoryTarget \in Nat
      BY <2>2, <2>4, RecommendationType
    <3> QED
      BY <2>1, <2>2, <2>4, <2>6, <3>3, <3>4, CallKeepsInv
  <2> QED
    BY <2>5, <2>6
<1> QED
  BY <1>3, <1>4, <1>5, <1>6, <1>7

\* The calls towards a new run.
LEMMA StartsKeepInv ==
    ASSUME TypeInv, ConsistencyInv, ReconcileInv,
           CheckHealthGate \/ ChangeGateBlocks \/ StartMaintenance
    PROVE  ReconcileInv'
<1> USE DEF world
<1>1. /\ TypeOK /\ pc \in StartCalls /\ UNCHANGED <<clock, status, base>>
      /\ pc' \in {"persist", "start"}
    BY DEF TypeInv, StartCalls, CheckHealthGate, ChangeGateBlocks, StartMaintenance,
           GoTo, Return
<1>2. pc \notin {"idle", "persist"}
  BY <1>1 DEF StartCalls
<1>3. /\ pol \in PolicyStatusType /\ Orderly(pol) /\ ~RunInProgress(pol) /\ clock \in Nat
      /\ pol.maintenanceHistory = base.maintenanceHistory
  BY <1>1, <1>2, InHand
<1>4. /\ pol.memoryTarget \in Nat
      /\ WindowIsFree(pol.maintenanceHistory, clock)
  BY <1>1, <1>3 DEF ReconcileInv
<1>5. /\ Carried(pol, Observed) /\ CurrentIsRead(pol, Observed)
      /\ Observed.memoryTarget = pol.memoryTarget
      /\ Observed \in PolicyStatusType
  BY <1>1, ObservedCarried, ObservedType
<1>6. /\ Orderly(Observed) /\ ~RunInProgress(Observed)
      /\ WindowIsFree(Observed.maintenanceHistory, clock)
  BY <1>3, <1>4, <1>5, CarriedRun DEF Carried
<1>7. Carried(pol, pol)
  BY DEF Carried, SameCondition
<1>8. CASE CheckHealthGate
  <2>1. \/ pol' = pol
        \/ pol' = SkipMaintenance(pol) /\ pc' = "persist"
    BY <1>8 DEF CheckHealthGate, GoTo, Return
  <2>2. CASE pol' = pol /\ pc' = "persist"
    BY <1>1, <1>2, <1>7, <2>2, DecisionKeepsInv
  <2>3. CASE pol' = pol /\ pc' = "start"
    BY <1>1, <1>2, <1>3, <1>4, <1>7, <2>3, CallKeepsInv
  <2>4. CASE pol' = SkipMaintenance(pol) /\ pc' = "persist"
    <3>1. Reconciled(pol, pol', clock)
      BY <1>3, <1>4, <2>4, SkipMaintenanceReconciles DEF Reconciled
    <3> QED
      BY <1>1, <1>2, <2>4, <3>1, DecisionKeepsInv
  <2> QED
    BY <1>1, <2>1, <2>2, <2>3, <2>4
<1>9. CASE ChangeGateBlocks
  <2>1. /\ pol' = SetCondition(SkipMaintenance(Observed),
                               "MaintenanceInProgress", "False", Gate)
        /\ pc' = "persist"
    BY <1>9 DEF ChangeGateBlocks, GoTo, Return
  <2>2. Gate \in ConditionReasons
    BY DEF Gate, ChangeGate, ConditionReasons
  <2>3. Skipped(Observed, pol', clock)
    BY <1>3, <1>5, <1>6, <2>1, <2>2, BlockedReconciles
  <2> QED
    BY <1>1, <1>2, <1>5, <2>1, <2>3, DecisionKeepsInv
<1>10. CASE StartMaintenance
  <2>1. pol' \in {FailMaintenance(Observed), RecordStart(Observed)} /\ pc' = "persist"
    BY <1>10 DEF StartMaintenance, GoTo, Return
  <2>2. \/ NotStarted(Observed, pol')
        \/ Started(Observed, pol', clock)
    BY <1>3, <1>4, <1>5, <1>6, <2>1, FailMaintenanceReconciles, RecordStartReconciles
  <2> QED
    BY <1>1, <1>2, <1>5, <2>1, <2>2, DecisionKeepsInv
<1> QED
  BY <1>8, <1>9, <1>10

\* The calls on behalf of the run in progress.
LEMMA RunsKeepInv ==
    ASSUME TypeInv, ConsistencyInv, ReconcileInv,
           \/ MonitorCluster \/ TriggerPostAction \/ MonitorRollout
           \/ HandleWindowExpired \/ CheckExpiredRollout
    PROVE  ReconcileInv'
<1> USE DEF world
<1>1. /\ pc \in RunCalls /\ pc \notin {"idle", "persist"}
      /\ UNCHANGED <<clock, status, base>>
      /\ pc' \in RunCalls \cup {"persist"}
    BY DEF RunCalls, MonitorCluster, TriggerPostAction, MonitorRollout,
           HandleWindowExpired, CheckExpiredRollout, GoTo, Return
<1>2. /\ pol \in PolicyStatusType /\ Orderly(pol) /\ RunInProgress(pol)
      /\ Newest(pol) = Newest(base) /\ OpenRun(pol) = Newest(pol)
  BY <1>1, InHand
<1>3. Carried(pol, pol)
  BY DEF Carried, SameCondition
<1>4. /\ Newest(pol).phase \in {"PatchApplied", "PostActionsTriggered"}
      /\ Newest(pol).phase = "PostActionsTriggered" => PostActions # << >>
  BY <1>2 DEF Orderly
<1>5. CASE pol' = FailMaintenance(pol) /\ pc' = "persist"
  <2>1. Reconciled(pol, pol', clock)
    BY <1>2, <1>5, FailMaintenanceReconciles DEF Reconciled
  <2> QED
    BY <1>1, <1>5, <2>1, DecisionKeepsInv
<1>6. CASE pol' = pol /\ pc' = "persist"
  BY <1>1, <1>3, <1>6, DecisionKeepsInv
<1>7. CASE /\ pol' = CompleteMaintenance(pol) /\ pc' = "persist"
           /\ \/ Newest(pol).phase = "PatchApplied" /\ PostActions = << >>
              \/ Newest(pol).phase = "PostActionsTriggered"
  <2>1. Reconciled(pol, pol', clock)
    BY <1>2, <1>4, <1>7, CompleteMaintenanceReconciles DEF Reconciled
  <2> QED
    BY <1>1, <1>7, <2>1, DecisionKeepsInv
<1>8. CASE /\ pol' = AdvancePhase(pol) /\ pc' = "persist"
           /\ Newest(pol).phase = "PatchApplied" /\ PostActions # << >>
  <2>1. Reconciled(pol, pol', clock)
    BY <1>2, <1>8, AdvancePhaseReconciles DEF Reconciled
  <2> QED
    BY <1>1, <1>8, <2>1, DecisionKeepsInv
<1>9. CASE /\ pol' = pol /\ pc' \in RunCalls
           /\ pc' = "trigger" => Newest(base).phase = "PatchApplied" /\ PostActions # << >>
           /\ pc' = "expiredRollouts" => Newest(base).phase = "PostActionsTriggered"
  BY <1>1, <1>3, <1>9, CallKeepsInv DEF RunCalls, StartCalls
<1>10. CASE MonitorCluster
  BY <1>2, <1>5, <1>6, <1>7, <1>9, <1>10 DEF MonitorCluster, GoTo, Return, RunCalls
<1>11. CASE TriggerPostAction
  <2>1. Newest(base).phase = "PatchApplied" /\ PostActions # << >>
    BY <1>11 DEF TriggerPostAction, ReconcileInv
  <2> QED
    BY <1>2, <1>5, <1>8, <1>9, <1>11, <2>1 DEF TriggerPostAction, GoTo, Return, RunCalls
<1>12. CASE MonitorRollout
  BY <1>2, <1>6, <1>7, <1>9, <1>12 DEF MonitorRollout, GoTo, Return, RunCalls
<1>13. CASE HandleWindowExpired
  BY <1>2, <1>4, <1>5, <1>7, <1>9, <1>13 DEF HandleWindowExpired, GoTo, Return, RunCalls
<1>14. CASE CheckExpiredRollout
  <2>1. Newest(base).phase = "PostActionsTriggered"
    BY <1>14 DEF CheckExpiredRollout, ReconcileInv
  <2> QED
    BY <1>2, <1>5, <1>7, <1>9, <1>14, <2>1 DEF CheckExpiredRollout, GoTo, Return, RunCalls
<1> QED
  BY <1>10, <1>11, <1>12, <1>13, <1>14
-----------------------------------------------------------------------------
\* What one reconcile keeps

\* Where the records of a history with a record appended come from.
LEMMA GrownRecords ==
    ASSUME NEW h \in Seq(MaintenanceRecord), NEW g \in Seq(MaintenanceRecord),
           NEW rec, Len(h) <= MaxHistory, Grown(h, g, rec)
    PROVE  \E d \in {0, 1} :
             /\ d = 1 <=> Len(h) = MaxHistory
             /\ Len(g) = Len(h) + 1 - d
             /\ Len(g) \in 1 .. MaxHistory
             /\ g[Len(g)] = rec
             /\ \A j \in 1 .. Len(g) - 1 : j + d \in 1 .. Len(h) /\ g[j] = h[j + d]
<1>1. Len(h) \in Nat /\ Len(g) \in Nat /\ MaxHistory \in Nat \ {0}
  BY LenProperties, MaxHistoryAssumption
<1>2. PICK d \in {0, 1} :
        /\ d = 1 <=> Len(h) = MaxHistory
        /\ Len(g) = Len(h) + 1 - d
        /\ \A i \in d + 1 .. Len(h) : g[i - d] = h[i]
        /\ g[Len(g)] = rec
  BY DEF Grown
<1>3. ASSUME NEW j \in 1 .. Len(g) - 1
      PROVE  j + d \in 1 .. Len(h) /\ g[j] = h[j + d]
  <2>1. j + d \in d + 1 .. Len(h) /\ (j + d) - d = j /\ j + d \in 1 .. Len(h)
    BY <1>1, <1>2
  <2>2. g[(j + d) - d] = h[j + d]
    BY <1>2, <2>1
  <2> QED
    BY <2>1, <2>2
<1>4. Len(g) \in 1 .. MaxHistory
  BY <1>1, <1>2
<1> QED
  BY <1>2, <1>3, <1>4

\* ... and of one with its newest record replaced.
LEMMA ReplacedRecords ==
    ASSUME NEW h \in Seq(MaintenanceRecord), NEW g \in Seq(MaintenanceRecord),
           NEW rec, NewestReplaced(h, g, rec)
    PROVE  /\ Len(h) \in Nat \ {0}
           /\ Len(g) = Len(h)
           /\ g[Len(g)] = rec
           /\ \A j \in 1 .. Len(g) - 1 : j \in 1 .. Len(h) /\ g[j] = h[j]
<1>1. /\ Len(h) \in Nat \ {0} /\ Len(g) \in Nat
      /\ DOMAIN h = 1 .. Len(h) /\ DOMAIN g = 1 .. Len(g)
  BY LenProperties, EmptySeq DEF NewestReplaced
<1>2. g = [h EXCEPT ![Len(h)] = rec]
  BY DEF NewestReplaced
<1>3. DOMAIN g = DOMAIN h
  BY <1>2
<1>4. Len(g) = Len(h)
  <2>1. Len(h) \in 1 .. Len(g)
    BY <1>1, <1>3
  <2>2. Len(g) \in 1 .. Len(h)
    BY <1>1, <1>3, <2>1
  <2>3. Len(h) \in Nat /\ Len(g) \in Nat
    BY <1>1
  <2> QED
    BY <2>1, <2>2, <2>3
<1> QED
  BY <1>1, <1>2, <1>4

LEMMA NotLast ==
    ASSUME NEW n \in Nat, NEW k \in 1 .. n, k # n
    PROVE  k \in 1 .. n - 1
OBVIOUS

\* Either way every other record was there before.
LEMMA KeptRecords ==
    ASSUME NEW h \in Seq(MaintenanceRecord), NEW g \in Seq(MaintenanceRecord),
           NEW rec, Len(h) <= MaxHistory,
           Grown(h, g, rec) \/ NewestReplaced(h, g, rec),
           NEW j \in 1 .. Len(g)
    PROVE  \/ \E i \in 1 .. Len(h) : g[j] = h[i]
           \/ j = Len(g) /\ g[j] = rec
<1>1. Len(g) \in Nat /\ (j # Len(g) => j \in 1 .. Len(g) - 1)
  BY LenProperties
<1>2. CASE Grown(h, g, rec)
  BY <1>1, <1>2, GrownRecords
<1>3. CASE NewestReplaced(h, g, rec)
  BY <1>1, <1>3, ReplacedRecords
<1> QED
  BY <1>2, <1>3

\* What a reconcile makes of the record in progress.
RunRecords(old) ==
    {[old EXCEPT !.phase = "PostActionsTriggered"],
     [old EXCEPT !.status = "Failed"],
     [old EXCEPT !.status = "Completed"]}

\* A reconcile leaves the history alone, appends to it when no run is in
\* progress, or replaces the record of the run.
LEMMA HowHistoryChanges ==
    ASSUME NEW p, NEW q, NEW t, Reconciled(p, q, t)
    PROVE  \/ q.maintenanceHistory = p.maintenanceHistory
           \/ /\ ~RunInProgress(p)
              /\ WindowIsFree(p.maintenanceHistory, t)
              /\ \E rec \in [startedAt : {t}, status : {"Skipped", "InProgress"},
                             phase : {"", "PatchApplied"},
                             appliedMemory : Nat \cup {NoMemory}] :
                   /\ Grown(p.maintenanceHistory, q.maintenanceHistory, rec)
                   /\ rec.status = "InProgress" =>
                        /\ rec.appliedMemory \in Nat
                        /\ rec.phase = "PatchApplied"
           \/ /\ RunInProgress(p)
              /\ \E rec \in RunRecords(Newest(p)) :
                   NewestReplaced(p.maintenanceHistory, q.maintenanceHistory, rec)
<1>1. CASE Skipped(p, q, t)
  <2> DEFINE rec == [startedAt |-> t, status |-> "Skipped",
                     phase |-> "", appliedMemory |-> NoMemory]
  <2>1. /\ rec \in [startedAt : {t}, status : {"Skipped", "InProgress"},
                    phase : {"", "PatchApplied"},
                    appliedMemory : Nat \cup {NoMemory}]
        /\ rec.status # "InProgress"
    OBVIOUS
  <2>2. /\ ~RunInProgress(p) /\ WindowIsFree(p.maintenanceHistory, t)
        /\ Grown(p.maintenanceHistory, q.maintenanceHistory, rec)
    BY <1>1 DEF Skipped
  <2> QED
    BY <2>1, <2>2
<1>2. CASE Started(p, q, t)
  <2> DEFINE memory == Newest(q).appliedMemory
             rec == [startedAt |-> t, status |-> "InProgress",
                     phase |-> "PatchApplied", appliedMemory |-> memory]
  <2>1. /\ ~RunInProgress(p) /\ WindowIsFree(p.maintenanceHistory, t)
        /\ Grown(p.maintenanceHistory, q.maintenanceHistory, rec)
        /\ memory \in Nat
    BY <1>2 DEF Started
  <2> HIDE DEF memory
  <2>2. /\ rec \in [startedAt : {t}, status : {"Skipped", "InProgress"},
                    phase : {"", "PatchApplied"},
                    appliedMemory : Nat \cup {NoMemory}]
        /\ rec.appliedMemory = memory /\ rec.phase = "PatchApplied"
    BY <2>1
  <2> QED
    BY <2>1, <2>2
<1>3. CASE Advanced(p, q) \/ Failed(p, q) \/ Completed(p, q)
  BY <1>3 DEF Advanced, Failed, Completed, RunRecords
<1>4. CASE Carried(p, q) \/ NotStarted(p, q)
  BY <1>4 DEF Carried, NotStarted
<1> QED
  BY <1>1, <1>2, <1>3, <1>4 DEF Reconciled
\* The record that replaces the one in progress is of the same run.
LEMMA RunRecordProperties ==
    ASSUME NEW old \in MaintenanceRecord, NEW rec \in RunRecords(old)
    PROVE  /\ rec \in MaintenanceRecord
           /\ rec.startedAt = old.startedAt
           /\ rec.appliedMemory = old.appliedMemory
           /\ rec.status \in {old.status, "Failed", "Completed"}
           /\ rec.phase \in {old.phase, "PostActionsTriggered"}
BY DEF RunRecords, MaintenanceRecord, MaintenanceStatus, MaintenancePhase

\* Every record of the new history is one of the old history, or the run in
\* progress, or began at t.
LEMMA WhereRecordsComeFrom ==
    ASSUME NEW p \in PolicyStatusType, NEW q \in PolicyStatusType, NEW t \in Nat,
           Orderly(p), Reconciled(p, q, t),
           NEW j \in DOMAIN q.maintenanceHistory
    PROVE  LET h == p.maintenanceHistory
               rec == q.maintenanceHistory[j]
           IN  \/ \E i \in DOMAIN h : rec = h[i]
               \/ j = Len(q.maintenanceHistory) /\ RunInProgress(p)
                  /\ rec \in RunRecords(Newest(p))
               \/ /\ j = Len(q.maintenanceHistory) /\ ~RunInProgress(p)
                  /\ WindowIsFree(h, t) /\ rec.startedAt = t
                  /\ rec.status \in {"Skipped", "InProgress"}
                  /\ rec.status = "InProgress" =>
                       /\ rec.appliedMemory \in Nat
                       /\ rec.phase = "PatchApplied"
<1> DEFINE h == p.maintenanceHistory
           g == q.maintenanceHistory
<1>1. /\ h \in Seq(MaintenanceRecord) /\ g \in Seq(MaintenanceRecord)
      /\ Len(h) \in Nat /\ Len(g) \in Nat /\ j \in 1 .. Len(g)
      /\ DOMAIN h = 1 .. Len(h) /\ DOMAIN g = 1 .. Len(g) /\ Len(h) <= MaxHistory
  BY HistoryRecords DEF Orderly
<1> HIDE DEF h, g
<1>2. CASE g = h
  BY <1>1, <1>2 DEF h, g
<1>3. ASSUME NEW rec, Grown(h, g, rec) \/ NewestReplaced(h, g, rec)
      PROVE  \/ \E i \in DOMAIN h : g[j] = h[i]
             \/ j = Len(g) /\ g[j] = rec
  <2>1. \/ \E i \in 1 .. Len(h) : g[j] = h[i]
        \/ j = Len(g) /\ g[j] = rec
    BY <1>1, <1>3, KeptRecords
  <2> QED
    BY <1>1, <2>1
<1> QED
  <2>1. CASE ~RunInProgress(p) /\ g # h
    <3>1. PICK rec \in [startedAt : {t}, status : {"Skipped", "InProgress"},
                        phase : {"", "PatchApplied"},
                        appliedMemory : Nat \cup {NoMemory}] :
            /\ Grown(h, g, rec) /\ WindowIsFree(h, t)
            /\ rec.status = "InProgress" =>
                 /\ rec.appliedMemory \in Nat
                 /\ rec.phase = "PatchApplied"
      BY <2>1, HowHistoryChanges DEF h, g
    <3>2. \/ \E i \in DOMAIN h : g[j] = h[i]
          \/ j = Len(g) /\ g[j] = rec
      BY <1>3, <2>1, <3>1
    <3> QED
      BY <2>1, <3>1, <3>2 DEF h, g
  <2>2. CASE RunInProgress(p) /\ g # h
    <3>1. PICK rec \in RunRecords(Newest(p)) : NewestReplaced(h, g, rec)
      BY <2>2, HowHistoryChanges DEF h, g
    <3>2. \/ \E i \in DOMAIN h : g[j] = h[i]
          \/ j = Len(g) /\ g[j] = rec
      BY <1>3, <3>1
    <3> QED
      BY <2>2, <3>1, <3>2 DEF h, g
  <2> QED
    BY <1>2, <2>1, <2>2 DEF h, g

LEMMA NewestIsRecord ==
    ASSUME NEW p \in PolicyStatusType, RunInProgress(p)
    PROVE  /\ Len(p.maintenanceHistory) \in DOMAIN p.maintenanceHistory
           /\ Newest(p) = p.maintenanceHistory[Len(p.maintenanceHistory)]
           /\ Newest(p) \in MaintenanceRecord
           /\ Newest(p).status = "InProgress"
<1>1. Len(p.maintenanceHistory) \in DOMAIN p.maintenanceHistory
  BY HistoryRecords DEF RunInProgress
<1> QED
  BY <1>1, HistoryRecords DEF RunInProgress, Newest

\* No record is younger than the reconcile that wrote it.
LEMMA ReconciledStarts ==
    ASSUME NEW p \in PolicyStatusType, NEW q \in PolicyStatusType, NEW t \in Nat,
           Orderly(p), Reconciled(p, q, t), StartedBy(p.maintenanceHistory, t)
    PROVE  StartedBy(q.maintenanceHistory, t)
<1> SUFFICES ASSUME NEW j \in DOMAIN q.maintenanceHistory
             PROVE  q.maintenanceHistory[j].startedAt <= t
  BY DEF StartedBy
<1>1. ASSUME RunInProgress(p), q.maintenanceHistory[j] \in RunRecords(Newest(p))
      PROVE  q.maintenanceHistory[j].startedAt <= t
  BY <1>1, NewestIsRecord, RunRecordProperties DEF StartedBy
<1> QED
  BY <1>1, WhereRecordsComeFrom DEF StartedBy

\* No run completes in a window that another completed in.
LEMMA ReconciledApart ==
    ASSUME NEW p \in PolicyStatusType, NEW q \in PolicyStatusType, NEW t \in Nat,
           Orderly(p), Reconciled(p, q, t), RunsApart(p.maintenanceHistory)
    PROVE  RunsApart(q.maintenanceHistory)
<1> DEFINE h == p.maintenanceHistory
           g == q.maintenanceHistory
           ending == {"Completed", "InProgress"}
<1>1. /\ h \in Seq(MaintenanceRecord) /\ g \in Seq(MaintenanceRecord)
      /\ Len(h) <= MaxHistory /\ RunsApart(h)
      /\ \A i \in DOMAIN h : h[i].status = "InProgress" => i = Len(h)
  BY HistoryRecords DEF Orderly
<1>2. /\ Len(h) \in Nat /\ Len(g) \in Nat
      /\ DOMAIN h = 1 .. Len(h) /\ DOMAIN g = 1 .. Len(g)
  BY HistoryRecords
<1>3. ~RunInProgress(p) => \A i \in 1 .. Len(h) : h[i].status # "InProgress"
  BY <1>1, <1>2 DEF RunInProgress, Newest
<1>4. RunInProgress(p) => Newest(p) = h[Len(h)] /\ h[Len(h)].status = "InProgress"
                          /\ Newest(p) \in MaintenanceRecord
  BY NewestIsRecord
<1> HIDE DEF h, g
<1>5. CASE g = h
  BY <1>1, <1>5 DEF g, h
<1>6. ASSUME ~RunInProgress(p), WindowIsFree(h, t), NEW rec, Grown(h, g, rec),
             rec.startedAt = t
      PROVE  RunsApart(g)
  <2>1. PICK d \in {0, 1} : /\ g[Len(g)] = rec
                            /\ \A j \in 1 .. Len(g) - 1 :
                                 j + d \in 1 .. Len(h) /\ g[j] = h[j + d]
    BY <1>1, <1>6, GrownRecords
  <2>2. SUFFICES ASSUME NEW i \in 1 .. Len(g), NEW j \in 1 .. Len(g), i # j,
                        g[i].status \in ending, g[j].status \in ending,
                        SameWindow(g[i].startedAt, g[j].startedAt)
                 PROVE  FALSE
    BY <1>2 DEF RunsApart
  <2>3. \A k \in 1 .. Len(g) : k # Len(g) => k \in 1 .. Len(g) - 1
    BY <1>2, NotLast
  <2>4. CASE i # Len(g) /\ j # Len(g)
    <3>1. /\ i + d \in 1 .. Len(h) /\ j + d \in 1 .. Len(h)
          /\ g[i] = h[i + d] /\ g[j] = h[j + d] /\ i + d # j + d
      BY <2>1, <2>2, <2>3, <2>4
    <3> QED
      BY <1>1, <1>2, <2>2, <3>1 DEF RunsApart
  <2>5. ASSUME NEW k \in 1 .. Len(g), k # Len(g), g[k].status \in ending
        PROVE  ~SameWindow(g[k].startedAt, t) /\ ~SameWindow(t, g[k].startedAt)
    <3>1. k + d \in 1 .. Len(h) /\ g[k] = h[k + d]
      BY <2>1, <2>3, <2>5
    <3>2. h[k + d].status = "Completed"
      BY <1>3, <1>6, <2>5, <3>1
    <3> QED
      BY <1>2, <1>6, <3>1, <3>2 DEF WindowIsFree, SameWindow
  <2> QED
    BY <1>6, <2>1, <2>2, <2>4, <2>5
<1>7. ASSUME RunInProgress(p), NEW rec \in RunRecords(Newest(p)),
             NewestReplaced(h, g, rec)
      PROVE  RunsApart(g)
  <2>1. /\ Len(g) = Len(h) /\ g[Len(g)] = rec
        /\ \A j \in 1 .. Len(g) - 1 : j \in 1 .. Len(h) /\ g[j] = h[j]
    BY <1>1, <1>7, ReplacedRecords
  <2>2. rec.startedAt = h[Len(h)].startedAt /\ h[Len(h)].status \in ending
    BY <1>4, <1>7, RunRecordProperties
  <2>3. ASSUME NEW j \in 1 .. Len(g)
        PROVE  /\ j \in 1 .. Len(h)
               /\ g[j].startedAt = h[j].startedAt
               /\ g[j].status \in ending => h[j].status \in ending
    <3>1. CASE j = Len(g)
      BY <2>1, <2>2, <3>1
    <3>2. CASE j # Len(g)
      <4>1. j \in 1 .. Len(g) - 1
        BY <1>2, <3>2, NotLast
      <4> QED
        BY <2>1, <4>1
    <3> QED
      BY <3>1, <3>2
  <2> QED
    BY <1>1, <1>2, <2>3 DEF RunsApart
<1> QED
  <2>1. CASE ~RunInProgress(p) /\ g # h
    <3>1. PICK rec \in [startedAt : {t}, status : {"Skipped", "InProgress"},
                        phase : {"", "PatchApplied"},
                        appliedMemory : Nat \cup {NoMemory}] :
            Grown(h, g, rec) /\ WindowIsFree(h, t)
      BY <2>1, HowHistoryChanges DEF h, g
    <3>2. rec.startedAt = t
      BY <3>1
    <3> QED
      BY <1>6, <2>1, <3>1, <3>2 DEF g
  <2>2. CASE RunInProgress(p) /\ g # h
    BY <1>7, <2>2, HowHistoryChanges DEF h, g
  <2> QED
    BY <1>5, <2>1, <2>2 DEF g
\* A failure after which no run ended is reported.
LEMMA ReconciledReported ==
    ASSUME NEW p \in PolicyStatusType, NEW q \in PolicyStatusType, NEW t \in Nat,
           Orderly(p), Reconciled(p, q, t), Reported(p)
    PROVE  Reported(q)
<1> DEFINE h == p.maintenanceHistory
           g == q.maintenanceHistory
           told(policy) == IsConditionTrue(policy, "LastMaintenanceFailed")
<1>1. /\ h \in Seq(MaintenanceRecord) /\ g \in Seq(MaintenanceRecord)
      /\ Len(h) <= MaxHistory
  BY HistoryRecords DEF Orderly
<1>2. /\ Len(h) \in Nat /\ Len(g) \in Nat
      /\ DOMAIN h = 1 .. Len(h) /\ DOMAIN g = 1 .. Len(g)
  BY HistoryRecords
<1>3. CASE told(q)
  BY <1>3 DEF Reported
<1>4. CASE Carried(p, q)
  BY <1>4 DEF Carried, SameCondition, Reported
<1>5. \A i \in DOMAIN h :
        ( /\ h[i].status = "Failed"
          /\ \A j \in DOMAIN h : j > i => h[j].status \notin EndedStatus )
        => told(p)
  BY DEF Reported
<1> HIDE DEF h, g
<1>6. ASSUME NEW rec, Grown(h, g, rec), rec.status \notin EndedStatus,
             told(q) <=> told(p)
      PROVE  Reported(q)
  <2>1. SUFFICES ASSUME NEW j \in 1 .. Len(g), g[j].status = "Failed",
                        \A k \in 1 .. Len(g) : k > j => g[k].status \notin EndedStatus
                 PROVE  told(q)
    BY <1>2 DEF Reported, g
  <2>2. PICK d \in {0, 1} : /\ Len(g) = Len(h) + 1 - d
                            /\ g[Len(g)] = rec
                            /\ \A k \in 1 .. Len(g) - 1 :
                                 k + d \in 1 .. Len(h) /\ g[k] = h[k + d]
    BY <1>1, <1>6, GrownRecords
  <2>3. j # Len(g)
    BY <1>6, <2>1, <2>2 DEF EndedStatus
  <2>4. j + d \in 1 .. Len(h) /\ h[j + d].status = "Failed"
    BY <1>2, <2>1, <2>2, <2>3, NotLast
  <2>5. ASSUME NEW i \in 1 .. Len(h), i > j + d
        PROVE  h[i].status \notin EndedStatus
    <3>1. i - d \in 1 .. Len(g) - 1 /\ (i - d) + d = i /\ i - d > j
          /\ i - d \in 1 .. Len(g)
      BY <1>2, <2>2, <2>5
    <3>2. g[i - d] = h[i]
      BY <2>2, <3>1
    <3> QED
      BY <2>1, <3>1, <3>2
  <2> QED
    BY <1>2, <1>5, <1>6, <2>4, <2>5
<1>7. ASSUME NEW rec, NewestReplaced(h, g, rec),
             \/ rec.status = "Completed"
             \/ rec.status \notin EndedStatus /\ (told(q) <=> told(p)),
             h[Len(h)].status \notin EndedStatus
      PROVE  Reported(q)
  <2>1. SUFFICES ASSUME NEW j \in 1 .. Len(g), g[j].status = "Failed",
                        \A k \in 1 .. Len(g) : k > j => g[k].status \notin EndedStatus
                 PROVE  told(q)
    BY <1>2 DEF Reported, g
  <2>2. /\ Len(h) \in Nat \ {0} /\ Len(g) = Len(h) /\ g[Len(g)] = rec
        /\ \A k \in 1 .. Len(g) - 1 : k \in 1 .. Len(h) /\ g[k] = h[k]
    BY <1>1, <1>7, ReplacedRecords
  <2>3. j # Len(g)
    BY <1>7, <2>1, <2>2 DEF EndedStatus
  <2>4. rec.status # "Completed"
    <3>1. \A n \in Nat : \A k \in 1 .. n : k # n => n \in 1 .. n /\ n > k
      OBVIOUS
    <3>2. Len(g) \in 1 .. Len(g) /\ Len(g) > j
      BY <1>2, <2>1, <2>3, <3>1
    <3> QED
      BY <2>1, <2>2, <3>2 DEF EndedStatus
  <2>5. h[j].status = "Failed" /\ j \in 1 .. Len(h)
    BY <1>2, <2>1, <2>2, <2>3, NotLast
  <2>6. ASSUME NEW i \in 1 .. Len(h), i > j
        PROVE  h[i].status \notin EndedStatus
    <3>1. CASE i = Len(g)
      BY <1>7, <2>2, <3>1
    <3>2. CASE i # Len(g)
      BY <1>2, <2>1, <2>2, <2>6, <3>2, NotLast
    <3> QED
      BY <3>1, <3>2
  <2> QED
    BY <1>2, <1>5, <1>7, <2>4, <2>5, <2>6
<1>8. CASE Skipped(p, q, t)
  <2>1. /\ Grown(h, g, [startedAt |-> t, status |-> "Skipped",
                        phase |-> "", appliedMemory |-> NoMemory])
        /\ told(q) <=> told(p)
    BY <1>8 DEF Skipped, SameCondition, h, g
  <2> QED
    BY <1>6, <2>1 DEF EndedStatus
<1>9. CASE Started(p, q, t)
  <2> DEFINE rec == [startedAt |-> t, status |-> "InProgress",
                     phase |-> "PatchApplied",
                     appliedMemory |-> Newest(q).appliedMemory]
  <2>1. Grown(h, g, rec) /\ (told(q) <=> told(p))
    BY <1>9 DEF Started, SameCondition, h, g
  <2>2. rec.status \notin EndedStatus
    BY DEF EndedStatus
  <2> HIDE DEF rec
  <2> QED
    BY <1>6, <2>1, <2>2
<1>10. CASE Advanced(p, q) \/ Completed(p, q)
  <2>1. Newest(p) \in MaintenanceRecord /\ Newest(p).status = "InProgress"
        /\ Newest(p) = h[Len(h)]
    BY <1>10, NewestIsRecord DEF Advanced, Completed, h
  <2>2. CASE Advanced(p, q)
    <3>1. /\ NewestReplaced(h, g, [Newest(p) EXCEPT !.phase = "PostActionsTriggered"])
          /\ told(q) <=> told(p)
      BY <2>2 DEF Advanced, SameCondition, h, g
    <3>2. [Newest(p) EXCEPT !.phase = "PostActionsTriggered"].status = "InProgress"
      BY <2>1 DEF MaintenanceRecord
    <3> QED
      BY <1>7, <2>1, <3>1, <3>2 DEF EndedStatus
  <2>3. CASE Completed(p, q)
    <3>1. NewestReplaced(h, g, [Newest(p) EXCEPT !.status = "Completed"])
      BY <2>3 DEF Completed, h, g
    <3>2. [Newest(p) EXCEPT !.status = "Completed"].status = "Completed"
      BY <2>1 DEF MaintenanceRecord
    <3> QED
      BY <1>7, <2>1, <3>1, <3>2 DEF EndedStatus
  <2> QED
    BY <1>10, <2>2, <2>3
<1>11. CASE NotStarted(p, q) \/ Failed(p, q)
  BY <1>3, <1>11 DEF NotStarted, Failed
<1> QED
  BY <1>4, <1>8, <1>9, <1>10, <1>11 DEF Reconciled
\* The parts of a status fit together after a reconcile as before.
LEMMA ReconciledOrderly ==
    ASSUME NEW p \in PolicyStatusType, NEW q \in PolicyStatusType, NEW t \in Nat,
           Orderly(p), Reconciled(p, q, t)
    PROVE  Orderly(q)
<1> DEFINE h == p.maintenanceHistory
           g == q.maintenanceHistory
<1>1. /\ h \in Seq(MaintenanceRecord) /\ g \in Seq(MaintenanceRecord)
      /\ Len(h) \in Nat /\ Len(g) \in Nat /\ Len(h) <= MaxHistory
      /\ DOMAIN h = 1 .. Len(h) /\ DOMAIN g = 1 .. Len(g)
      /\ g # << >> <=> Len(g) # 0
  BY HistoryRecords DEF Orderly
<1>2. /\ \A i \in DOMAIN h : h[i].status = "InProgress" => i = Len(h)
      /\ \A i \in DOMAIN h : h[i].status # "Skipped" => h[i].appliedMemory \in Nat
      /\ IsConditionTrue(p, "MaintenanceInProgress") <=> RunInProgress(p)
      /\ RunInProgress(p) =>
           /\ Newest(p).phase \in {"PatchApplied", "PostActionsTriggered"}
           /\ Newest(p).phase = "PostActionsTriggered" => PostActions # << >>
  BY DEF Orderly
<1>3. ~RunInProgress(p) => \A i \in 1 .. Len(h) : h[i].status # "InProgress"
  BY <1>1, <1>2 DEF RunInProgress, Newest
<1>4. RunInProgress(p) => /\ Newest(p) = h[Len(h)] /\ Len(h) \in DOMAIN h
                          /\ Newest(p).status = "InProgress"
                          /\ Newest(p) \in MaintenanceRecord
  BY NewestIsRecord
<1>5. Newest(q) = g[Len(g)] /\ (RunInProgress(q) <=> g # << >> /\ Newest(q).status = "InProgress")
  BY DEF Newest, RunInProgress
<1> HIDE DEF h, g
<1>6. CASE Carried(p, q)
  BY <1>6, CarriedRun
<1>7. CASE NotStarted(p, q)
  <2>1. /\ g = h /\ ~RunInProgress(p) /\ ~IsConditionTrue(q, "MaintenanceInProgress")
        /\ RunInProgress(q) <=> RunInProgress(p)
    BY <1>7 DEF NotStarted, RunInProgress, Newest, g, h
  <2> QED
    BY <1>1, <1>2, <2>1 DEF Orderly, g
<1>8. ASSUME NEW rec, Grown(h, g, rec), ~RunInProgress(p),
             rec.status \in {"Skipped", "InProgress"},
             IsConditionTrue(q, "MaintenanceInProgress") <=> rec.status = "InProgress",
             rec.status = "InProgress" => rec.appliedMemory \in Nat
                                          /\ rec.phase = "PatchApplied"
      PROVE  Orderly(q)
  <2>1. PICK d \in {0, 1} : /\ Len(g) \in 1 .. MaxHistory
                            /\ g[Len(g)] = rec
                            /\ \A k \in 1 .. Len(g) - 1 :
                                 k + d \in 1 .. Len(h) /\ g[k] = h[k + d]
    BY <1>1, <1>8, GrownRecords
  <2>2. ASSUME NEW j \in 1 .. Len(g), j # Len(g)
        PROVE  /\ g[j].status # "InProgress"
               /\ g[j].status # "Skipped" => g[j].appliedMemory \in Nat
    <3>1. j + d \in 1 .. Len(h) /\ g[j] = h[j + d]
      BY <1>1, <2>1, <2>2, NotLast
    <3> QED
      BY <1>1, <1>2, <1>3, <1>8, <3>1
  <2>3. RunInProgress(q) <=> rec.status = "InProgress"
    BY <1>1, <1>5, <2>1
  <2>4. Len(g) <= MaxHistory
    BY <2>1, MaxHistoryAssumption
  <2> QED
    BY <1>1, <1>5, <1>8, <2>1, <2>2, <2>3, <2>4 DEF Orderly, g
<1>9. ASSUME NEW rec, NewestReplaced(h, g, rec), RunInProgress(p),
             rec.appliedMemory = Newest(p).appliedMemory,
             IsConditionTrue(q, "MaintenanceInProgress") <=> rec.status = "InProgress",
             rec.status = "InProgress" =>
               rec.phase = "PostActionsTriggered" /\ PostActions # << >>
      PROVE  Orderly(q)
  <2>1. /\ Len(h) \in Nat \ {0} /\ Len(g) = Len(h) /\ g[Len(g)] = rec
        /\ \A k \in 1 .. Len(g) - 1 : k \in 1 .. Len(h) /\ g[k] = h[k]
    BY <1>1, <1>9, ReplacedRecords
  <2>2. ASSUME NEW j \in 1 .. Len(g), j # Len(g)
        PROVE  /\ g[j].status # "InProgress"
               /\ g[j].status # "Skipped" => g[j].appliedMemory \in Nat
    <3>1. j \in 1 .. Len(h) /\ g[j] = h[j]
      BY <1>1, <2>1, <2>2, NotLast
    <3> QED
      BY <1>1, <1>2, <2>1, <2>2, <3>1
  <2>3. RunInProgress(q) <=> rec.status = "InProgress"
    BY <1>1, <1>5, <2>1
  <2>4. rec.appliedMemory \in Nat
    BY <1>2, <1>4, <1>9
  <2> QED
    BY <1>1, <1>5, <1>9, <2>1, <2>2, <2>3, <2>4 DEF Orderly, g
<1>10. CASE Skipped(p, q, t)
  <2>1. /\ Grown(h, g, [startedAt |-> t, status |-> "Skipped",
                        phase |-> "", appliedMemory |-> NoMemory])
        /\ ~RunInProgress(p) /\ ~IsConditionTrue(q, "MaintenanceInProgress")
    BY <1>2, <1>10 DEF Skipped, SameCondition, h, g
  <2> QED
    BY <1>8, <2>1
<1>11. CASE Started(p, q, t)
  <2> DEFINE memory == Newest(q).appliedMemory
             rec == [startedAt |-> t, status |-> "InProgress",
                     phase |-> "PatchApplied", appliedMemory |-> memory]
  <2>1. /\ Grown(h, g, rec) /\ ~RunInProgress(p) /\ memory \in Nat
        /\ IsConditionTrue(q, "MaintenanceInProgress")
    BY <1>11 DEF Started, h, g
  <2> HIDE DEF memory
  <2>2. rec.status = "InProgress" /\ rec.appliedMemory = memory /\ rec.phase = "PatchApplied"
    OBVIOUS
  <2> HIDE DEF rec
  <2> QED
    BY <1>8, <2>1, <2>2
<1>12. CASE Advanced(p, q)
  <2> DEFINE rec == [Newest(p) EXCEPT !.phase = "PostActionsTriggered"]
  <2>1. /\ NewestReplaced(h, g, rec) /\ RunInProgress(p) /\ PostActions # << >>
        /\ IsConditionTrue(q, "MaintenanceInProgress")
    BY <1>2, <1>12 DEF Advanced, SameCondition, h, g
  <2>2. /\ rec.status = "InProgress" /\ rec.phase = "PostActionsTriggered"
        /\ rec.appliedMemory = Newest(p).appliedMemory
    BY <1>4, <2>1 DEF MaintenanceRecord
  <2> HIDE DEF rec
  <2> QED
    BY <1>9, <2>1, <2>2
<1>13. ASSUME NEW outcome \in {"Failed", "Completed"}, RunInProgress(p),
              NewestReplaced(h, g, [Newest(p) EXCEPT !.status = outcome]),
              ~IsConditionTrue(q, "MaintenanceInProgress")
       PROVE  Orderly(q)
  <2> DEFINE rec == [Newest(p) EXCEPT !.status = outcome]
  <2>1. rec.status # "InProgress" /\ rec.appliedMemory = Newest(p).appliedMemory
    BY <1>4, <1>13 DEF MaintenanceRecord
  <2> HIDE DEF rec
  <2>2. NewestReplaced(h, g, rec)
    BY <1>13 DEF rec
  <2> QED
    BY <1>9, <1>13, <2>1, <2>2
<1>14. CASE Failed(p, q) \/ Completed(p, q)
  BY <1>13, <1>14 DEF Failed, Completed, h, g
<1> QED
  BY <1>6, <1>7, <1>10, <1>11, <1>12, <1>14 DEF Reconciled

\* The history continues.
LEMMA ReconciledContinues ==
    ASSUME NEW p \in PolicyStatusType, NEW q \in PolicyStatusType, NEW t \in Nat,
           Orderly(p), Reconciled(p, q, t)
    PROVE  Continues(p.maintenanceHistory, q.maintenanceHistory)
<1> DEFINE h == p.maintenanceHistory
           g == q.maintenanceHistory
<1>1. /\ h \in Seq(MaintenanceRecord) /\ g \in Seq(MaintenanceRecord)
      /\ Len(h) \in Nat /\ Len(g) \in Nat /\ Len(h) <= MaxHistory
      /\ DOMAIN h = 1 .. Len(h)
  BY HistoryRecords DEF Orderly
<1>2. ~RunInProgress(p) => \A i \in 1 .. Len(h) : h[i].status # "InProgress"
  BY <1>1 DEF RunInProgress, Newest, Orderly
<1>3. RunInProgress(p) => /\ Newest(p) = h[Len(h)]
                          /\ Newest(p).status = "InProgress"
                          /\ Newest(p) \in MaintenanceRecord
  BY NewestIsRecord
<1> HIDE DEF h, g
<1>4. ASSUME g = h
      PROVE  Continues(h, g)
  <2>1. /\ 0 \in {0, 1} /\ ~(0 = 1)
        /\ Len(g) \in Len(h) - 0 .. Len(h) - 0 + 1
        /\ \A i \in 0 + 1 .. Len(h) : SameRun(h[i], g[i - 0])
    BY <1>1, <1>4 DEF SameRun
  <2> QED
    BY <2>1 DEF Continues
<1>5. ASSUME NEW rec, Grown(h, g, rec), ~RunInProgress(p)
      PROVE  Continues(h, g)
  <2>1. PICK d \in {0, 1} : /\ d = 1 <=> Len(h) = MaxHistory
                            /\ Len(g) = Len(h) + 1 - d
                            /\ \A i \in d + 1 .. Len(h) : g[i - d] = h[i]
    BY <1>5 DEF Grown
  <2>2. d = 1 => h[1].status # "InProgress"
    BY <1>1, <1>2, <1>5, <2>1, MaxHistoryAssumption
  <2>3. Len(g) \in Len(h) - d .. Len(h) - d + 1
    BY <1>1, <2>1
  <2>4. \A i \in d + 1 .. Len(h) : SameRun(h[i], g[i - d])
    BY <2>1 DEF SameRun
  <2> QED
    BY <2>1, <2>2, <2>3, <2>4 DEF Continues
<1>6. ASSUME RunInProgress(p), NEW rec \in RunRecords(Newest(p)),
             NewestReplaced(h, g, rec)
      PROVE  Continues(h, g)
  <2>1. /\ Len(h) \in Nat \ {0} /\ Len(g) = Len(h) /\ g[Len(g)] = rec
        /\ \A k \in 1 .. Len(g) - 1 : k \in 1 .. Len(h) /\ g[k] = h[k]
    BY <1>1, <1>6, ReplacedRecords
  <2>2. SameRun(h[Len(h)], rec)
    BY <1>3, <1>6, RunRecordProperties DEF SameRun
  <2>3. \A i \in 1 .. Len(h) : SameRun(h[i], g[i])
    BY <1>1, <2>1, <2>2, NotLast DEF SameRun
  <2>4. /\ 0 \in {0, 1} /\ ~(0 = 1)
        /\ Len(g) \in Len(h) - 0 .. Len(h) - 0 + 1
        /\ \A i \in 0 + 1 .. Len(h) : SameRun(h[i], g[i - 0])
    BY <1>1, <2>1, <2>3
  <2> QED
    BY <2>4 DEF Continues
<1>7. CASE ~RunInProgress(p) /\ g # h
  BY <1>5, <1>7, HowHistoryChanges DEF h, g
<1>8. CASE RunInProgress(p) /\ g # h
  BY <1>6, <1>8, HowHistoryChanges DEF h, g
<1> QED
  BY <1>4, <1>7, <1>8 DEF h, g
-----------------------------------------------------------------------------
\* The inductive invariants

LEMMA StartedLater ==
    ASSUME NEW h \in Seq(MaintenanceRecord), NEW t \in Nat, NEW u \in Nat, t <= u,
           StartedBy(h, t)
    PROVE  StartedBy(h, u)
<1>1. \A i \in DOMAIN h : h[i] \in MaintenanceRecord
  BY ElementOfSeq, LenProperties
<1>2. \A i \in DOMAIN h : h[i].startedAt \in Nat
  BY <1>1 DEF MaintenanceRecord
<1> QED
  BY <1>2 DEF StartedBy

\* The only step that changes the status stores what one reconcile made of it.
LEMMA StatusStep ==
    ASSUME "stale" \notin Faults, TypeInv, ConsistencyInv, ReconcileInv, [Next]_vars
    PROVE  \/ status' = status
           \/ /\ pc = "persist" /\ base = status /\ status' = pol
              /\ \E t \in 0 .. clock : /\ StartedBy(status.maintenanceHistory, t)
                                       /\ Reconciled(status, status', t)
<1> USE DEF world, reconcile
<1>1. CASE Persist
  <2>1. /\ pc = "persist" /\ base = status
        /\ status \in PolicyStatusType /\ pol \in PolicyStatusType
    BY <1>1 DEF Persist, ConsistencyInv, TypeInv, TypeOK
  <2>2. MergePatch(status, base, pol) = pol
    BY <2>1, MergePatchOfCurrent
  <2>3. status' = status \/ status' = pol
    BY <1>1, <2>2 DEF Persist
  <2>4. \E t \in 0 .. clock :
          StartedBy(status.maintenanceHistory, t) /\ Reconciled(status, pol, t)
    BY <2>1 DEF ReconcileInv
  <2> QED
    BY <2>1, <2>3, <2>4
<1>2. CASE ReconcileStep /\ ~Persist
  BY <1>2 DEF ReconcileStep, Begin, GetCurrentMemory, Bootstrap, ReadNoRecommendation,
              WindowEvaluationFails, ResumeRun, ConsiderRun, CheckHealthGate,
              ChangeGateBlocks, StartMaintenance, MonitorCluster, TriggerPostAction,
              MonitorRollout, HandleWindowExpired, CheckExpiredRollout
<1>3. CASE Environment
  BY <1>3 DEF Environment, Crash, CacheSync, Tick, VPAChanges, ClusterStopsRunning,
              ClusterRuns, ClusterDeleted, ClusterCreated, RolloutProgresses,
              EnvironmentUnchanged
<1>4. CASE UNCHANGED vars
  BY <1>4 DEF vars
<1> QED
  BY <1>1, <1>2, <1>3, <1>4 DEF Next

LEMMA ReconcileInvInit == Init => ReconcileInv
<1> SUFFICES ASSUME Init PROVE ReconcileInv
  OBVIOUS
<1>1. status = EmptyStatus /\ pc = "idle"
  BY DEF Init
<1>2. /\ EmptyStatus.maintenanceHistory = << >>
      /\ ~IsConditionTrue(EmptyStatus, "MaintenanceInProgress")
  BY DEF EmptyStatus, IsConditionTrue, ConditionTypes
<1>3. Orderly(EmptyStatus)
  BY <1>2, MaxHistoryAssumption, EmptySeq DEF Orderly, RunInProgress
<1>4. StartedBy(EmptyStatus.maintenanceHistory, clock)
  BY <1>2 DEF StartedBy
<1> QED
  BY <1>1, <1>3, <1>4 DEF ReconcileInv, StartCalls

LEMMA ReconcileInvNext ==
    ASSUME "stale" \notin Faults, TypeInv, ConsistencyInv, ReconcileInv, [Next]_vars
    PROVE  ReconcileInv'
<1> USE DEF world, reconcile
<1>1. CASE Begin
  <2>1. /\ pol' = status /\ base' = status /\ pc' = "getMemory"
        /\ UNCHANGED <<clock, status>>
    BY <1>1 DEF Begin, GoTo, ConsistencyInv
  <2>2. Carried(base', pol')
    BY <2>1 DEF Carried, SameCondition
  <2> QED
    BY <2>1, <2>2 DEF ReconcileInv, StartCalls
<1>2. CASE \/ GetCurrentMemory \/ Bootstrap \/ ReadNoRecommendation
           \/ WindowEvaluationFails \/ ResumeRun \/ ConsiderRun
  BY <1>2, ReadsKeepInv
<1>3. CASE CheckHealthGate \/ ChangeGateBlocks \/ StartMaintenance
  BY <1>3, StartsKeepInv
<1>4. CASE \/ MonitorCluster \/ TriggerPostAction \/ MonitorRollout
           \/ HandleWindowExpired \/ CheckExpiredRollout
  BY <1>4, RunsKeepInv
<1>5. CASE Persist
  <2>1. pc' = "idle" /\ clock' = clock
    BY <1>5 DEF Persist, EndReconcile
  <2>2. /\ status \in PolicyStatusType /\ pol \in PolicyStatusType /\ clock \in Nat
        /\ Orderly(status) /\ StartedBy(status.maintenanceHistory, clock)
    BY DEF TypeInv, TypeOK, ReconcileInv
  <2>3. Orderly(status') /\ StartedBy(status'.maintenanceHistory, clock)
    <3>1. CASE status' = status
      BY <2>2, <3>1
    <3>2. ASSUME status' = pol, NEW t \in 0 .. clock,
                 StartedBy(status.maintenanceHistory, t), Reconciled(status, status', t)
          PROVE  Orderly(status') /\ StartedBy(status'.maintenanceHistory, clock)
      <4>1. t \in Nat /\ t <= clock /\ pol.maintenanceHistory \in Seq(MaintenanceRecord)
        BY <2>2, HistoryRecords
      <4>2. Orderly(pol) /\ StartedBy(pol.maintenanceHistory, t)
        BY <2>2, <3>2, <4>1, ReconciledOrderly, ReconciledStarts
      <4> QED
        BY <2>2, <3>2, <4>1, <4>2, StartedLater
    <3> QED
      BY <3>1, <3>2, StatusStep
  <2> QED
    BY <2>1, <2>3 DEF ReconcileInv, StartCalls
<1>6. CASE Crash
  BY <1>6 DEF Crash, EndReconcile, ReconcileInv, StartCalls
<1>7. CASE Tick
  <2>1. /\ clock \in Nat /\ clock' = clock + 1
        /\ UNCHANGED <<status, pc, pol, base>>
        /\ status.maintenanceHistory \in Seq(MaintenanceRecord)
    BY <1>7, HistoryRecords DEF Tick, TypeInv, TypeOK
  <2>2. StartedBy(status.maintenanceHistory, clock)
    BY DEF ReconcileInv
  <2>3. clock' \in Nat /\ clock <= clock' /\ 0 .. clock \subseteq 0 .. clock'
    BY <2>1
  <2>4. StartedBy(status.maintenanceHistory, clock')
    BY <2>1, <2>2, <2>3, StartedLater
  <2>5. pc \in StartCalls => WindowIsFree(base.maintenanceHistory, clock')
    <3>1. ASSUME pc \in StartCalls
          PROVE  base = status /\ WindowIsFree(base.maintenanceHistory, clock)
      BY <3>1 DEF ReconcileInv, ConsistencyInv, StartCalls
    <3> QED
      BY <2>1, <2>2, <2>3, <3>1, FreeLater
  <2> QED
    BY <2>1, <2>3, <2>4, <2>5 DEF ReconcileInv
<1>8. CASE \/ CacheSync \/ VPAChanges \/ ClusterStopsRunning \/ ClusterRuns
           \/ ClusterDeleted \/ ClusterCreated \/ \E t \in Targets : RolloutProgresses(t)
           \/ UNCHANGED vars
  <2>1. UNCHANGED <<clock, status, pc, pol, base>>
    BY <1>8 DEF CacheSync, VPAChanges, ClusterStopsRunning, ClusterRuns, ClusterDeleted,
                ClusterCreated, RolloutProgresses, EnvironmentUnchanged, vars
  <2> QED
    BY <2>1 DEF ReconcileInv
<1> QED
  BY <1>1, <1>2, <1>3, <1>4, <1>5, <1>6, <1>7, <1>8 DEF Next, ReconcileStep, Environment

LEMMA StatusInvInit == Init => StatusInv
<1> SUFFICES ASSUME Init PROVE StatusInv
  OBVIOUS
<1>1. status.maintenanceHistory = << >>
  BY DEF Init, EmptyStatus
<1> QED
  BY <1>1 DEF StatusInv, Reported, RunsApart

LEMMA StatusInvNext ==
    ASSUME "stale" \notin Faults, TypeInv, TypeInv', ConsistencyInv, ReconcileInv,
           StatusInv, [Next]_vars
    PROVE  StatusInv'
<1>1. /\ status \in PolicyStatusType /\ status' \in PolicyStatusType /\ clock \in Nat
      /\ Orderly(status)
  BY DEF TypeInv, TypeOK, ReconcileInv
<1>2. CASE status' = status
  BY <1>2 DEF StatusInv
<1>3. ASSUME NEW t \in 0 .. clock, Reconciled(status, status', t)
      PROVE  StatusInv'
  <2>1. t \in Nat
    BY <1>1
  <2> QED
    BY <1>1, <1>3, <2>1, ReconciledReported, ReconciledApart
       DEF StatusInv
<1> QED
  BY <1>2, <1>3, StatusStep
HistoryInv == TypeInv /\ ConsistencyInv /\ ReconcileInv /\ StatusInv

\* With fresh reads, what the proofs below rest on holds in every reachable
\* state.
LEMMA HistoryInvariant ==
    ASSUME "stale" \notin Faults
    PROVE  Spec => []HistoryInv
<1>1. Init => HistoryInv
  BY TypeInvInit, ConsistencyInvInit, ReconcileInvInit, StatusInvInit DEF HistoryInv
<1>2. HistoryInv /\ [Next]_vars => HistoryInv'
  BY TypeInvNext, ConsistencyInvNext, ReconcileInvNext, StatusInvNext DEF HistoryInv
<1> QED
  BY <1>1, <1>2, PTL DEF Spec

-----------------------------------------------------------------------------
\* What the properties say, in every reachable state and for every policy

\* As long as reads are fresh, the history is append-only: records that have
\* ended never change, a run stays the same run until it ends, and only the
\* oldest record of a full history goes, never the one of the run in progress.
THEOREM HistoryOnlyGrows ==
    ASSUME "stale" \notin Faults
    PROVE  Spec => HistoryIsAppendOnly
<1>1. ASSUME HistoryInv, [Next]_vars
      PROVE  Continues(status.maintenanceHistory, status'.maintenanceHistory)
  <2>1. /\ status \in PolicyStatusType /\ clock \in Nat /\ Orderly(status)
        /\ TypeInv /\ ConsistencyInv /\ ReconcileInv
    BY <1>1 DEF HistoryInv, TypeInv, TypeOK, ReconcileInv
  <2>2. status' \in PolicyStatusType
    BY <1>1, <2>1, TypeInvNext DEF TypeInv, TypeOK
  <2>3. CASE status' = status
    <3>1. Carried(status, status') /\ CurrentIsRead(status, status')
      BY <2>3 DEF Carried, SameCondition, CurrentIsRead
    <3> QED
      BY <2>1, <2>2, <3>1, ReconciledContinues DEF Reconciled
  <2>4. ASSUME NEW t \in 0 .. clock, Reconciled(status, status', t)
        PROVE  Continues(status.maintenanceHistory, status'.maintenanceHistory)
    <3>1. t \in Nat
      BY <2>1
    <3> QED
      BY <2>1, <2>2, <2>4, <3>1, ReconciledContinues
  <2> QED
    BY <1>1, <2>1, <2>3, <2>4, StatusStep
<1>2. HistoryInv /\ [Next]_vars
      => [Continues(status.maintenanceHistory, status'.maintenanceHistory)]_vars
  BY <1>1
<1> QED
  BY <1>2, HistoryInvariant, PTL DEF Spec, HistoryIsAppendOnly

\* As long as reads are fresh, a status of which the newest ended run failed
\* has the condition LastMaintenanceFailed.
THEOREM FailureStaysReported ==
    ASSUME "stale" \notin Faults
    PROVE  Spec => []FailureIsReported
<1>1. ASSUME HistoryInv
      PROVE  FailureIsReported
  <2> DEFINE h == status.maintenanceHistory
             ended == {i \in DOMAIN h : h[i].status \in {"Completed", "Failed"}}
  <2>1. /\ Len(h) \in Nat /\ DOMAIN h = 1 .. Len(h)
        /\ Reported(status)
    BY <1>1, HistoryRecords DEF HistoryInv, StatusInv, TypeInv, TypeOK
  <2>2. ended \in SUBSET (0 .. Len(h))
    BY <2>1
  <2>3. ASSUME ended # {}, h[Max(ended)].status = "Failed"
        PROVE  IsConditionTrue(status, "LastMaintenanceFailed")
    <3>1. Max(ended) \in ended /\ \A x \in ended : x <= Max(ended)
      BY <2>1, <2>2, <2>3, MaxOfNaturals
    <3>2. Max(ended) \in DOMAIN h
      BY <3>1
    <3>3. ASSUME NEW j \in DOMAIN h, j > Max(ended)
          PROVE  h[j].status \notin EndedStatus
      <4>1. \A m \in 1 .. Len(h) : j > m => ~(j <= m)
        BY <2>1, <3>3
      <4>2. j \notin ended
        <5> HIDE DEF ended
        <5> QED
          BY <2>1, <3>1, <3>2, <3>3, <4>1
      <4> QED
        BY <4>2 DEF EndedStatus
    <3> QED
      BY <2>1, <2>3, <3>2, <3>3 DEF Reported
  <2> QED
    BY <2>3 DEF FailureIsReported
<1> QED
  BY <1>1, HistoryInvariant, PTL

\* As long as reads are fresh, no two completed runs of the history started in
\* the same window, for every cron expression, timeout and history length.
THEOREM OneCompletionPerWindow ==
    ASSUME "stale" \notin Faults
    PROVE  Spec => []OneCompletedRunPerWindow
<1>1. HistoryInv => OneCompletedRunPerWindow
  BY DEF HistoryInv, StatusInv, RunsApart, SameWindow, OneCompletedRunPerWindow
<1> QED
  BY <1>1, HistoryInvariant, PTL

\* As long as reads are fresh, trimming the history never reopens a window: a
\* record that closes the open window stays.
THEOREM WindowGuardStays ==
    ASSUME "stale" \notin Faults
    PROVE  Spec => WindowGuardIsKept
<1> DEFINE h == status.maintenanceHistory
           g == status'.maintenanceHistory
           closing == /\ h # << >>
                      /\ h[1].status = "Completed"
                      /\ Evaluate(clock).inWindow
                      /\ Evaluate(clock).nextOpen <= h[1].startedAt
<1>1. ASSUME HistoryInv, [Next]_vars, closing
      PROVE  \E i \in DOMAIN g : g[i] = h[1]
  <2>1. /\ status \in PolicyStatusType /\ clock \in Nat /\ Orderly(status)
        /\ StartedBy(h, clock) /\ TypeInv /\ ConsistencyInv /\ ReconcileInv
    BY <1>1 DEF HistoryInv, TypeInv, TypeOK, ReconcileInv
  <2>2. status' \in PolicyStatusType
    BY <1>1, <2>1, TypeInvNext DEF TypeInv, TypeOK
  <2>3. /\ h \in Seq(MaintenanceRecord) /\ g \in Seq(MaintenanceRecord)
        /\ Len(h) \in Nat /\ Len(g) \in Nat /\ DOMAIN g = 1 .. Len(g)
        /\ DOMAIN h = 1 .. Len(h) /\ 1 \in DOMAIN h
        /\ h[1] \in MaintenanceRecord
    BY <1>1, <2>1, <2>2, HistoryRecords
  <2>4. SameWindow(h[1].startedAt, clock)
    <3>1. InWindow(clock) /\ WindowStart(clock) <= h[1].startedAt
      BY <1>1, <2>1, EvaluateInWindow
    <3>2. h[1].startedAt \in Nat /\ h[1].startedAt <= clock
      BY <2>1, <2>3 DEF MaintenanceRecord, StartedBy
    <3> QED
      BY <2>1, <3>1, <3>2, InOpenWindow
  <2>5. CASE g = h
    BY <2>3, <2>5
  <2>6. ASSUME NEW t \in 0 .. clock, StartedBy(h, t), WindowIsFree(h, t)
        PROVE  FALSE
    <3>1. t \in Nat /\ t <= clock
      BY <2>1
    <3>2. WindowIsFree(h, clock)
      BY <2>1, <2>3, <2>6, <3>1, FreeLater
    <3> QED
      BY <1>1, <2>3, <2>4, <3>2 DEF WindowIsFree
  <2>7. ASSUME RunInProgress(status), NEW rec, NewestReplaced(h, g, rec)
        PROVE  \E i \in DOMAIN g : g[i] = h[1]
    <3>1. /\ Len(h) \in Nat \ {0} /\ Len(g) = Len(h)
          /\ \A k \in 1 .. Len(g) - 1 : k \in 1 .. Len(h) /\ g[k] = h[k]
      BY <2>3, <2>7, ReplacedRecords
    <3>2. Len(h) # 1
      BY <1>1, <2>7 DEF RunInProgress, Newest
    <3>3. \A n \in Nat \ {0} : n # 1 => 1 \in 1 .. n - 1 /\ 1 \in 1 .. n
      OBVIOUS
    <3>4. 1 \in 1 .. Len(g) - 1 /\ 1 \in DOMAIN g
      BY <2>3, <3>1, <3>2, <3>3
    <3> QED
      BY <3>1, <3>4
  <2>8. CASE status' = status
    BY <2>5, <2>8
  <2>9. ASSUME NEW t \in 0 .. clock, StartedBy(h, t), Reconciled(status, status', t)
        PROVE  \E i \in DOMAIN g : g[i] = h[1]
    BY <2>5, <2>6, <2>7, <2>9, HowHistoryChanges
  <2> QED
    BY <1>1, <2>1, <2>8, <2>9, StatusStep
<1>2. HistoryInv /\ [Next]_vars
      => [closing => \E i \in DOMAIN g : g[i] = h[1]]_vars
  BY <1>1
<1>3. [][closing => \E i \in DOMAIN g : g[i] = h[1]]_vars <=> WindowGuardIsKept
  BY DEF WindowGuardIsKept
<1> HIDE DEF h, g, closing
<1> QED
  BY <1>2, <1>3, HistoryInvariant, PTL DEF Spec

-----------------------------------------------------------------------------
\* Bounds, also when reads are stale

LEMMA SameHistoryBounded ==
    ASSUME NEW p, NEW q, p.maintenanceHistory = q.maintenanceHistory, AppliedBounded(p)
    PROVE  AppliedBounded(q)
BY DEF AppliedBounded

\* A run in progress keeps its memory.
LEMMA ReplacedBounded ==
    ASSUME NEW p \in PolicyStatusType, AppliedBounded(p),
           NEW i \in InProgressRecords(p), NEW rec,
           rec.appliedMemory = p.maintenanceHistory[i].appliedMemory,
           NEW q, q.maintenanceHistory = [p.maintenanceHistory EXCEPT ![i] = rec]
    PROVE  AppliedBounded(q)
<1> DEFINE h == p.maintenanceHistory
           g == q.maintenanceHistory
<1>1. /\ i \in DOMAIN h /\ h[i].status # "Skipped"
      /\ DOMAIN g = DOMAIN h /\ g[i] = rec
      /\ \A k \in DOMAIN h : k # i => g[k] = h[k]
  BY DEF InProgressRecords, PolicyStatusType
<1> QED
  BY <1>1 DEF AppliedBounded

LEMMA MarkedBounded ==
    ASSUME NEW p \in PolicyStatusType, AppliedBounded(p),
           NEW outcome \in {"Completed", "Failed"}
    PROVE  AppliedBounded(MarkRecordCompleted(p, outcome))
<1> DEFINE h == p.maintenanceHistory
           i == FindInProgressRecord(p)
           rec == [h[i] EXCEPT !.status = outcome]
<1>1. CASE i = 0
  BY <1>1 DEF MarkRecordCompleted
<1>2. CASE i # 0
  <2>1. i \in InProgressRecords(p) /\ i \in 1 .. Len(h) /\ h \in Seq(MaintenanceRecord)
    BY <1>2, FindInProgress DEF InProgressRecords, PolicyStatusType
  <2>2. MarkRecordCompleted(p, outcome).maintenanceHistory = [h EXCEPT ![i] = rec]
    BY <1>2 DEF MarkRecordCompleted, PolicyStatusType
  <2>3. h[i] \in MaintenanceRecord
    BY <2>1, ElementOfSeq
  <2> HIDE DEF i
  <2>4. rec.appliedMemory = h[i].appliedMemory
    BY <2>3 DEF MaintenanceRecord
  <2> HIDE DEF rec
  <2> QED
    BY <2>1, <2>2, <2>4, ReplacedBounded
<1> QED
  BY <1>1, <1>2

LEMMA ConditionBounded ==
    ASSUME NEW p \in PolicyStatusType, AppliedBounded(p),
           NEW type \in ConditionTypes, NEW value \in {"Absent", "True", "False"},
           NEW why \in ConditionReasons
    PROVE  /\ SetCondition(p, type, value, why) \in PolicyStatusType
           /\ AppliedBounded(SetCondition(p, type, value, why))
BY SetConditionType, SetConditionFields, SameHistoryBounded

LEMMA FailedBounded ==
    ASSUME NEW p \in PolicyStatusType, AppliedBounded(p)
    PROVE  AppliedBounded(FailMaintenance(p))
<1>1. /\ MarkRecordCompleted(p, "Failed") \in PolicyStatusType
      /\ AppliedBounded(MarkRecordCompleted(p, "Failed"))
  BY MarkRecordType, MarkedBounded DEF MaintenanceStatus
<1> QED
  BY <1>1, ConditionBounded DEF FailMaintenance, ConditionTypes, ConditionReasons

LEMMA CompletedBounded ==
    ASSUME NEW p \in PolicyStatusType, AppliedBounded(p), HasOpenRun(p)
    PROVE  AppliedBounded(CompleteMaintenance(p))
<1> DEFINE paid == [p EXCEPT !.currentMemory = OpenRun(p).appliedMemory]
<1>1. OpenRun(p).appliedMemory \in OptionalMemory
  BY OpenRunType DEF MaintenanceRecord
<1>2. paid \in PolicyStatusType /\ paid.maintenanceHistory = p.maintenanceHistory
  BY <1>1, MemoryFieldType DEF PolicyStatusType
<1> HIDE DEF paid
<1>3. /\ MarkRecordCompleted(paid, "Completed") \in PolicyStatusType
      /\ AppliedBounded(MarkRecordCompleted(paid, "Completed"))
  BY <1>2, SameHistoryBounded, MarkRecordType, MarkedBounded DEF MaintenanceStatus
<1> QED
  BY <1>3, ConditionBounded
     DEF CompleteMaintenance, ConditionTypes, ConditionReasons, paid

LEMMA AdvancedBounded ==
    ASSUME NEW p \in PolicyStatusType, AppliedBounded(p), HasOpenRun(p)
    PROVE  AppliedBounded(AdvancePhase(p))
<1> DEFINE h == p.maintenanceHistory
           i == FindInProgressRecord(p)
           rec == [h[i] EXCEPT !.phase = "PostActionsTriggered"]
<1>1. i \in InProgressRecords(p) /\ h[i] \in MaintenanceRecord
  BY OpenRunType DEF OpenRun
<1>2. AdvancePhase(p) = [p EXCEPT !.maintenanceHistory = [h EXCEPT ![i] = rec]]
  BY DEF AdvancePhase
<1> HIDE DEF i
<1>3. rec.appliedMemory = h[i].appliedMemory
  BY <1>1 DEF MaintenanceRecord
<1> HIDE DEF rec
<1>4. AdvancePhase(p).maintenanceHistory = [h EXCEPT ![i] = rec]
  BY <1>2 DEF PolicyStatusType
<1> QED
  BY <1>1, <1>3, <1>4, ReplacedBounded

\* A new record is as good as the memory it applied, whatever is trimmed.
LEMMA AddedBounded ==
    ASSUME NEW p \in PolicyStatusType, AppliedBounded(p), NEW rec \in MaintenanceRecord,
           rec.status # "Skipped" => WithinBounds(rec.appliedMemory)
    PROVE  AppliedBounded(AddMaintenanceRecord(p, rec))
<1> DEFINE h == p.maintenanceHistory
           grown == Append(h, rec)
           g == AddMaintenanceRecord(p, rec).maintenanceHistory
           cut == SubSeq(grown, Len(grown) - MaxHistory + 1, Len(grown))
<1>1. h \in Seq(MaintenanceRecord) /\ Len(h) \in Nat /\ MaxHistory \in Nat \ {0}
  BY HistoryRecords, MaxHistoryAssumption
<1>2. /\ grown \in Seq(MaintenanceRecord)
      /\ Len(grown) = Len(h) + 1
      /\ grown[Len(h) + 1] = rec
      /\ \A i \in 1 .. Len(h) : grown[i] = h[i]
  BY <1>1, AppendProperties
<1>3. \A i \in 1 .. Len(grown) :
        grown[i].status # "Skipped" => WithinBounds(grown[i].appliedMemory)
  <2>1. \A i \in 1 .. Len(h) : h[i].status # "Skipped" => WithinBounds(h[i].appliedMemory)
    BY <1>1 DEF AppliedBounded
  <2> HIDE DEF grown
  <2> QED
    BY <1>1, <1>2, <2>1
<1>4. g = IF Len(grown) > MaxHistory THEN cut ELSE grown
  BY DEF AddMaintenanceRecord, PolicyStatusType
<1>5. CASE Len(grown) > MaxHistory
  <2>1. Len(grown) \in Nat /\ Len(grown) - MaxHistory + 1 \in 1 .. Len(grown)
    BY <1>1, <1>2, <1>5
  <2>2. /\ DOMAIN cut = 1 .. MaxHistory
        /\ \A i \in 1 .. MaxHistory : cut[i] = grown[Len(grown) - MaxHistory + i]
    <3>1. /\ Len(cut) = MaxHistory
          /\ \A i \in 1 .. MaxHistory : cut[i] = grown[Len(grown) - MaxHistory + i]
      BY <1>1, <1>2, <2>1, SubSeqProperties
    <3>2. cut \in Seq(MaintenanceRecord)
      BY <1>2, <2>1, SubSeqProperties
    <3> QED
      BY <3>1, <3>2, LenProperties
  <2>3. \A i \in 1 .. MaxHistory : Len(grown) - MaxHistory + i \in 1 .. Len(grown)
    BY <1>1, <2>1
  <2>4. g = cut
    BY <1>4, <1>5
  <2> HIDE DEF g, cut, grown
  <2> QED
    BY <1>3, <2>2, <2>3, <2>4 DEF AppliedBounded, g
<1>6. CASE ~(Len(grown) > MaxHistory)
  <2>1. g = grown /\ DOMAIN grown = 1 .. Len(grown)
    BY <1>2, <1>4, <1>6, LenProperties
  <2> HIDE DEF grown
  <2> QED
    BY <1>3, <2>1 DEF AppliedBounded
<1> QED
  BY <1>5, <1>6

LEMMA RecordsBounded ==
    ASSUME NEW p \in PolicyStatusType, AppliedBounded(p), clock \in Nat
    PROVE  /\ AppliedBounded(SkipMaintenance(p))
           /\ WithinBounds(p.memoryTarget) => AppliedBounded(RecordStart(p))
<1>1. AppliedBounded(SkipMaintenance(p))
  <2>1. [startedAt |-> clock, status |-> "Skipped",
         phase |-> "", appliedMemory |-> NoMemory] \in MaintenanceRecord
    BY DEF MaintenanceRecord, MaintenanceStatus, MaintenancePhase, OptionalMemory
  <2> QED
    BY <2>1, AddedBounded DEF SkipMaintenance
<1>2. ASSUME WithinBounds(p.memoryTarget) PROVE AppliedBounded(RecordStart(p))
  <2> DEFINE rec == [startedAt |-> clock, status |-> "InProgress",
                     phase |-> "PatchApplied", appliedMemory |-> p.memoryTarget]
             begun == SetCondition(p, "MaintenanceInProgress", "True", "MaintenanceStarted")
  <2>1. rec \in MaintenanceRecord /\ WithinBounds(rec.appliedMemory)
    BY <1>2 DEF MaintenanceRecord, MaintenanceStatus, MaintenancePhase, PolicyStatusType
  <2>2. begun \in PolicyStatusType /\ AppliedBounded(begun)
    BY ConditionBounded DEF ConditionTypes, ConditionReasons
  <2>3. RecordStart(p) = AddMaintenanceRecord(begun, rec)
    BY DEF RecordStart
  <2> HIDE DEF begun, rec
  <2> QED
    BY <2>1, <2>2, <2>3, AddedBounded
<1> QED
  BY <1>1, <1>2

LEMMA BoundsInvInit == Init => BoundsInv
<1>1. AppliedBounded(EmptyStatus)
  BY EmptySeq DEF AppliedBounded, EmptyStatus
<1> QED
  BY <1>1 DEF Init, BoundsInv, StartCalls

\* The policy object in hand.
LEMMA CallKeepsBounds ==
    ASSUME TypeInv, BoundsInv, ReconcileStep, ~Persist
    PROVE  /\ AppliedBounded(pol')
           /\ pc' \in StartCalls => WithinBounds(pol'.memoryTarget)
<1> USE DEF GoTo, Return, StartCalls
<1>1. /\ TypeOK /\ pol \in PolicyStatusType /\ AppliedBounded(pol) /\ clock \in Nat
      /\ pc \in RunCalls => HasOpenRun(pol)
  BY DEF TypeInv, TypeOK, BoundsInv
<1>2. RecommendationReady =>
        /\ Synced \in PolicyStatusType /\ AppliedBounded(Synced)
        /\ WithinBounds(Synced.memoryTarget)
  BY <1>1, SyncedType, SyncedCarried, SameHistoryBounded, RecommendationWithinBounds
     DEF Carried, WithinBounds
<1>3. /\ Observed \in PolicyStatusType /\ AppliedBounded(Observed)
      /\ Observed.memoryTarget = pol.memoryTarget
  BY <1>1, ObservedType, ObservedCarried, SameHistoryBounded DEF Carried
<1>4. CASE Begin \/ GetCurrentMemory
  BY <1>1, <1>4 DEF Begin, GetCurrentMemory, BoundsInv
<1>5. CASE Bootstrap
  <2>1. pol' \in {pol, [pol EXCEPT !.currentMemory = InitialMemory]} /\ pc' = "persist"
    BY <1>5 DEF Bootstrap
  <2>2. [pol EXCEPT !.currentMemory = InitialMemory].maintenanceHistory
        = pol.maintenanceHistory
    BY <1>1 DEF PolicyStatusType
  <2> QED
    BY <1>1, <2>1, <2>2, SameHistoryBounded
<1>6. CASE ReadNoRecommendation
  <2>1. \A why \in {"VPANotFound", "NoRecommendationYet"} :
          AppliedBounded(SetCondition(pol, "VPARecommendationReady", "False", why))
    BY <1>1, ConditionBounded DEF ConditionTypes, ConditionReasons
  <2>2. pc' = "persist"
        /\ \/ pol' = pol
           \/ \E why \in {"VPANotFound", "NoRecommendationYet"} :
                 pol' = SetCondition(pol, "VPARecommendationReady", "False", why)
    BY <1>6 DEF ReadNoRecommendation
  <2> QED
    BY <1>1, <2>1, <2>2
<1>7. CASE WindowEvaluationFails \/ ResumeRun
  BY <1>2, <1>7 DEF WindowEvaluationFails, ResumeRun
<1>8. CASE ConsiderRun
  <2>1. /\ RecommendationReady /\ pol' = ClearStaleCondition(Synced)
    BY <1>8 DEF ConsiderRun
  <2>2. /\ AppliedBounded(ClearStaleCondition(Synced))
        /\ ClearStaleCondition(Synced).memoryTarget = Synced.memoryTarget
    <3> DEFINE cleared == SetCondition(Synced, "MaintenanceInProgress", "False",
                                       "StaleConditionCleared")
    <3>1. AppliedBounded(cleared)
      BY <1>2, <2>1, ConditionBounded DEF ConditionTypes, ConditionReasons
    <3>2. cleared.memoryTarget = Synced.memoryTarget
      BY <1>2, <2>1 DEF SetCondition, PolicyStatusType
    <3> QED
      BY <1>2, <2>1, <3>1, <3>2 DEF ClearStaleCondition
  <2> QED
    BY <1>2, <2>1, <2>2
<1>9. CASE CheckHealthGate
  BY <1>1, <1>9, RecordsBounded DEF CheckHealthGate, BoundsInv
<1>10. CASE ChangeGateBlocks
  <2>1. Gate \in ConditionReasons
    BY DEF Gate, ChangeGate, ConditionReasons
  <2>2. SkipMaintenance(Observed) \in PolicyStatusType
        /\ AppliedBounded(SkipMaintenance(Observed))
    BY <1>1, <1>3, RecordsBounded, SkipMaintenanceType
  <2> QED
    BY <1>10, <2>1, <2>2, ConditionBounded DEF ChangeGateBlocks, ConditionTypes
<1>11. CASE StartMaintenance
  <2>1. /\ pol' \in {RecordStart(Observed), FailMaintenance(Observed)}
        /\ pc' = "persist" /\ pc = "start"
    BY <1>11 DEF StartMaintenance
  <2>2. WithinBounds(Observed.memoryTarget)
    BY <1>3, <2>1 DEF BoundsInv
  <2> QED
    BY <1>1, <1>3, <2>1, <2>2, RecordsBounded, FailedBounded
<1>12. CASE MonitorCluster \/ TriggerPostAction \/ MonitorRollout
            \/ HandleWindowExpired \/ CheckExpiredRollout
  <2>1. /\ pc \in RunCalls /\ pc' \notin StartCalls
        /\ pol' \in {pol, CompleteMaintenance(pol), FailMaintenance(pol), AdvancePhase(pol)}
    BY <1>12 DEF MonitorCluster, TriggerPostAction, MonitorRollout, HandleWindowExpired,
                 CheckExpiredRollout, RunCalls
  <2> QED
    BY <1>1, <2>1, CompletedBounded, FailedBounded, AdvancedBounded
<1> QED
  BY <1>4, <1>5, <1>6, <1>7, <1>8, <1>9, <1>10, <1>11, <1>12 DEF ReconcileStep

LEMMA BoundsInvNext == TypeInv /\ BoundsInv /\ [Next]_vars => BoundsInv'
<1> SUFFICES ASSUME TypeInv, BoundsInv, [Next]_vars PROVE BoundsInv'
  OBVIOUS
<1> USE DEF world, reconcile
<1>1. CASE Persist
  <2>1. /\ status \in PolicyStatusType /\ AppliedBounded(status)
        /\ AppliedBounded(pol) /\ AppliedBounded(cached)
    BY DEF TypeInv, TypeOK, BoundsInv
  <2>2. AppliedBounded(MergePatch(status, base, pol))
    <3>1. MergePatch(status, base, pol).maintenanceHistory
          \in {status.maintenanceHistory, pol.maintenanceHistory}
      BY <2>1 DEF MergePatch, PolicyStatusType
    <3> QED
      BY <2>1, <3>1, SameHistoryBounded
  <2>3. AppliedBounded(EmptyStatus)
    BY EmptySeq DEF AppliedBounded, EmptyStatus
  <2>4. AppliedBounded(status') /\ AppliedBounded(cached')
    BY <1>1, <2>1, <2>2 DEF Persist
  <2> QED
    BY <1>1, <2>3, <2>4 DEF Persist, EndReconcile, BoundsInv, StartCalls
<1>2. CASE ReconcileStep /\ ~Persist
  <2>1. UNCHANGED <<status, cached>>
    BY <1>2 DEF ReconcileStep, Begin, GetCurrentMemory, Bootstrap, ReadNoRecommendation,
                WindowEvaluationFails, ResumeRun, ConsiderRun, CheckHealthGate,
                ChangeGateBlocks, StartMaintenance, MonitorCluster, TriggerPostAction,
                MonitorRollout, HandleWindowExpired, CheckExpiredRollout
  <2> QED
    BY <1>2, <2>1, CallKeepsBounds DEF BoundsInv
<1>3. CASE Crash
  <2>1. AppliedBounded(EmptyStatus)
    BY EmptySeq DEF AppliedBounded, EmptyStatus
  <2> QED
    BY <1>3, <2>1 DEF Crash, EndReconcile, BoundsInv, StartCalls
<1>4. CASE Environment /\ ~Crash
  <2>1. /\ UNCHANGED <<status, pc, pol>>
        /\ cached' \in {cached, status}
    BY <1>4 DEF Environment, CacheSync, Tick, VPAChanges, ClusterStopsRunning,
                ClusterRuns, ClusterDeleted, ClusterCreated, RolloutProgresses,
                EnvironmentUnchanged
  <2> QED
    BY <2>1 DEF BoundsInv
<1>5. CASE UNCHANGED vars
  BY <1>5 DEF vars, BoundsInv
<1> QED
  BY <1>1, <1>2, <1>3, <1>4, <1>5 DEF Next

\* Every run of the history applied a memory between memoryMin and memoryMax, if
\* those are ordered, also when a reconcile from an old copy of the policy
\* writes back what it read.
THEOREM RunsApplyWithinBounds == Spec => []AppliedWithinBounds
<1>1. Init => TypeInv /\ BoundsInv
  BY TypeInvInit, BoundsInvInit
<1>2. TypeInv /\ BoundsInv /\ [Next]_vars => (TypeInv /\ BoundsInv)'
  BY TypeInvNext, BoundsInvNext
<1>3. TypeInv /\ BoundsInv => AppliedWithinBounds
  BY DEF BoundsInv, AppliedBounded, WithinBounds, AppliedWithinBounds
<1> QED
  BY <1>1, <1>2, <1>3, PTL DEF Spec
=============================================================================
