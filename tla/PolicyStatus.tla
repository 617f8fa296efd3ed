---------------------------- MODULE PolicyStatus ----------------------------
(***************************************************************************)
(* The status subresource of a PostgresMemoryPolicy and the operations of  *)
(* conditions.go on it.  The status is the only thing the operator          *)
(* persists: a maintenance run survives a reconcile, a restart of the       *)
(* controller or a failed call only through it.                             *)
(*                                                                         *)
(* Simplifications: a condition keeps its status and reason (message,       *)
(* transition time and generation are left out); a record keeps its start,  *)
(* status, phase and applied memory (its completion time, reason and        *)
(* previous memory are only shown to users).                                *)
(***************************************************************************)
EXTENDS Integers, Sequences, FiniteSetsExt

CONSTANTS
    MaxHistory,   \* records kept in the history (10 in the code)
    NoMemory      \* an absent memory quantity (nil)

ASSUME MaxHistoryAssumption == MaxHistory \in Nat \ {0}
ASSUME NoMemoryAssumption == NoMemory \notin Nat

ConditionTypes ==
    {"VPARecommendationReady", "MaintenanceInProgress", "LastMaintenanceFailed"}

\* "" is the reason of an absent condition
ConditionReasons ==
    {"", "Ready", "VPANotFound", "NoRecommendationYet",
     "MaintenanceStarted", "MaintenanceCompleted", "MaintenanceFailed",
     "MaintenanceSucceeded", "StaleConditionCleared",
     "ChangeGateAbsoluteDiff", "ChangeGateRelativeDiff"}

\* "Absent": findCondition returns nil
Condition == [status : {"Absent", "True", "False"}, reason : ConditionReasons]

OptionalMemory == Nat \cup {NoMemory}

\* "Pending" is declared in the API and never written by the operator
MaintenanceStatus == {"InProgress", "Completed", "Failed", "Skipped"}

\* "" is the phase of a Skipped record, which never had one
MaintenancePhase == {"", "PatchApplied", "PostActionsTriggered"}

MaintenanceRecord ==
    [startedAt     : Nat,
     status        : MaintenanceStatus,
     phase         : MaintenancePhase,
     appliedMemory : OptionalMemory]

PolicyStatusType ==
    [memoryTarget       : OptionalMemory,
     currentMemory      : OptionalMemory,
     maintenanceHistory : Seq(MaintenanceRecord),
     conditions         : [ConditionTypes -> Condition]]

EmptyStatus ==
    [memoryTarget       |-> NoMemory,
     currentMemory      |-> NoMemory,
     maintenanceHistory |-> << >>,
     conditions         |-> [c \in ConditionTypes |->
                               [status |-> "Absent", reason |-> ""]]]

-----------------------------------------------------------------------------
\* Conditions

IsConditionTrue(pol, type) == pol.conditions[type].status = "True"

SetCondition(pol, type, value, why) ==
    [pol EXCEPT !.conditions[type] = [status |-> value, reason |-> why]]

-----------------------------------------------------------------------------
\* Maintenance history, oldest record first

\* Slips for mutation runs: the outcome is written to the newest record, in
\* progress or not; a run at the very opening of a window does not close it.
MarkNewestRecordCompleted(pol, outcome) ==
    IF pol.maintenanceHistory = << >>
    THEN pol
    ELSE [pol EXCEPT
            !.maintenanceHistory[Len(pol.maintenanceHistory)].status = outcome]

HasCompletedMaintenanceAfterStart(pol, windowStart, windowEnd) ==
    \E i \in DOMAIN pol.maintenanceHistory :
        LET rec == pol.maintenanceHistory[i]
        IN  /\ rec.status = "Completed"
            /\ windowStart < rec.startedAt
            /\ rec.startedAt < windowEnd

\* Keeps the newest MaxHistory records, dropping at most one since the
\* history is never longer than that before the append.
AddMaintenanceRecord(pol, record) ==
    [pol EXCEPT !.maintenanceHistory =
        LET grown == Append(@, record)
        IN  IF Len(grown) > MaxHistory
            THEN SubSeq(grown, Len(grown) - MaxHistory + 1, Len(grown))
            ELSE grown]

InProgressRecords(pol) ==
    {i \in DOMAIN pol.maintenanceHistory :
        pol.maintenanceHistory[i].status = "InProgress"}

\* The position of the first InProgress record, 0 for nil.
FindInProgressRecord(pol) ==
    IF InProgressRecords(pol) = {} THEN 0 ELSE Min(InProgressRecords(pol))

HasCompletedMaintenanceInWindow(pol, windowStart, windowEnd) ==
    \E i \in DOMAIN pol.maintenanceHistory :
        LET rec == pol.maintenanceHistory[i]
        IN  /\ rec.status = "Completed"
            /\ windowStart <= rec.startedAt
            /\ rec.startedAt < windowEnd

MarkRecordCompleted(pol, outcome) ==
    IF FindInProgressRecord(pol) = 0
    THEN pol
    ELSE [pol EXCEPT
            !.maintenanceHistory[FindInProgressRecord(pol)].status = outcome]

-----------------------------------------------------------------------------
\* What Status().Patch(MergeFrom(base)) does to the stored status: each field
\* that the reconcile changed replaces the stored one (JSON merge patch: a
\* list is replaced whole), the others are left as they are on the server.  A
\* condition whose message alone changes is no change here: it makes a
\* difference only if somebody else patched the conditions since base was read.
MergePatch(server, base, pol) ==
    [f \in DOMAIN server |-> IF pol[f] # base[f] THEN pol[f] ELSE server[f]]
=============================================================================
